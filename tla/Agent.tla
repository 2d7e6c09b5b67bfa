------------------------------- MODULE Agent --------------------------------
(***************************************************************************)
(* sddf-agent and the page it shares with sddf-grok, in two machines.      *)
(*                                                                         *)
(* The tools (Init, Next): the file tools of tools.rs, over lerux-posix.   *)
(* Write and edit replace a file by removing it, creating it again and     *)
(* writing it; a reset, or a block transfer that fails, may come between   *)
(* any two of these exchanges.                                             *)
(*                                                                         *)
(* The page (PageInit, PageNext): both domains over the shared tool page.  *)
(* Each has a root, which takes the notifications of all its channels at   *)
(* once, and a worker cothread.  The worker of grok fills the page and     *)
(* waits for the tool channel; the worker of the agent runs the tool.  A   *)
(* browse is answered by the root of grok while its worker waits.  What a  *)
(* file or network tool returns is a choice (the tools and Sockets).       *)
(***************************************************************************)
EXTENDS PosixFiles

CONSTANTS Requests,   \* [kind, name, from, text]: tools that grok asks for
          Disks,      \* volumes the agent may start on
          Order,      \* Name as a sequence: the entries of the root
          ListMax,    \* names of one listing
          ResultCap   \* AGENT_RESULT_CAP, for texts and for joined names

VARIABLES fs, tool

vars == <<fs, tool>>

NoTool == [kind |-> "none", name |-> Root, from |-> << >>, text |-> << >>]
Nothing == Done(0, << >>)

Fresh(v) == [at |-> "wait", req |-> NoTool, fd |-> 0, got |-> Nothing, names |-> << >>,
             hits |-> << >>, next |-> << >>, before |-> v, ok |-> TRUE, result |-> << >>,
             reset |-> FALSE]

\* worker: bind, then wait for the tool channel.
Init == \E v \in Disks : fs = Bound(v) /\ tool = Fresh(v)

\* The worker's outcome and agent_store_outcome: a failure clears the result.
Outcome(ok, result) ==
  tool' = [tool EXCEPT !.at = "wait", !.ok = ok, !.result = IF ok THEN result ELSE << >>,
                       !.fd = 0, !.got = Nothing, !.names = << >>, !.hits = << >>]

\* store.
Store(result) == Outcome(Len(result) <= ResultCap, result)

\* run: the arguments each kind refuses, and the stage it starts at.
Refuses(r) ==
  \/ r.kind = "write" /\ (r.text = << >> \/ Len(r.text) > SectorLen)
  \/ r.kind \in {"edit", "search"} /\ r.from = << >>
  \/ r.kind \notin {"read", "write", "edit", "list", "search"}

FirstStage(r) ==
  CASE r.kind \in {"read", "edit"} -> "open" [] r.kind = "write" -> "unlink" [] OTHER -> "opendir"

Run ==
  /\ tool.at = "wait"
  /\ \E r \in Requests :
       LET t == [tool EXCEPT !.req = r, !.before = fs.vol, !.reset = FALSE, !.next = r.text] IN
         IF Refuses(r) THEN tool' = [t EXCEPT !.ok = FALSE, !.result = << >>]
         ELSE tool' = [t EXCEPT !.at = FirstStage(r)]
  /\ UNCHANGED fs

-----------------------------------------------------------------------------
(* read_file, for read, edit and search.                                    *)

Path == IF tool.req.kind = "search" THEN Head(tool.names) ELSE tool.req.name

ReadOpen ==
  /\ tool.at = "open" /\ fs.up
  /\ \E r \in Served(fs, Open(fs, Path, "read")) :
       /\ fs' = r.fs
       /\ IF r.ok THEN tool' = [tool EXCEPT !.at = "read", !.fd = r.val] ELSE Outcome(FALSE, << >>)

\* read asks for one byte more than the page holds, to tell a file that does not fit.
ReadStep ==
  /\ tool.at = "read" /\ fs.up
  /\ \E r \in Served(fs, Read(fs, tool.fd, IF tool.req.kind = "read" THEN ResultCap + 1 ELSE SectorLen)) :
       fs' = r.fs /\ tool' = [tool EXCEPT !.got = r, !.at = "close"]

Occurs(needle, text) == {i \in 1 .. Len(text) - Len(needle) + 1 :
                           SubSeq(text, i, i + Len(needle) - 1) = needle}

\* replace_first, of the first occurrence.
ReplaceFirst(text, from, to) ==
  LET i == First(Occurs(from, text))
  IN SubSeq(text, 1, i - 1) \o to \o SubSeq(text, i + Len(from), Len(text))

\* Mutant: whether the new text fits the page is left to the store after the write.
EditTextMutant ==
  LET text == tool.got.val
      new == ReplaceFirst(text, tool.req.from, tool.req.text)
  IN IF Occurs(tool.req.from, text) = {} \/ Len(new) > SectorLen THEN Outcome(FALSE, << >>)
     ELSE tool' = [tool EXCEPT !.at = "unlink", !.next = new]

\* edit between its read and replace_file.
EditText ==
  LET text == tool.got.val
      new == ReplaceFirst(text, tool.req.from, tool.req.text)
  IN IF Occurs(tool.req.from, text) = {} \/ Len(new) > SectorLen \/ Len(new) > ResultCap
     THEN Outcome(FALSE, << >>)
     ELSE tool' = [tool EXCEPT !.at = "unlink", !.next = new]

\* search: the file whose name heads the list has been read.
SearchText ==
  tool' = [tool EXCEPT !.at = "stat", !.names = Tail(@),
                       !.hits = IF Occurs(tool.req.from, tool.got.val) # {} THEN Append(@, Head(tool.names))
                                ELSE @]

ReadClose ==
  /\ tool.at = "close" /\ fs.up
  /\ fs' = Close(fs, tool.fd).fs
  /\ CASE ~tool.got.ok -> Outcome(FALSE, << >>)
       [] tool.req.kind = "read" -> Store(tool.got.val)
       [] tool.req.kind = "edit" -> EditText
       [] OTHER -> SearchText

-----------------------------------------------------------------------------
(* replace_file, for write and edit.                                        *)

UnlinkStep ==
  /\ tool.at = "unlink" /\ fs.up
  /\ \E r \in Served(fs, Unlink(fs, tool.req.name)) :
       /\ fs' = r.fs
       /\ IF r.ok \/ r.code = "ENOENT" THEN tool' = [tool EXCEPT !.at = "create"]
          ELSE Outcome(FALSE, << >>)

CreateStep ==
  /\ tool.at = "create" /\ fs.up
  /\ \E r \in Served(fs, Open(fs, tool.req.name, "create")) :
       /\ fs' = r.fs
       /\ IF r.ok THEN tool' = [tool EXCEPT !.at = "write", !.fd = r.val] ELSE Outcome(FALSE, << >>)

WriteStep ==
  /\ tool.at = "write" /\ fs.up
  /\ LET r == Write(fs, tool.fd, tool.next) IN
       \E w \in IF tool.next = << >> THEN {r} ELSE Served(fs, r) :
         fs' = w.fs /\ tool' = [tool EXCEPT !.got = w, !.at = "written"]

WriteClose ==
  /\ tool.at = "written" /\ fs.up
  /\ fs' = Close(fs, tool.fd).fs
  /\ LET ok == tool.got.ok /\ tool.got.val = Len(tool.next) IN
       IF tool.req.kind = "edit" /\ ok THEN Store(tool.next) ELSE Outcome(ok, << >>)

-----------------------------------------------------------------------------
(* collect_names, for list_dir and search; insert refuses a name too many.  *)

ListOpen ==
  /\ tool.at = "opendir" /\ fs.up
  /\ \E r \in Served(fs, OpenDir(fs, tool.req.name, Order)) :
       /\ fs' = r.fs
       /\ IF r.ok THEN tool' = [tool EXCEPT !.at = "readdir", !.fd = r.val] ELSE Outcome(FALSE, << >>)

ListRead ==
  /\ tool.at = "readdir" /\ fs.up
  /\ \E r \in Served(fs, ReadDir(fs, tool.fd)) :
       /\ fs' = r.fs
       /\ IF r.ok /\ r.val # None /\ Len(tool.names) < ListMax
          THEN tool' = [tool EXCEPT !.names = Append(@, r.val)]
          ELSE tool' = [tool EXCEPT !.at = "closedir", !.got = [r EXCEPT !.ok = r.ok /\ r.val = None]]

ListClose ==
  /\ tool.at = "closedir" /\ fs.up
  /\ fs' = CloseDir(fs, tool.fd).fs
  /\ IF ~tool.got.ok THEN Outcome(FALSE, << >>)
     ELSE IF tool.req.kind = "list" THEN Store(tool.names)
     ELSE tool' = [tool EXCEPT !.at = "stat", !.got = Nothing]

\* search: a directory is skipped, a name stat refuses ends the search.
StatStep ==
  /\ tool.at = "stat" /\ tool.names # << >> /\ fs.up
  /\ \E r \in Served(fs, Stat(fs, Head(tool.names))) :
       /\ fs' = r.fs
       /\ IF ~r.ok THEN Outcome(FALSE, << >>)
          ELSE IF r.val = "dir" THEN tool' = [tool EXCEPT !.names = Tail(@)]
          ELSE tool' = [tool EXCEPT !.at = "open"]

SearchEnds == tool.at = "stat" /\ tool.names = << >> /\ Store(tool.hits) /\ UNCHANGED fs

-----------------------------------------------------------------------------
\* The machine restarts: what the volume holds stays.
Reset ==
  /\ fs' = Bound(fs.vol)
  /\ tool' = [Fresh(tool.before) EXCEPT !.req = tool.req, !.next = tool.next, !.reset = TRUE,
                                        !.ok = tool.at = "wait" /\ tool.ok]

Step ==
  \/ ReadOpen \/ ReadStep \/ ReadClose \/ UnlinkStep \/ CreateStep \/ WriteStep \/ WriteClose
  \/ ListOpen \/ ListRead \/ ListClose \/ StatStep \/ SearchEnds

Next == Run \/ Step \/ Reset

Spec == Init /\ [][Next]_vars /\ WF_vars(Step)

-----------------------------------------------------------------------------
\* The volume, the tool and its descriptors hold known values.
TypeOK ==
  /\ tool.at \in {"wait", "open", "read", "close", "unlink", "create", "write", "written", "opendir",
                  "readdir", "closedir", "stat"}
  /\ Len(tool.result) <= ResultCap /\ {tool.ok, tool.reset} \subseteq BOOLEAN
  /\ DOMAIN fs.vol = Name /\ DOMAIN fs.slots = Fd

Writes == tool.req.kind \in {"write", "edit"}

\* A tool changes the file it names and no other.  When it says ok the file holds
\* the new text; when it says err the volume is as it was, unless a reset or a
\* failing device cut it short, and then the file may be gone or empty but never
\* holds anything else.
ReplacesWhole ==
  \A n \in Name :
    LET now == fs.vol[n]
        old == tool.before[n]
        new == File(tool.next)
    IN IF ~Writes \/ n # tool.req.name THEN now = old
       ELSE IF tool.at # "wait" \/ tool.reset \/ ~fs.up THEN now \in {old, Absent, File(<< >>), new}
       ELSE now = IF tool.ok THEN new ELSE old

\* Nothing stays open when a tool has ended, and in between both sides agree.
NothingLeftOpen ==
  fs.up => /\ HandlesAgree(fs)
           /\ tool.at \in {"wait", "unlink", "opendir", "stat"} => NothingOpen(fs)

\* Every tool ends, unless the file server has ended.
Busy == tool.at # "wait" /\ fs.up
ToolEnds == []<>~Busy

-----------------------------------------------------------------------------
(* The page.                                                                *)

CONSTANTS Names,     \* arguments that fit the page
          LongName,  \* one that does not
          Kinds      \* tool kinds other than browse

VARIABLES page,      \* agent_tool_t
          badge,     \* domain -> channels notified and not yet taken
          sem,       \* domain -> channels whose notification the root has passed on
          grok,      \* pc of the worker, the tool it asked for
          agent      \* pc of the worker, its copy of the request, the tool's result

pageVars == <<page, badge, sem, grok, agent>>

Domains == {"grok", "agent"}
NoName == ""
Zeroed == [kind |-> "none", name |-> NoName, state |-> "idle", result |-> NoName]
Tool(kind, name) == [kind |-> kind, name |-> name]

PageInit ==
  /\ page = Zeroed
  /\ badge = [d \in Domains |-> {}] /\ sem = [d \in Domains |-> {}]
  /\ grok = [pc |-> "prompt", asked |-> Tool("none", NoName), ok |-> FALSE]
  /\ agent = [pc |-> "wait", req |-> Tool("none", NoName), ok |-> FALSE]

\* Channel::notify: a channel that is already pending stays pending.
Notify(d, ch) == [badge EXCEPT ![d] = @ \cup {ch}]

\* microkit_cothread_wait_on_channel: returns once the root has had the channel.
Awake(d, ch) == ch \in sem[d]
Taken(d, ch) == [sem EXCEPT ![d] = @ \ {ch}]

\* issue: the page is written whole, then the agent is notified.  A name that
\* does not fit is refused before the page is touched.
Issue(kind, name) ==
  /\ grok.pc = "prompt"
  /\ IF name = LongName
     THEN grok' = [grok EXCEPT !.asked = Tool(kind, name), !.ok = FALSE, !.pc = "report"]
          /\ UNCHANGED <<page, badge, sem>>
     ELSE /\ page' = [Zeroed EXCEPT !.kind = kind, !.name = name]
          /\ badge' = Notify("agent", "tool")
          /\ grok' = [grok EXCEPT !.asked = Tool(kind, name), !.pc = "waiting"]
          /\ UNCHANGED sem
  /\ UNCHANGED agent

\* The wait of issue returns.
IssueReturns ==
  /\ grok.pc = "waiting" /\ Awake("grok", "tool")
  /\ sem' = Taken("grok", "tool")
  /\ grok' = [grok EXCEPT !.pc = "report", !.ok = page.state = "ok"]
  /\ UNCHANGED <<page, badge, agent>>

\* run_tool: say the result, then read the next line.
Report == grok.pc = "report" /\ grok' = [grok EXCEPT !.pc = "prompt"] /\ UNCHANGED <<page, badge, sem, agent>>

\* Mutant: the name is not copied to the result.
AnswerBrowseMutant(p) == [p EXCEPT !.state = "browse_done"]

\* agent_answer_browse: a page that is no browse request is left as it is.
AnswerBrowse(p) ==
  IF p.state = "browse" /\ p.kind = "browse" THEN [p EXCEPT !.state = "browse_done", !.result = p.name]
  ELSE p

\* notified of grok: the browse first, on the root, then what the worker waits for.
GrokNotified ==
  /\ badge["grok"] # {}
  /\ LET answer == "browse" \in badge["grok"]
         done == answer /\ page.state = "browse" /\ page.kind = "browse"
     IN /\ page' = IF answer THEN AnswerBrowse(page) ELSE page
        /\ badge' = [badge EXCEPT !["grok"] = {},
                                  !["agent"] = IF done THEN @ \cup {"browse"} ELSE @]
        /\ sem' = [sem EXCEPT !["grok"] = @ \cup (badge["grok"] \ {"browse"})]
  /\ UNCHANGED <<grok, agent>>

AgentNotified ==
  /\ badge["agent"] # {}
  /\ sem' = [sem EXCEPT !["agent"] = @ \cup badge["agent"]]
  /\ badge' = [badge EXCEPT !["agent"] = {}]
  /\ UNCHANGED <<page, grok, agent>>

-----------------------------------------------------------------------------
(* The worker of the agent.                                                 *)

\* The wait returns and run copies the request out of the page.
ToolStarts ==
  /\ agent.pc = "wait" /\ Awake("agent", "tool")
  /\ sem' = Taken("agent", "tool")
  /\ agent' = [agent EXCEPT !.req = Tool(page.kind, page.name),
                            !.pc = IF page.kind = "browse" THEN "browse" ELSE "run"]
  /\ UNCHANGED <<page, badge, grok>>

\* What a tool answers; store puts it on the page.
Answer(req) == req.name

FileOrFetch ==
  /\ agent.pc = "run"
  /\ \E ok \in BOOLEAN :
       /\ page' = IF ok THEN [page EXCEPT !.result = Answer(agent.req)] ELSE page
       /\ agent' = [agent EXCEPT !.pc = "outcome", !.ok = ok]
  /\ UNCHANGED <<badge, sem, grok>>

\* browse: mark the page, notify grok and wait.
Browse ==
  /\ agent.pc = "browse"
  /\ page' = [page EXCEPT !.state = "browse"]
  /\ badge' = Notify("grok", "browse")
  /\ agent' = [agent EXCEPT !.pc = "browsing"]
  /\ UNCHANGED <<sem, grok>>

\* agent_browse_accepted.
BrowseReturns ==
  /\ agent.pc = "browsing" /\ Awake("agent", "browse")
  /\ sem' = Taken("agent", "browse")
  /\ agent' = [agent EXCEPT !.pc = "outcome", !.ok = page.state = "browse_done" /\ page.result # NoName]
  /\ UNCHANGED <<page, badge, grok>>

\* Mutant: grok is notified before the outcome is on the page.
StoreOutcomeMutant ==
  /\ agent.pc = "outcome"
  /\ badge' = Notify("grok", "tool")
  /\ agent' = [agent EXCEPT !.pc = "wait"]
  /\ UNCHANGED <<page, sem, grok>>

\* agent_store_outcome, then the notification.
StoreOutcome ==
  /\ agent.pc = "outcome"
  /\ page' = IF agent.ok THEN [page EXCEPT !.state = "ok"]
             ELSE [page EXCEPT !.state = "err", !.result = NoName]
  /\ badge' = Notify("grok", "tool")
  /\ agent' = [agent EXCEPT !.pc = "wait"]
  /\ UNCHANGED <<sem, grok>>

PageSteps == IssueReturns \/ Report \/ GrokNotified \/ AgentNotified \/ ToolStarts \/ FileOrFetch
         \/ Browse \/ BrowseReturns \/ StoreOutcome

PageNext == (\E k \in Kinds \cup {"browse"}, n \in Names \cup {LongName} : Issue(k, n)) \/ PageSteps

PageSpec == PageInit /\ [][PageNext]_pageVars /\ WF_pageVars(PageSteps)

-----------------------------------------------------------------------------
\* The page, the two programs and the badge hold known values.
PageTypeOK ==
  /\ page.state \in {"idle", "browse", "browse_done", "ok", "err"}
  /\ badge \in [Domains -> SUBSET {"tool", "browse"}] /\ sem \in [Domains -> SUBSET {"tool", "browse"}]
  /\ grok.pc \in {"prompt", "waiting", "report"}
  /\ agent.pc \in {"wait", "run", "browse", "browsing", "outcome"}

\* What grok reports is the answer to the tool it asked for: on ok the page
\* holds that tool's result, on err no result; the agent never works on another
\* request than the one on the page; and a browse is never failed.
AnswersItsTool ==
  /\ grok.pc = "report" =>
       IF grok.ok THEN page.state = "ok" /\ page.result = Answer(grok.asked)
       ELSE grok.asked.name = LongName \/ (page.state = "err" /\ page.result = NoName)
  /\ agent.pc # "wait" => agent.req = grok.asked /\ grok.pc = "waiting"
  /\ grok.pc = "report" /\ grok.asked.kind = "browse" /\ grok.asked.name # LongName => grok.ok

\* Every tool returns to the prompt, a browse too.
PageBusy == grok.pc # "prompt"
ToolReturns == []<>~PageBusy
=============================================================================
