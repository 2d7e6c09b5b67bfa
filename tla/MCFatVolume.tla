---------------------------- MODULE MCFatVolume -----------------------------
(* FatVolume on three small volumes: one with room for two files beside      *)
(* config, one that fills up and whose sectors hold two cells, and one whose *)
(* commands a reset or a block error may cut short.                          *)
EXTENDS FatVolume, TLC

\* The names other than config are alike: no definition orders or chooses them.
Names == Permutations(Name \ {Config})

VARIABLE volume    \* which of the three this behaviour is about

Long == INSTANCE FatVolume WITH Clusters <- 3, SectorLen <- 2
Cut == INSTANCE FatVolume WITH Clusters <- 3,
         Interruptible <- {"format", "seed", "create", "write", "rename", "mkdir"}

Runs == /\ \/ volume = "wide" /\ Init
           \/ volume = "long" /\ Long!Init
           \/ volume = "cut" /\ Cut!Init
        /\ [][/\ volume' = volume
              /\ \/ volume = "wide" /\ Next
                 \/ volume = "long" /\ Long!Next
                 \/ volume = "cut" /\ Cut!Next]_<<vars, volume>>

\* Type correctness of FatVolume, with commands cut short as well.
TypeCorrect == CASE volume = "wide" -> TypeOK
                 [] volume = "long" -> Long!TypeOK
                 [] volume = "cut" -> Cut!TypeOK

\* What completed commands promised is on the volume, also after a command that
\* a reset or a block error cut short, unless that was a format which had written
\* the signature and not yet zeroed the root of a former volume (Faithful).
AlwaysFaithful == CASE volume = "wide" -> Faithful
                    [] volume = "long" -> Long!Faithful
                    [] volume = "cut" -> Cut!Faithful

\* No two entries share a cluster, also after a command cut short, with the same
\* exception (NoSharedCluster);
\* where commands run to their end, no cluster is lost either (NoLeak).
ClustersOwned == CASE volume = "wide" -> NoSharedCluster /\ NoLeak
                   [] volume = "long" -> Long!NoSharedCluster /\ Long!NoLeak
                   [] volume = "cut" -> Cut!NoSharedCluster

\* What is open follows the volume: the open file its entry through renames and
\* removes (OpenFileCurrent), and a listing misses no name that stayed (ListsAll).
OpenFollows == CASE volume = "wide" -> OpenFileCurrent /\ ListsAll
                 [] volume = "long" -> Long!OpenFileCurrent /\ Long!ListsAll
                 [] volume = "cut" -> TRUE
=============================================================================
