------------------------------- MODULE Images -------------------------------
(* From a board's name to a launched machine: the name is registered
   (images.rs), the image is built, channel ids are given out
   (model.rs assign), the ends are validated and the description is written,
   and `lerux run` puts the devices into QEMU (qemu.rs).  Meanwhile every
   program is compiled with configuration pages that name channel ids and
   addresses as constants (lerux-sddf *_image.rs, binding.rs): nothing but
   these two tables being written alike makes a client talk to its server.

   dev is the board's row of boards.toml and, once launched, the devices;
   drv is the image and the ids given out; q is where the build is. *)
EXTENDS Integers, Sequences, FiniteSets

(* What lerux-image puts into a system description, and what lerux-sddf puts
   into the configuration pages the programs are built with.  The two tables
   are written by hand in two crates.  Addresses and sizes count pages of
   4 KiB.  A region that has no physical address, a vector an interrupt does
   not have, and a domain without a budget are None. *)

None == -1

----------------------------------------------------------------------------
(* Regions, slots of a domain, domains and links (images.rs, the helpers at
   its end). *)

phys(n, s, v, p) == [name |-> n, size |-> s, vaddr |-> v, phys |-> p]

ram(n, s, v) == phys(n, s, v, None)

\* Consecutive regions of one page.
Pages(ns, v) == [i \in DOMAIN ns |-> ram(ns[i], 1, v + i - 1)]

Slot(t, of) == [t |-> t, of |-> of]

cached(ns) == [i \in DOMAIN ns |-> Slot("map", ns[i])]

setvar(n) == Slot("paddr", n)

Port(addr) == Slot("port", addr)

NoIrq == [line |-> None, vector |-> None]

Line(n) == [line |-> n, vector |-> None]

X86(pin, v) == [line |-> pin, vector |-> v]

Msi(v) == [line |-> None, vector |-> v]

domain(n, pri, bud, prog, slots, irq) ==
    [name |-> n, priority |-> pri, budget |-> bud, passive |-> FALSE,
     program |-> prog, slots |-> slots, irq |-> irq]

link(x, y, ord) == [a |-> x, b |-> y, pp |-> FALSE, order |-> ord]

----------------------------------------------------------------------------
(* The machines (lerux-machine). *)

serial_node(arch) ==
    CASE arch = "aarch64" -> [phys |-> \h9000, irq |-> Line(33)]
      [] arch = "riscv64" -> [phys |-> \h10000, irq |-> Line(10)]
      [] arch = "x86"     -> [phys |-> None, irq |-> X86(4, 48)]

\* `at` counts 0x200-byte device windows within the page.
aarch64_virtio_mmio(role) ==
    LET n == CASE role = "net" -> 7 [] role = "blk" -> 6 [] role = "gpu" -> 5
    IN  [window |-> "virtio_mmio", vaddr |-> \h6000000, phys |-> \ha003,
         at |-> n, irq |-> Line(72 + n), bars |-> <<>>]

riscv64_virtio_mmio(role) ==
    LET n == CASE role = "blk" -> 1 [] role = "net" -> 2 [] role = "gpu" -> 3
        w == CASE role = "blk" -> "virtio_blk_mmio"
               [] role = "net" -> "virtio_net_mmio"
               [] role = "gpu" -> "virtio_gpu_mmio"
    IN  [window |-> w, vaddr |-> \h10000 + n, phys |-> \h10000 + n,
         at |-> 0, irq |-> Line(n), bars |-> <<>>]

pci_bar_regions(role) ==
    IF role = "blk"
    THEN <<phys("virtio_blk_bar0", 1, \hfed00, \hfed00), phys("virtio_blk_bar1", 4, \hfed10, \hfed10)>>
    ELSE <<phys("virtio_net_bar0", 1, \hfed20, \hfed20), phys("virtio_net_bar1", 4, \hfed30, \hfed30)>>

x86_virtio_pci(role) ==
    [window |-> "", vaddr |-> None, phys |-> None,
     at |-> IF role = "blk" THEN 3 ELSE 4,
     irq |-> IF role = "blk" THEN X86(10, 49) ELSE X86(11, 50),
     bars |-> pci_bar_regions(role)]

virtio_node(arch, role) ==
    CASE arch = "aarch64" -> aarch64_virtio_mmio(role)
      [] arch = "riscv64" -> riscv64_virtio_mmio(role)
      [] arch = "x86"     -> x86_virtio_pci(role)

virtio_dma_phys_addr(arch, role) ==
    CASE arch = "x86" /\ role = "net" -> \h60000
      [] arch = "x86" /\ role = "blk" -> \h62000
      [] OTHER -> None

virtio_dma_guest(arch, role) ==
    IF arch = "riscv64"
    THEN CASE role = "net" -> \h40000 [] role = "blk" -> \h41000 [] role = "gpu" -> \h42000
    ELSE \h8000000

----------------------------------------------------------------------------
(* Shared regions and who maps them. *)

serial_queue_regions ==
    Pages(<<"serial_tx_driver_queue", "serial_tx_driver_data",
            "serial_rx_driver_queue", "serial_rx_driver_data",
            "serial_tx_client_queue", "serial_tx_client_data",
            "serial_rx_client_queue", "serial_rx_client_data">>, \h3000)

blk_regions ==
    Pages(<<"blk_storage_info", "blk_driver_req_queue", "blk_driver_resp_queue",
            "blk_client_req_queue", "blk_client_resp_queue">>, \h4000)
    \o <<ram("blk_data", \h10, \h4010)>>

fs_regions ==
    <<ram("fs_command_queue", 8, \h4020), ram("fs_completion_queue", 8, \h4028),
      ram("fs_share", 8, \h4030)>>

net_regions(tool) ==
    Pages(<<"net_rx_drv_free", "net_rx_drv_active", "net_tx_drv_free",
            "net_tx_drv_active", "net_rx_copy_free", "net_rx_copy_active",
            "net_rx_client_free", "net_rx_client_active",
            "net_tx_client_free", "net_tx_client_active">>, \h5000)
    \o <<ram("net_rx_data", 8, \h5010), ram("net_tx_data", 8, \h5020),
         ram("net_rx_client_data", 8, \h5030), ram("net_rx_meta", 1, \h5040)>>
    \o IF tool THEN <<ram("agent_tool", 1, \ha000)>> ELSE <<>>

gpu_regions ==
    Pages(<<"gpu_driver_events", "gpu_driver_req", "gpu_driver_resp",
            "gpu_driver_data", "gpu_client_events", "gpu_client_req",
            "gpu_client_resp">>, \h7000)
    \o <<ram("gpu_client_data", \h14, \h7007)>>

serial_client_slots ==
    cached(<<"serial_tx_client_queue", "serial_tx_client_data",
             "serial_rx_client_queue", "serial_rx_client_data">>)

fs_client_slots == cached(<<"fs_command_queue", "fs_completion_queue", "fs_share">>)

net_client_slots ==
    cached(<<"net_rx_client_free", "net_rx_client_active", "net_tx_client_free",
             "net_tx_client_active", "net_rx_client_data", "net_tx_data">>)

fetch_client_slots == serial_client_slots \o fs_client_slots \o net_client_slots

----------------------------------------------------------------------------
(* Attachments: what a device adds to the description.  An attachment is
   [regions, slots, irq]. *)

Attachment(rs, ss, i) == [regions |-> rs, slots |-> ss, irq |-> i]

serial_attachment(arch) ==
    LET n == serial_node(arch)
        own == cached(<<"serial_tx_driver_queue", "serial_tx_driver_data",
                        "serial_rx_driver_queue", "serial_rx_driver_data">>)
    IN  IF arch = "x86"
        THEN Attachment(serial_queue_regions, <<Port("3f8")>> \o own, n.irq)
        ELSE Attachment(<<phys("serial_mmio", 1, \h2000, n.phys)>> \o serial_queue_regions,
                        cached(<<"serial_mmio">>) \o own, n.irq)

DmaName(role) ==
    CASE role = "blk" -> "virtio_blk_driver_dma"
      [] role = "net" -> "virtio_net_driver_dma"
      [] role = "gpu" -> "virtio_gpu_driver_dma"

driver_dma_region(arch, role) ==
    phys(DmaName(role), \h200, virtio_dma_guest(arch, role), virtio_dma_phys_addr(arch, role))

\* Mutant: the block driver keeps the config port beside the net driver's.
ConfigPortMutant(ecam) == Port("cf8")

\* push_x86_pci_ecam, or the config port: both ports are the range 0xcf8.
ConfigPort(ecam) == IF ecam THEN Slot("map", "pci_ecam") ELSE Port("cf8")

Ecam(ecam) == IF ecam THEN <<phys("pci_ecam", \h100, \he0000, \he0000)>> ELSE <<>>

\* virtio_block and net_virtio_attachment.
virtio_attachment(arch, role, ecam) ==
    LET n == virtio_node(arch, role)
        dma == <<Slot("map", DmaName(role)), setvar(DmaName(role))>>
    IN  IF arch = "x86"
        THEN Attachment(n.bars \o <<driver_dma_region(arch, role)>> \o Ecam(ecam),
                        <<ConfigPort(ecam)>> \o [i \in 1 .. 2 |-> Slot("map", n.bars[i].name)] \o dma,
                        n.irq)
        ELSE Attachment(<<phys(n.window, 1, n.vaddr, n.phys), driver_dma_region(arch, role)>>,
                        <<Slot("map", n.window)>> \o dma, n.irq)

\* Several devices of one board; on AArch64 they share one window.
virtio_regions(arch, roles, ecam) ==
    LET of(r) == virtio_attachment(arch, r, ecam /\ r = "blk").regions
        rest(s) == IF arch = "aarch64" THEN Tail(s) ELSE s
    IN  of(roles[1])
        \o (IF Len(roles) > 1 THEN rest(of(roles[2])) ELSE <<>>)
        \o (IF Len(roles) > 2 THEN rest(of(roles[3])) ELSE <<>>)

ahci_block(ecam) ==
    Attachment(<<phys("ahci_abar", 1, \hfed80, \hfed80), phys("ahci_dma", \h20, \h8000000, \h64000)>> \o Ecam(ecam),
               cached(<<"ahci_abar", "ahci_dma">>) \o <<ConfigPort(ecam)>>, Msi(51))

e1000e_regions ==
    <<phys("e1000e_regs", \h20, \hfed20, \hfed20), phys("e1000e_dma", \h200, \h8000000, \h60000)>>

fetch_x86_pci_irq(role) == IF role = "blk" THEN X86(11, 49) ELSE X86(10, 50)

----------------------------------------------------------------------------
(* Domains.  `b` is the budget, None where the image has none. *)

serial_driver(at, b) == domain("serial_driver", 4, b, "sddf-serial-driver", at.slots, at.irq)

serial_virt_tx(b) ==
    domain("serial_virt_tx", 3, b, "sddf-serial-virt-tx",
           cached(<<"serial_tx_driver_queue", "serial_tx_driver_data",
                    "serial_tx_client_queue", "serial_tx_client_data">>), NoIrq)

serial_virt_rx(b) ==
    domain("serial_virt_rx", 3, b, "sddf-serial-virt-rx",
           cached(<<"serial_rx_driver_queue", "serial_rx_driver_data",
                    "serial_rx_client_queue", "serial_rx_client_data">>), NoIrq)

blk_driver_domain(slots, irq, b, program) ==
    domain("blk_driver", 4, b, program,
           slots \o cached(<<"blk_storage_info", "blk_driver_req_queue",
                             "blk_driver_resp_queue", "blk_data">>), irq)

blk_virt(b) ==
    domain("blk_virt", 3, b, "sddf-blk-virt",
           cached(<<"blk_storage_info", "blk_driver_req_queue", "blk_driver_resp_queue",
                    "blk_client_req_queue", "blk_client_resp_queue">>), NoIrq)

fatfs(b) ==
    domain("fatfs", 2, b, "sddf-fatfs",
           cached(<<"blk_storage_info", "blk_client_req_queue", "blk_client_resp_queue",
                    "blk_data">>) \o fs_client_slots, NoIrq)

driver_queue_slots ==
    cached(<<"net_rx_drv_free", "net_rx_drv_active", "net_tx_drv_free",
             "net_tx_drv_active", "net_rx_data", "net_tx_data">>)

net_driver_with_irq(arch, irq, b, pri) ==
    domain("net_driver", pri, b, "sddf-net-driver",
           virtio_attachment(arch, "net", FALSE).slots \o driver_queue_slots, irq)

e1000e_domain(standalone) ==
    domain("net_driver", IF standalone THEN 4 ELSE 2, IF standalone THEN None ELSE 2000,
           "sddf-e1000e-driver",
           cached(<<"e1000e_regs", "e1000e_dma">>) \o <<Port("cf8")>> \o driver_queue_slots,
           IF standalone THEN X86(11, 50) ELSE X86(10, 50))

net_virt_tx(b) ==
    domain("net_virt_tx", 3, b, "sddf-net-virt-tx",
           cached(<<"net_tx_drv_free", "net_tx_drv_active", "net_tx_client_free",
                    "net_tx_client_active", "net_tx_data">>), NoIrq)

net_virt_rx(b) ==
    domain("net_virt_rx", 3, b, "sddf-net-virt-rx",
           cached(<<"net_rx_drv_free", "net_rx_drv_active", "net_rx_copy_free",
                    "net_rx_copy_active", "net_rx_data", "net_rx_meta">>), NoIrq)

net_copy(b) ==
    domain("net_copy", 2, b, "sddf-net-copy",
           cached(<<"net_rx_copy_free", "net_rx_copy_active", "net_rx_data",
                    "net_rx_client_free", "net_rx_client_active", "net_rx_client_data">>), NoIrq)

gpu_driver(arch) ==
    LET at == virtio_attachment(arch, "gpu", FALSE)
    IN  domain("gpu_driver", 4, None, "sddf-gpu-driver",
               at.slots \o cached(<<"gpu_driver_events", "gpu_driver_req", "gpu_driver_resp",
                                    "gpu_driver_data", "gpu_client_data">>), at.irq)

gpu_virt ==
    domain("gpu_virt", 3, None, "sddf-gpu-virt",
           cached(<<"gpu_driver_events", "gpu_driver_req", "gpu_driver_resp",
                    "gpu_driver_data", "gpu_client_events", "gpu_client_req",
                    "gpu_client_resp", "gpu_client_data">>), NoIrq)

----------------------------------------------------------------------------
(* Images: [regions, domains, links]. *)

Image(rs, ds, ls) == [regions |-> rs, domains |-> ds, links |-> ls]

serial_image(arch) ==
    LET at == serial_attachment(arch)
    IN  Image(at.regions,
              <<serial_driver(at, None), serial_virt_tx(None), serial_virt_rx(None),
                domain("serial_client", 1, None, "sddf-serial-client", serial_client_slots, NoIrq)>>,
              <<link("serial_driver", "serial_virt_tx", 0), link("serial_driver", "serial_virt_rx", 1),
                link("serial_virt_tx", "serial_client", 2), link("serial_virt_rx", "serial_client", 3)>>)

fs_domains(at, block, program) ==
    <<blk_driver_domain(block.slots, block.irq, 4000, program), serial_driver(at, 4000),
      blk_virt(3000), serial_virt_tx(3000), serial_virt_rx(3000), fatfs(2000),
      [domain("timer_driver", 5, 5000, "sddf-timer-driver", <<>>, NoIrq) EXCEPT !.passive = TRUE],
      domain("shell", 1, 1000, "sddf-shell", serial_client_slots \o fs_client_slots, NoIrq)>>

fs_links ==
    <<link("blk_driver", "blk_virt", 0), link("blk_virt", "fatfs", 1), link("fatfs", "shell", 6),
      link("serial_driver", "serial_virt_tx", 2), link("serial_driver", "serial_virt_rx", 3),
      link("serial_virt_tx", "shell", 4), link("serial_virt_rx", "shell", 5),
      [link("timer_driver", "shell", 7) EXCEPT !.pp = TRUE]>>

fs_image(arch, disk) ==
    LET at == serial_attachment(arch)
        block == IF disk = "ahci" THEN ahci_block(FALSE) ELSE virtio_attachment(arch, "blk", FALSE)
        program == IF disk = "ahci" THEN "sddf-ahci-driver" ELSE "sddf-blk-driver"
    IN  Image(at.regions \o block.regions \o blk_regions \o fs_regions,
              fs_domains(at, block, program), fs_links)

net_image(arch, net) ==
    LET at == serial_attachment(arch)
        virtio == virtio_attachment(arch, "net", FALSE)
    IN  Image(at.regions \o (IF net = "e1000e" THEN e1000e_regions ELSE virtio.regions) \o net_regions(FALSE),
              <<IF net = "e1000e" THEN e1000e_domain(TRUE)
                ELSE net_driver_with_irq(arch, virtio.irq, None, 4),
                serial_driver(at, None), net_virt_tx(None), net_virt_rx(None),
                serial_virt_tx(None), serial_virt_rx(None), net_copy(None),
                domain("net_client", 1, None, "sddf-net-client",
                       serial_client_slots \o net_client_slots, NoIrq)>>,
              <<link("serial_driver", "serial_virt_tx", 0), link("serial_driver", "serial_virt_rx", 1),
                link("serial_virt_tx", "net_client", 2), link("serial_virt_rx", "net_client", 3),
                link("net_driver", "net_virt_rx", 4), link("net_driver", "net_virt_tx", 5),
                link("net_virt_rx", "net_copy", 6), link("net_virt_tx", "net_client", 8),
                link("net_copy", "net_client", 7)>>)

fetch_qos(arch, b) == IF arch = "x86" THEN b ELSE None

\* The interrupt of a role where block and net are both present.
PairIrq(arch, role) ==
    IF arch = "x86" THEN fetch_x86_pci_irq(role) ELSE virtio_node(arch, role).irq

\* The block and net driver domains of an image that has both.
virtio_fetch_devices(arch) ==
    [regions |-> virtio_regions(arch, <<"blk", "net">>, TRUE),
     block |-> blk_driver_domain(virtio_attachment(arch, "blk", TRUE).slots, PairIrq(arch, "blk"),
                                 fetch_qos(arch, 4000), "sddf-blk-driver"),
     net |-> net_driver_with_irq(arch, PairIrq(arch, "net"), fetch_qos(arch, 2000),
                                 IF arch = "x86" THEN 2 ELSE 4)]

q35_native_devices ==
    LET b == ahci_block(TRUE)
    IN  [regions |-> b.regions \o e1000e_regions,
         block |-> blk_driver_domain(b.slots, b.irq, 4000, "sddf-ahci-driver"),
         net |-> e1000e_domain(FALSE)]

\* Mutant: the client's transmit and receive channels change places.
fabric_linksMutant(client) ==
    <<link("blk_driver", "blk_virt", 0), link("blk_virt", "fatfs", 1), link("fatfs", client, 6),
      link("serial_driver", "serial_virt_tx", 2), link("serial_driver", "serial_virt_rx", 3),
      link("serial_virt_tx", client, 4), link("serial_virt_rx", client, 5),
      link("net_driver", "net_virt_rx", 7), link("net_driver", "net_virt_tx", 8),
      link("net_virt_rx", "net_copy", 9), link("net_copy", client, 11), link("net_virt_tx", client, 10)>>

fabric_links(client) ==
    <<link("blk_driver", "blk_virt", 0), link("blk_virt", "fatfs", 1), link("fatfs", client, 6),
      link("serial_driver", "serial_virt_tx", 2), link("serial_driver", "serial_virt_rx", 3),
      link("serial_virt_tx", client, 4), link("serial_virt_rx", client, 5),
      link("net_driver", "net_virt_rx", 7), link("net_driver", "net_virt_tx", 8),
      link("net_virt_rx", "net_copy", 9), link("net_copy", client, 10), link("net_virt_tx", client, 11)>>

fetch_fabric(arch, devices, client, program) ==
    LET at == serial_attachment(arch)
    IN  Image(at.regions \o devices.regions \o blk_regions \o fs_regions \o net_regions(FALSE),
              <<devices.block, serial_driver(at, fetch_qos(arch, 4000)), blk_virt(fetch_qos(arch, 3000)),
                serial_virt_tx(fetch_qos(arch, 3000)), serial_virt_rx(fetch_qos(arch, 3000)),
                fatfs(fetch_qos(arch, 2000)), devices.net, net_virt_tx(fetch_qos(arch, 3000)),
                net_virt_rx(fetch_qos(arch, 3000)), net_copy(fetch_qos(arch, 2000)),
                domain(client, 1, fetch_qos(arch, 1000), program, fetch_client_slots, NoIrq)>>,
              fabric_links(client))

browser_image(arch) ==
    LET at == serial_attachment(arch)
        blk == virtio_attachment(arch, "blk", FALSE)
    IN  Image(at.regions \o virtio_regions(arch, <<"blk", "net", "gpu">>, FALSE)
                \o blk_regions \o fs_regions \o net_regions(FALSE) \o gpu_regions,
              <<blk_driver_domain(blk.slots, blk.irq, None, "sddf-blk-driver"),
                net_driver_with_irq(arch, virtio_node(arch, "net").irq, None, 4), gpu_driver(arch),
                serial_driver(at, None), blk_virt(None), net_virt_tx(None), net_virt_rx(None),
                serial_virt_tx(None), serial_virt_rx(None), gpu_virt, fatfs(None), net_copy(None),
                domain("shell", 1, None, "sddf-shell",
                       fetch_client_slots \o cached(<<"gpu_client_events", "gpu_client_req",
                                                     "gpu_client_resp", "gpu_client_data">>), NoIrq)>>,
              fabric_links("shell")
                \o <<link("gpu_driver", "gpu_virt", 12), link("gpu_virt", "shell", 13)>>)

agent_links ==
    <<link("blk_driver", "blk_virt", 0), link("blk_virt", "fatfs", 1), link("fatfs", "agent", 8),
      link("serial_driver", "serial_virt_tx", 2), link("serial_driver", "serial_virt_rx", 3),
      link("serial_virt_tx", "shell", 4), link("serial_virt_rx", "shell", 5),
      link("net_driver", "net_virt_rx", 9), link("net_driver", "net_virt_tx", 10),
      link("net_virt_rx", "net_copy", 11), link("net_copy", "agent", 12),
      link("net_virt_tx", "agent", 13), link("shell", "agent", 6), link("shell", "agent", 7)>>

agent_image(arch) ==
    LET at == serial_attachment(arch)
        d == virtio_fetch_devices(arch)
    IN  Image(at.regions \o d.regions \o blk_regions \o fs_regions \o net_regions(TRUE),
              <<d.block, d.net, serial_driver(at, fetch_qos(arch, 4000)),
                blk_virt(fetch_qos(arch, 3000)), net_virt_tx(fetch_qos(arch, 3000)),
                net_virt_rx(fetch_qos(arch, 3000)), serial_virt_tx(fetch_qos(arch, 3000)),
                serial_virt_rx(fetch_qos(arch, 3000)), fatfs(fetch_qos(arch, 2000)),
                net_copy(fetch_qos(arch, 2000)),
                domain("shell", 1, fetch_qos(arch, 1000), "sddf-grok",
                       serial_client_slots \o cached(<<"agent_tool">>), NoIrq),
                domain("agent", 2, fetch_qos(arch, 2000), "sddf-agent",
                       fs_client_slots \o net_client_slots \o cached(<<"agent_tool">>), NoIrq)>>,
              agent_links)

----------------------------------------------------------------------------

CONSTANTS Boards,   \* rows: [arch, token, sddf, disk, net, gpu]
          IdMax     \* u8::MAX

VARIABLES dev, drv, q

vars == <<dev, drv, q>>

NoImage == Image(<<>>, <<>>, <<>>)

Init ==
    /\ dev \in [row : Boards, devices : {{}}]
    /\ drv = [id |-> [kind |-> "", mode |-> "", disk |-> "", net |-> ""], img |-> NoImage,
              next |-> [p \in {} |-> 0], irqs |-> {}, ids |-> [l \in {} |-> <<>>], ends |-> <<>>]
    /\ q = [pc |-> "register", n |-> 1]

Fail == q' = [q EXCEPT !.pc = "failed"] /\ UNCHANGED <<dev, drv>>

Go(pc) == q' = [pc |-> pc, n |-> 1]

----------------------------------------------------------------------------
(* board_registration *)

BoardId(k, m, d, n) == [kind |-> k, mode |-> m, disk |-> d, net |-> n]

Native(token) ==
    CASE token = "net_e1000e"   -> BoardId("net", "", "virtio", "e1000e")
      [] token = "fs_ahci"      -> BoardId("fs", "", "ahci", "virtio")
      [] token = "fetch_native" -> BoardId("fetch", "fetch", "ahci", "e1000e")

kind_from_token(token) ==
    CASE token \in {"fetch", "web"} -> BoardId("fetch", token, "virtio", "virtio")
      [] OTHER -> BoardId(token, "", "virtio", "virtio")

Register ==
    /\ q.pc = "register"
    /\ LET r == dev.row
       IN  \/ /\ ~r.sddf /\ r.token \in {"net_e1000e", "fs_ahci", "fetch_native"}
              /\ IF r.arch = "x86"
                 THEN /\ drv' = [drv EXCEPT !.id = Native(r.token)]
                      /\ Go("build") /\ UNCHANGED dev
                 ELSE Fail
           \/ /\ r.sddf
              /\ IF r.token \in {"serial", "fs", "net", "fetch", "web", "browser", "agent", "program"}
                 THEN /\ drv' = [drv EXCEPT !.id = kind_from_token(r.token)]
                      /\ Go("build") /\ UNCHANGED dev
                 ELSE Fail
           \/ \* Ok(None): not one of these images
              /\ ~r.sddf /\ r.token \notin {"net_e1000e", "fs_ahci", "fetch_native"}
              /\ Go("none") /\ UNCHANGED <<dev, drv>>

----------------------------------------------------------------------------
(* render_board *)

fetch_for_board(id, arch) ==
    IF id.disk = "virtio" /\ id.net = "virtio"
    THEN fetch_fabric(arch, virtio_fetch_devices(arch), "shell", "sddf-shell")
    ELSE fetch_fabric("x86", q35_native_devices, "shell", "sddf-shell")

render_board(id, arch) ==
    CASE id.kind = "serial"  -> serial_image(arch)
      [] id.kind = "fs"      -> fs_image(arch, id.disk)
      [] id.kind = "net"     -> net_image(arch, id.net)
      [] id.kind = "fetch"   -> fetch_for_board(id, arch)
      [] id.kind = "browser" -> browser_image(arch)
      [] id.kind = "agent"   -> agent_image(arch)
      [] id.kind = "program" -> fetch_fabric(arch, virtio_fetch_devices(arch), "program", "sddf-program")

Build ==
    /\ q.pc = "build"
    /\ IF drv.id.kind = "browser" /\ dev.row.arch = "x86"
       THEN Fail
       ELSE /\ drv' = [drv EXCEPT !.img = render_board(drv.id, dev.row.arch)]
            /\ Go("irqs") /\ UNCHANGED dev

----------------------------------------------------------------------------
(* assign: interrupts first, in the order of the domains, then the links in
   the order of their sequence numbers. *)

NextId(p) == IF p \in DOMAIN drv.next THEN drv.next[p] ELSE 0

\* Mutant: the bumped id is not stored.
take_idMutant(p, n) == [x \in DOMAIN drv.next \cup p |-> IF x \in p THEN n[x] ELSE drv.next[x]]

\* The counters once each domain of p has taken the id n has for it.
take_id(p, n) == [x \in DOMAIN drv.next \cup p |-> IF x \in p THEN n[x] + 1 ELSE drv.next[x]]

AssignIrq ==
    /\ q.pc = "irqs"
    /\ IF q.n > Len(drv.img.domains)
       THEN Go("links") /\ UNCHANGED <<dev, drv>>
       ELSE LET d == drv.img.domains[q.n]
            IN  IF d.irq = NoIrq
                THEN q' = [q EXCEPT !.n = @ + 1] /\ UNCHANGED <<dev, drv>>
                ELSE /\ drv' = [drv EXCEPT !.next = take_id({d.name}, [x \in {d.name} |-> NextId(x)]),
                                           !.irqs = @ \cup {<<d.name, NextId(d.name)>>},
                                           !.ends = Append(@, <<d.name, NextId(d.name)>>)]
                     /\ q' = [q EXCEPT !.n = @ + 1] /\ UNCHANGED dev

\* The n-th link in assignment order: the sort is stable.
Nth(ls, n) ==
    CHOOSE i \in DOMAIN ls :
        n = 1 + Cardinality({j \in DOMAIN ls : \/ ls[j].order < ls[i].order
                                               \/ ls[j].order = ls[i].order /\ j < i})

AssignLink ==
    /\ q.pc = "links"
    /\ IF q.n > Len(drv.img.links)
       THEN Go("validate") /\ UNCHANGED <<dev, drv>>
       ELSE LET i == Nth(drv.img.links, q.n)
                l == drv.img.links[i]
                n == [x \in {l.a, l.b} |-> NextId(x)]
            IN  IF \E x \in {l.a, l.b} : n[x] + 1 > IdMax
                THEN Fail
                ELSE /\ drv' = [drv EXCEPT !.next = take_id({l.a, l.b}, n),
                                           !.ids = [x \in DOMAIN @ \cup {i} |->
                                                      IF x = i THEN <<n[l.a], n[l.b]>> ELSE @[x]],
                                           !.ends = @ \o <<<<l.a, n[l.a]>>, <<l.b, n[l.b]>>>>]
                     /\ q' = [q EXCEPT !.n = @ + 1] /\ UNCHANGED dev

Validate ==
    /\ q.pc = "validate"
    /\ IF \E i, j \in DOMAIN drv.ends : i < j /\ drv.ends[i] = drv.ends[j]
       THEN Fail
       ELSE Go("write") /\ UNCHANGED <<dev, drv>>

\* find_region: the first region of that name.
find_region(img, n) ==
    img.regions[CHOOSE i \in DOMAIN img.regions :
                    img.regions[i].name = n /\ \A j \in 1 .. i - 1 : img.regions[j].name # n]

Names(img) == {img.regions[i].name : i \in DOMAIN img.regions}

Write ==
    /\ q.pc = "write"
    /\ IF \E i \in DOMAIN drv.img.domains : \E s \in DOMAIN drv.img.domains[i].slots :
             LET sl == drv.img.domains[i].slots[s] IN sl.t = "map" /\ sl.of \notin Names(drv.img)
       THEN Fail
       ELSE Go("launch") /\ UNCHANGED <<dev, drv>>

----------------------------------------------------------------------------
(* The devices of the command line.  A device is [role, at, phys, line]: its
   window within the page, the page, and its interrupt line. *)

Device(role, at, page, line) == [role |-> role, at |-> at, phys |-> page, line |-> line]

\* Mutant: the disk is put on the command line before the network card.
aarch64_commandMutant(r) ==
    LET wanted == SelectSeq(<<"blk", "net", "gpu">>,
                            LAMBDA x : CASE x = "net" -> r.net [] x = "blk" -> r.disk [] x = "gpu" -> r.gpu)
    IN  {Device(wanted[i], 8 - i, \ha003, 80 - i) : i \in DOMAIN wanted}

\* Without a bus number QEMU hands out the windows from the highest down.
aarch64_command(r) ==
    LET wanted == SelectSeq(<<"net", "blk", "gpu">>,
                            LAMBDA x : CASE x = "net" -> r.net [] x = "blk" -> r.disk [] x = "gpu" -> r.gpu)
    IN  {Device(wanted[i], 8 - i, \ha003, 80 - i) : i \in DOMAIN wanted}

riscv64_command(r) ==
    (IF r.disk THEN {Device("blk", 0, \h10001, 1)} ELSE {})
    \cup (IF r.net THEN {Device("net", 0, \h10002, 2)} ELSE {})
    \cup (IF r.gpu THEN {Device("gpu", 0, \h10003, 3)} ELSE {})

\* A PCI function has no fixed page or pin: the driver programs the one, and
\* the other is what the chipset gave it.
x86_command(r, id) ==
    (IF r.disk THEN {Device(IF id.disk = "ahci" THEN "ahci" ELSE "blk",
                            IF id.disk = "ahci" THEN \h1f ELSE 3, None, None)} ELSE {})
    \cup (IF r.net THEN {Device(IF id.net = "e1000e" THEN "e1000e" ELSE "net", 4, None, None)} ELSE {})

Launch ==
    /\ q.pc = "launch"
    /\ dev' = [dev EXCEPT !.devices =
                 CASE dev.row.arch = "aarch64" -> aarch64_command(dev.row)
                   [] dev.row.arch = "riscv64" -> riscv64_command(dev.row)
                   [] dev.row.arch = "x86"     -> x86_command(dev.row, drv.id)]
    /\ Go("done") /\ UNCHANGED drv

Steps == Register \/ Build \/ AssignIrq \/ AssignLink \/ Validate \/ Write \/ Launch

Next == Steps

Spec == Init /\ [][Next]_vars /\ WF_vars(Steps)

----------------------------------------------------------------------------
(* The configuration pages.  A connection is [id, at]: a channel id on the
   page's domain and the windows <<page, size>> the two ends share.  `own`
   holds windows that are not part of a connection. *)

Conn(id, ws) == [id |-> id, at |-> ws]

Page(cs, own) == [conns |-> cs, own |-> own]

SerialConn(n, id) == Conn(id, {<<n, 1>>, <<n + 1, 1>>})

BlkConn(n, id) == Conn(id, {<<\h4000, 1>>, <<n, 1>>, <<n + 1, 1>>})

FsConn(id) == Conn(id, {<<\h4020, 8>>, <<\h4028, 8>>, <<\h4030, 8>>})

NetConn(n, id) == Conn(id, {<<n, 1>>, <<n + 1, 1>>})

SerialPages ==
    [driver  |-> Page({SerialConn(\h3002, 2), SerialConn(\h3000, 1)}, {}),
     virt_tx |-> Page({SerialConn(\h3000, 0), SerialConn(\h3004, 1)}, {}),
     virt_rx |-> Page({SerialConn(\h3002, 0), SerialConn(\h3006, 1)}, {}),
     client  |-> Page({SerialConn(\h3006, 1), SerialConn(\h3004, 0)}, {})]

BlkPages ==
    [driver |-> Page({BlkConn(\h4001, 1)}, {}),
     virt   |-> Page({BlkConn(\h4001, 0), BlkConn(\h4003, 1)}, {}),
     client |-> Page({BlkConn(\h4003, 0)}, {<<\h4010, \h10>>})]

FsPages == [server |-> Page({FsConn(1)}, {}), shell |-> Page({FsConn(2)}, {})]

NetClient(rx, tx) == Page({NetConn(\h5006, rx), NetConn(\h5008, tx)}, {<<\h5030, 8>>, <<\h5020, 8>>})

NetPages ==
    [driver  |-> Page({NetConn(\h5000, 1), NetConn(\h5002, 2)}, {}),
     virt_tx |-> Page({NetConn(\h5002, 0), NetConn(\h5008, 1)}, {<<\h5020, 8>>}),
     virt_rx |-> Page({NetConn(\h5000, 0), NetConn(\h5004, 1)}, {<<\h5010, 8>>, <<\h5040, 1>>}),
     copy    |-> Page({NetConn(\h5004, 0), NetConn(\h5006, 1)}, {<<\h5010, 8>>, <<\h5030, 8>>}),
     client  |-> NetClient(2, 3),
     shell   |-> NetClient(3, 4)]

GpuConn(n, size, id) == Conn(id, {<<n, 1>>, <<n + 1, 1>>, <<n + 2, 1>>, <<n + 3, size>>})

GpuPages ==
    [driver |-> Page({GpuConn(\h7000, 1, 1)}, {<<\h7007, \h14>>}),
     virt   |-> Page({GpuConn(\h7000, 1, 0), GpuConn(\h7004, \h14, 1)}, {}),
     shell  |-> Page({GpuConn(\h7004, \h14, 5)}, {})]

\* SHELL_TIMER_CHANNEL and the driver_id of shell_client_config.
TimerPages == [shell |-> Page({Conn(3, {})}, {}), driver |-> Page({Conn(0, {})}, {})]

shell_pages(board) ==
    {SerialPages.client, FsPages.shell}
    \cup CASE board = "fs" -> {TimerPages.shell}
           [] board = "fetch" -> {NetPages.shell}
           [] board = "browser" -> {NetPages.shell, GpuPages.shell}

pages_for(program, kind) ==
    CASE program = "sddf-serial-driver"  -> {SerialPages.driver}
      [] program = "sddf-serial-virt-tx" -> {SerialPages.virt_tx}
      [] program = "sddf-serial-virt-rx" -> {SerialPages.virt_rx}
      [] program \in {"sddf-serial-client", "sddf-grok"} -> {SerialPages.client}
      [] program \in {"sddf-blk-driver", "sddf-ahci-driver"} -> {BlkPages.driver}
      [] program = "sddf-blk-virt" -> {BlkPages.virt}
      [] program = "sddf-fatfs" -> {BlkPages.client, FsPages.server}
      [] program \in {"sddf-net-driver", "sddf-e1000e-driver"} -> {NetPages.driver}
      [] program = "sddf-net-virt-tx" -> {NetPages.virt_tx}
      [] program = "sddf-net-virt-rx" -> {NetPages.virt_rx}
      [] program = "sddf-net-copy" -> {NetPages.copy}
      [] program = "sddf-net-client" -> {SerialPages.client, NetPages.client}
      [] program = "sddf-agent" -> {FsPages.shell, NetPages.shell}
      [] program = "sddf-program" -> {SerialPages.client, FsPages.shell, NetPages.shell}
      [] program = "sddf-gpu-driver" -> {GpuPages.driver}
      [] program = "sddf-gpu-virt" -> {GpuPages.virt}
      [] program = "sddf-timer-driver" -> {TimerPages.driver}
      [] program = "sddf-shell" -> shell_pages(kind)

\* The rows the shell prints: name, priority and budget.
FS_IMAGE_ROLES ==
    <<<<"blk_driver", 4, 4000, FALSE>>, <<"serial_driver", 4, 4000, FALSE>>, <<"blk_virt", 3, 3000, FALSE>>,
      <<"serial_virt_tx", 3, 3000, FALSE>>, <<"serial_virt_rx", 3, 3000, FALSE>>, <<"fatfs", 2, 2000, FALSE>>,
      <<"timer_driver", 5, 5000, TRUE>>, <<"shell", 1, 1000, FALSE>>>>

----------------------------------------------------------------------------
(* What has to hold of a written description. *)

Written == q.pc \in {"launch", "done"}

Domains == {drv.img.domains[i] : i \in DOMAIN drv.img.domains}

Maps(d) == {find_region(drv.img, d.slots[s].of) : s \in {s \in DOMAIN d.slots : d.slots[s].t = "map"}}

Ports(d) == {d.slots[s].of : s \in {s \in DOMAIN d.slots : d.slots[s].t = "port"}}

Conns(d) == UNION {p.conns : p \in pages_for(d.program, drv.id.kind)}

Windows(d) == UNION {c.at : c \in Conns(d)} \cup UNION {p.own : p \in pages_for(d.program, drv.id.kind)}

\* The other end of channel i of domain n, as <<domain, id>>: at most one.
Peer(n, i) ==
    UNION {LET l == drv.img.links[k]
           IN  (IF <<l.a, drv.ids[k][1]>> = <<n, i>> THEN {<<l.b, drv.ids[k][2]>>} ELSE {})
               \cup (IF <<l.b, drv.ids[k][2]>> = <<n, i>> THEN {<<l.a, drv.ids[k][1]>>} ELSE {}) :
           k \in DOMAIN drv.img.links}

\* The build's own bookkeeping: ids only grow, and an end is given out once.
TypeOK ==
    /\ dev.row \in Boards
    /\ q.pc \in {"register", "build", "irqs", "links", "validate", "write", "launch", "done", "failed", "none"}
    /\ \A p \in DOMAIN drv.next : drv.next[p] \in 1 .. IdMax
    /\ Cardinality({drv.ends[i] : i \in DOMAIN drv.ends}) = Len(drv.ends)

\* Every program finds in the description what its configuration page names:
\* each window of the page is a region its domain maps, at that address and
\* of that size; each channel id is one end of one channel (not the
\* interrupt), and the program at the other end has a connection under the id
\* it was given, over the same windows.  The schedule the shell prints is the
\* schedule of the image.
PagesMatch ==
    Written =>
      /\ \A d \in Domains :
           /\ \A w \in Windows(d) : \E m \in Maps(d) : w = <<m.vaddr, m.size>>
           /\ \A c, e \in Conns(d) : c.id = e.id => c = e
           /\ \A c \in Conns(d) :
                \E p \in Peer(d.name, c.id) :
                   /\ Peer(d.name, c.id) = {p}
                   /\ \E x \in Domains : x.name = p[1] /\ Conn(p[2], c.at) \in Conns(x)
      /\ drv.id.kind = "fs" =>
           FS_IMAGE_ROLES = [i \in DOMAIN drv.img.domains |->
                               LET d == drv.img.domains[i] IN <<d.name, d.priority, d.budget, d.passive>>]

Overlap(a, n, b, m) == a < b + m /\ b < a + n

\* Nothing is handed out twice: in one domain no two mappings overlap; no two
\* regions of the image overlap in physical memory; an I/O port range belongs
\* to one domain; interrupt lines and vectors are distinct.  A queue, the
\* windows of a connection, is mapped by the two ends of one channel and by
\* nobody else (data regions, which a driver reads too, are exempt).  A
\* protected call goes to a domain of higher priority.
Exclusive ==
    Written =>
      /\ \A d \in Domains : \A m, k \in Maps(d) :
           m.name # k.name => ~Overlap(m.vaddr, m.size, k.vaddr, k.size)
      /\ \A i, j \in DOMAIN drv.img.regions :
           LET m == drv.img.regions[i]
               k == drv.img.regions[j]
           IN  i < j => /\ m.name # k.name
                        /\ m.phys # None /\ k.phys # None => ~Overlap(m.phys, m.size, k.phys, k.size)
      /\ \A d, e \in Domains : d # e =>
           /\ Ports(d) \cap Ports(e) = {}
           /\ d.irq # NoIrq /\ e.irq # NoIrq =>
                /\ d.irq.line # None => d.irq.line # e.irq.line
                /\ d.irq.vector # None => d.irq.vector # e.irq.vector
      /\ \A d \in Domains : \A c \in Conns(d) : \A w \in c.at :
           w[2] = 1 /\ w[1] # \h4000 =>
             {e.name : e \in {x \in Domains : \E m \in Maps(x) : m.vaddr = w[1]}}
               = {d.name} \cup {p[1] : p \in Peer(d.name, c.id)}
      /\ \A i \in DOMAIN drv.img.links :
           LET l == drv.img.links[i]
               Pri(n) == (CHOOSE d \in Domains : d.name = n).priority
           IN  l.pp => Pri(l.a) > Pri(l.b)

\* A driver finds its device: for every driver domain QEMU has put the device
\* where lerux-machine told the program to look, behind a window the domain
\* maps, on the interrupt line the description routes to it.
DeviceFound ==
    q.pc = "done" =>
      \A d \in Domains :
        LET role == CASE d.program = "sddf-blk-driver" -> "blk"
                      [] d.program = "sddf-net-driver" -> "net"
                      [] d.program = "sddf-gpu-driver" -> "gpu"
                      [] OTHER -> ""
        IN  /\ role # "" =>
                 \E x \in dev.devices :
                    /\ x.role = role /\ x.at = virtio_node(dev.row.arch, role).at
                    /\ dev.row.arch # "x86" =>
                         /\ x.line = d.irq.line
                         /\ \E m \in Maps(d) : m.phys = x.phys
            /\ d.program = "sddf-ahci-driver" => \E x \in dev.devices : x.role = "ahci" /\ x.at = \h1f
            /\ d.program = "sddf-e1000e-driver" => \E x \in dev.devices : x.role = "e1000e" /\ x.at = 4

Busy == q.pc \notin {"done", "failed", "none"}
=============================================================================
