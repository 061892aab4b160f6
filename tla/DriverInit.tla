------------------------------ MODULE DriverInit ------------------------------
(***************************************************************************)
(* How the boot code brings the block drivers up: virtio_blk_init,         *)
(* ata_init and ahci_init, in the order of kernel_main, with the interrupt *)
(* vectors, DMA pages and block device slots they take and, when a later   *)
(* step of a device fails, give back.                                      *)
(*                                                                         *)
(* Nothing else runs yet, so a step is what happens between two failures;  *)
(* what a device answers is a nondeterministic choice.                     *)
(***************************************************************************)
EXTENDS Naturals, Sequences, FiniteSets

CONSTANTS DiVectors,    \* the vectors of the dynamic range
          DiPages,      \* the DMA pages
          DiPorts,      \* the ports of the HBA: 1..DiPorts
          DiMaxDrives,  \* MAX_AHCI_DRIVES
          DiMaxBdevs,   \* MAX_BLOCK_DEVICES
          DiNone

ASSUME DiAssumption == /\ DiPorts \in Nat /\ DiMaxDrives \in 0..4 /\ DiMaxBdevs \in Nat
                       /\ DiNone \notin DiVectors \cup DiPages

VARIABLES di_pc,
          di_handler,   \* the vectors in use, and the driver each one is dispatched to
          di_free,      \* the DMA pages pmm has
          di_virtio,    \* blk_dev: [meta, vq, vec, irq_enabled, ready]
          di_ahci,      \* [vec, irq_enabled]
          di_ports,     \* ports[]: [dma, bounce, running, present]
          di_port,      \* the port ahci_init is at (0: none)
          di_count,     \* port_count
          di_bdevs      \* bdevs[]

diVars == <<di_pc, di_handler, di_free, di_virtio, di_ahci, di_ports, di_port, di_count, di_bdevs>>

DiNoVirtio == [meta |-> DiNone, vq |-> DiNone, vec |-> DiNone, irq_enabled |-> FALSE, ready |-> FALSE]

DiNoPort == [dma |-> DiNone, bounce |-> DiNone, running |-> FALSE, present |-> FALSE]

DiInit == /\ di_pc = "virtio"
          /\ di_handler = [v \in DiVectors |-> DiNone]
          /\ di_free = DiPages
          /\ di_virtio = DiNoVirtio
          /\ di_ahci = [vec |-> DiNone, irq_enabled |-> FALSE]
          /\ di_ports = [i \in 1..DiPorts |-> DiNoPort]
          /\ di_port = 0 /\ di_count = 0
          /\ di_bdevs = <<>>

\* irq_alloc_vector and irq_free_vector (which free vector, and which page, makes no difference).
DiFreeVectors == {v \in DiVectors : di_handler[v] = DiNone}

DiOne(S) == IF S = {} THEN {} ELSE {CHOOSE x \in S : TRUE}

DiFreeVector(v) == [di_handler EXCEPT ![v] = DiNone]

\* block_register: a name that is taken, and a full table, are refused.
DiRegister(name) == IF Len(di_bdevs) < DiMaxBdevs /\ \A k \in 1..Len(di_bdevs) : di_bdevs[k] # name
                      THEN Append(di_bdevs, name) ELSE di_bdevs
------------------------------------------------------------------------------
\* A capability: [type, window], where window says what the BAR behind it gives: "mmio" (it can
\* be mapped), "port", or "bad" (no multiplier, no BAR, a port out of range, not mappable).
DiCaps == [type : {"common", "device", "notify"}, window : {"mmio", "port", "bad"}]

\* virtio_find_cap and virtio_map_mmio_cap: the first capability of a type decides.
DiMapped(caps, type) ==
  \E k \in 1..Len(caps) : /\ caps[k] = [type |-> type, window |-> "mmio"]
                          /\ \A j \in 1..k - 1 : caps[j].type # type

\* virtio_map_notify: any notify region that can be mapped, else the first port.
DiNotify(caps) ==
  \E k \in 1..Len(caps) : caps[k].type = "notify" /\ caps[k].window # "bad"

\* virtio_blk_setup up to the first resource: the device is there, its regions are mapped, the
\* reset ends and the features are accepted.
ViProbe(caps, answers) ==
  /\ di_pc = "virtio"
  /\ di_pc' = IF DiMapped(caps, "common") /\ DiMapped(caps, "device") /\ DiNotify(caps) /\ answers
                THEN "meta" ELSE "ata"
  /\ UNCHANGED <<di_handler, di_free, di_virtio, di_ahci, di_ports, di_port, di_count, di_bdevs>>

\* The page for the request header.
ViMeta ==
  /\ di_pc = "meta"
  /\ \/ \E p \in DiOne(di_free) : /\ di_virtio' = [di_virtio EXCEPT !.meta = p]
                           /\ di_free' = di_free \ {p}
                           /\ di_pc' = "msix"
     \/ di_free = {} /\ di_pc' = "teardown" /\ UNCHANGED <<di_virtio, di_free>>
  /\ UNCHANGED <<di_handler, di_ahci, di_ports, di_port, di_count, di_bdevs>>

\* virtio_blk_setup_irq: the vector is given back when msix_enable fails; then the queue is polled.
ViIrq ==
  /\ di_pc = "msix"
  /\ di_pc' = "queue"
  /\ \/ \E v \in DiOne(DiFreeVectors) : /\ di_handler' = [di_handler EXCEPT ![v] = "virtio"]
                                 /\ di_virtio' = [di_virtio EXCEPT !.vec = v, !.irq_enabled = TRUE]
     \/ UNCHANGED <<di_handler, di_virtio>>
  /\ UNCHANGED <<di_free, di_ahci, di_ports, di_port, di_count, di_bdevs>>

\* Mutant: the vector the device rejected is freed and stays in use.
ViQueueKeepsIrq(rejected) ==
  /\ di_pc = "queue"
  /\ \E p \in DiOne(di_free) :
       /\ di_free' = di_free \ {p}
       /\ IF rejected /\ di_virtio.irq_enabled
            THEN /\ di_handler' = DiFreeVector(di_virtio.vec)
                 /\ di_virtio' = [di_virtio EXCEPT !.vq = p]
            ELSE /\ di_virtio' = [di_virtio EXCEPT !.vq = p]
                 /\ UNCHANGED di_handler
       /\ di_pc' = "capacity"
  /\ UNCHANGED <<di_ahci, di_ports, di_port, di_count, di_bdevs>>

\* virtq_init: a page for the rings, and the vector goes back when the device rejects it.
ViQueue(rejected) ==
  /\ di_pc = "queue"
  /\ \E p \in DiOne(di_free) :
       /\ di_free' = di_free \ {p}
       /\ IF rejected /\ di_virtio.irq_enabled
            THEN /\ di_handler' = DiFreeVector(di_virtio.vec)
                 /\ di_virtio' = [di_virtio EXCEPT !.vq = p, !.vec = DiNone, !.irq_enabled = FALSE]
            ELSE /\ di_virtio' = [di_virtio EXCEPT !.vq = p]
                 /\ UNCHANGED di_handler
       /\ di_pc' = "capacity"
  /\ UNCHANGED <<di_ahci, di_ports, di_port, di_count, di_bdevs>>

\* The ring size is unusable, or there is no page.
ViQueueFails ==
  /\ di_pc = "queue"
  /\ di_pc' = "teardown"
  /\ UNCHANGED <<di_handler, di_free, di_virtio, di_ahci, di_ports, di_port, di_count, di_bdevs>>

\* DRIVER_OK, and the device is registered; one without sectors is not.
ViCapacity(sectors) ==
  /\ di_pc = "capacity"
  /\ IF sectors = 0
       THEN /\ di_pc' = "teardown"
            /\ UNCHANGED <<di_virtio, di_bdevs>>
       ELSE /\ di_virtio' = [di_virtio EXCEPT !.ready = TRUE]
            /\ di_bdevs' = DiRegister("vda")
            /\ di_pc' = "ata"
  /\ UNCHANGED <<di_handler, di_free, di_ahci, di_ports, di_port, di_count>>

\* virtio_blk_teardown.
ViTeardown ==
  /\ di_pc = "teardown"
  /\ di_handler' = IF di_virtio.irq_enabled THEN DiFreeVector(di_virtio.vec) ELSE di_handler
  /\ di_free' = di_free \cup ({di_virtio.vq, di_virtio.meta} \ {DiNone})
  /\ di_virtio' = DiNoVirtio
  /\ di_pc' = "ata"
  /\ UNCHANGED <<di_ahci, di_ports, di_port, di_count, di_bdevs>>
------------------------------------------------------------------------------
drive_names == <<"hda", "hdb", "hdc", "hdd">>

\* ata_init: the drives that answer IDENTIFY, one name after the other, as far as the table goes.
AtaInit(drives) ==
  /\ di_pc = "ata"
  /\ di_bdevs' = IF Len(di_bdevs) + drives <= DiMaxBdevs
                   THEN di_bdevs \o SubSeq(drive_names, 1, drives)
                   ELSE SubSeq(di_bdevs \o drive_names, 1, DiMaxBdevs)
  /\ di_pc' = "ahci"
  /\ UNCHANGED <<di_handler, di_free, di_virtio, di_ahci, di_ports, di_port, di_count>>
------------------------------------------------------------------------------
\* ahci_setup_irq: one vector for the HBA, given back when msi_enable fails; then it is polled.
AhciSetupIrq ==
  \/ UNCHANGED <<di_handler, di_ahci>>
  \/ \E v \in DiOne(DiFreeVectors) : /\ di_handler' = [di_handler EXCEPT ![v] = "ahci"]
                                     /\ di_ahci' = [vec |-> v, irq_enabled |-> TRUE]

\* ahci_init up to the ports: no controller, or its interrupt is set up.
AhciStart ==
  /\ di_pc = "ahci"
  /\ \/ di_pc' = "up" /\ UNCHANGED <<di_port, di_handler, di_ahci>>
     \/ di_pc' = "ports" /\ di_port' = 1 /\ AhciSetupIrq
  /\ UNCHANGED <<di_free, di_virtio, di_ports, di_count, di_bdevs>>

DiEndPorts == di_pc' = "up" /\ di_port' = 0

DiNextPort == IF di_port = DiPorts THEN DiEndPorts ELSE di_port' = di_port + 1 /\ UNCHANGED di_pc

port_names == <<"sda", "sdb", "sdc", "sdd">>

\* No SATA disk on the port; at the limit of drives the loop ends.
AhciSkip ==
  /\ di_pc = "ports"
  /\ \/ DiNextPort
     \/ di_count >= DiMaxDrives /\ DiEndPorts
  /\ UNCHANGED <<di_handler, di_free, di_virtio, di_ahci, di_ports, di_count, di_bdevs>>

\* ahci_port_bringup with no page, or with only one, which it gives back.
AhciNoMemory ==
  /\ di_pc = "ports"
  /\ di_count < DiMaxDrives /\ Cardinality(di_free) < 2
  /\ DiNextPort
  /\ UNCHANGED <<di_handler, di_free, di_virtio, di_ahci, di_ports, di_count, di_bdevs>>

\* ahci_port_bringup starts the engine on its two pages; ahci_identify then fails, which
\* leaves them to the port, or the disk is registered.
AhciPort(identified) ==
  /\ di_pc = "ports"
  /\ di_count < DiMaxDrives
  /\ \E p \in DiOne(di_free) : \E q \in DiOne(di_free \ {p}) :
       /\ di_free' = di_free \ {p, q}
       /\ di_ports' = [di_ports EXCEPT ![di_port] = [dma |-> p, bounce |-> q, running |-> TRUE,
                                                   present |-> identified]]
  /\ IF identified
       THEN /\ di_bdevs' = DiRegister(port_names[di_count + 1])
            /\ di_count' = di_count + 1
       ELSE UNCHANGED <<di_bdevs, di_count>>
  /\ DiNextPort
  /\ UNCHANGED <<di_handler, di_virtio, di_ahci>>

\* The boot goes on.
DiUp == di_pc = "up" /\ UNCHANGED diVars

DiNext == \/ \E caps \in UNION {[1..n -> DiCaps] : n \in 0..3}, answers \in BOOLEAN : ViProbe(caps, answers)
          \/ ViMeta \/ ViIrq \/ ViQueueFails \/ ViTeardown
          \/ \E b \in BOOLEAN : ViQueue(b) \/ AhciPort(b)
          \/ \E n \in 0..1 : ViCapacity(n)
          \/ \E n \in 0..2 : AtaInit(n)
          \/ AhciStart \/ AhciSkip \/ AhciNoMemory \/ DiUp

DiSpec == DiInit /\ [][DiNext]_diVars
------------------------------------------------------------------------------
\* The pages a driver has on record.
DiHeld == ({di_virtio.meta, di_virtio.vq} \cup UNION {{di_ports[i].dma, di_ports[i].bounce} : i \in 1..DiPorts})
          \ {DiNone}

\* Whatever step of the bring-up fails, nothing is lost and nothing is handed out twice: a vector
\* is in use exactly when one driver waits on it and it is dispatched to that driver; a DMA
\* page is free or on record with exactly one owner, so that no engine that was started runs on
\* pages the allocator has; and the block layer lists each name once and only devices that are up.
DiExact ==
  /\ \A v \in DiVectors :
       di_handler[v] = (CASE di_virtio.irq_enabled /\ di_virtio.vec = v -> "virtio"
                          [] di_ahci.irq_enabled /\ di_ahci.vec = v -> "ahci"
                          [] OTHER -> DiNone)
  /\ di_virtio.irq_enabled => di_virtio.vec \in DiVectors /\ di_virtio.vec # di_ahci.vec
  /\ di_free = DiPages \ DiHeld
  /\ Cardinality(DiHeld) = Cardinality({i \in 1..DiPorts : di_ports[i].running}) * 2
                           + Cardinality({f \in {"meta", "vq"} : di_virtio[f] # DiNone})
  /\ \A j, k \in 1..Len(di_bdevs) : di_bdevs[j] = di_bdevs[k] => j = k
  /\ "vda" \in {di_bdevs[k] : k \in 1..Len(di_bdevs)} => di_virtio.ready /\ di_virtio.vq # DiNone
=============================================================================
