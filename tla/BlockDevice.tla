----------------------------- MODULE BlockDevice -----------------------------
(***************************************************************************)
(* What a block driver promises the file systems above block_read and      *)
(* block_write (include/jnu/fs/block.h), one sector at a time.             *)
(*                                                                         *)
(* A request takes effect at one moment between its call and its return.   *)
(* A read that succeeds delivers what the medium held at that moment; a    *)
(* write that succeeds is on the medium.  A write that FAILS may still     *)
(* reach the medium, once, and even after the caller has been told: the    *)
(* device cannot be called back.  VirtioBlk and Ahci implement this.       *)
(***************************************************************************)
CONSTANTS BdThreads, Sectors, Values, NoReq

VARIABLES media,     \* the medium
          asked,     \* the request of a thread: [kind, sec, val, done], or NoReq
          answer,    \* what its last request delivered: a value, "wrote" or "error"
          loose      \* the failed writes that may still reach the medium

bdVars == <<media, asked, answer, loose>>

Requests == [kind : {"read", "write"}, sec : Sectors, val : Values, done : BOOLEAN]

BdInit == /\ media \in [Sectors -> Values]
          /\ asked = [t \in BdThreads |-> NoReq]
          /\ answer = [t \in BdThreads |-> "error"]
          /\ loose = {}

Ask(t) == /\ asked[t] = NoReq
          /\ asked'[t] \in Requests /\ ~asked'[t].done
          /\ \A u \in BdThreads \ {t} : asked'[u] = asked[u]
          /\ UNCHANGED <<media, answer, loose>>

\* The moment at which the request takes effect.
Serve(t) ==
  /\ asked[t] # NoReq /\ ~asked[t].done
  /\ IF asked[t].kind = "read"
       THEN /\ asked' = [asked EXCEPT ![t].done = TRUE, ![t].val = media[asked[t].sec]]
            /\ UNCHANGED media
       ELSE /\ asked' = [asked EXCEPT ![t].done = TRUE]
            /\ media' = [media EXCEPT ![asked[t].sec] = asked[t].val]
  /\ UNCHANGED <<answer, loose>>

Deliver(t) == /\ asked[t] # NoReq /\ asked[t].done
              /\ answer' = [answer EXCEPT ![t] = IF asked[t].kind = "read" THEN asked[t].val ELSE "wrote"]
              /\ asked' = [asked EXCEPT ![t] = NoReq]
              /\ UNCHANGED <<media, loose>>

\* The request fails; a write that has not taken effect yet may do so later.
Refuse(t) ==
  /\ answer' = [answer EXCEPT ![t] = "error"]
  /\ asked' = [asked EXCEPT ![t] = NoReq]
  /\ \/ UNCHANGED loose
     \/ /\ asked[t] # NoReq /\ asked[t].kind = "write" /\ ~asked[t].done
        /\ loose' = loose \cup {[sec |-> asked[t].sec, val |-> asked[t].val]}
  /\ UNCHANGED media

\* A failed write reaches the medium after all, or is dropped by the device.
Land(w) == /\ loose' = loose \ {w}
           /\ \/ media' = [media EXCEPT ![w.sec] = w.val]
              \/ UNCHANGED media
           /\ UNCHANGED <<asked, answer>>

BdNext == \/ \E t \in BdThreads : \/ Ask(t)
                                  \/ Serve(t)
                                  \/ Deliver(t)
                                  \/ Refuse(t)
          \/ \E w \in loose : Land(w)

BdSpec == BdInit /\ [][BdNext]_bdVars
=============================================================================
