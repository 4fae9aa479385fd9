---------------------------- MODULE EvidenceStore ----------------------------
(***************************************************************************)
(* What a shared store of evidence promises to the processes that use it:  *)
(* every put and every get takes effect at one moment between its call and *)
(* its return, nothing stored is lost, and a client that dies leaves an    *)
(* operation that took effect as a whole or not at all.                    *)
(***************************************************************************)
CONSTANTS Clients, Evidence

VARIABLES
  store,   \* the evidence stored
  op       \* per client, its operation: idle, called or done

Idle == [pc |-> "idle", kind |-> "none", evidence |-> {}]
Called(kind, S) == [pc |-> "called", kind |-> kind, evidence |-> S]
Done(kind, S) == [pc |-> "done", kind |-> kind, evidence |-> S]

Init == store = {} /\ op = [c \in Clients |-> Idle]

Call(c) ==
  /\ op[c] = Idle
  /\ \/ \E S \in SUBSET Evidence : op' = [op EXCEPT ![c] = Called("put", S)]
     \/ op' = [op EXCEPT ![c] = Called("get", {})]
  /\ UNCHANGED store

Put(c) ==
  /\ op[c].pc = "called" /\ op[c].kind = "put"
  /\ store' = store \cup op[c].evidence
  /\ op' = [op EXCEPT ![c] = Done("put", op[c].evidence)]

(* A get returns exactly what is stored at that moment.                    *)
Get(c) ==
  /\ op[c].pc = "called" /\ op[c].kind = "get"
  /\ op' = [op EXCEPT ![c] = Done("get", store)]
  /\ UNCHANGED store

Return(c) ==
  /\ op[c].pc = "done"
  /\ op' = [op EXCEPT ![c] = Idle]
  /\ UNCHANGED store

Die(c) ==
  /\ op[c] # Idle
  /\ op' = [op EXCEPT ![c] = Idle]
  /\ UNCHANGED store

Next == \E c \in Clients : Call(c) \/ Put(c) \/ Get(c) \/ Return(c) \/ Die(c)
Spec == Init /\ [][Next]_<<store, op>>
=============================================================================
