--------------------------- MODULE MaturityRegistry ---------------------------
(***************************************************************************)
(* The machine-local registry of component evidence                        *)
(* (components/maturity_registry.py): one YAML document that certification *)
(* processes merge overlays into under a file lock and replace atomically, *)
(* and that every process reads through a cache keyed by the file's        *)
(* modification time and size.                                             *)
(*                                                                         *)
(* Evidence is a pair of an overlay identity (component, adapter, commit,  *)
(* version, protocol) and an artifact.  The size of the document grows     *)
(* with every artifact; the modification time is left out, as if all       *)
(* writes fell into one tick of the clock, which is the worst case for a   *)
(* cache that compares both.  A registry file that somebody deletes or     *)
(* edits by hand is not modelled.                                          *)
(***************************************************************************)
EXTENDS Naturals, FiniteSets

CONSTANTS
  Clients,     \* processes, each with one registry object
  Nobody,      \* no process: the lock is free
  Overlays,    \* identities of matching overlays of one component
  Artifacts,   \* artifact contracts
  MaxDeaths    \* bound: processes that died

ASSUME NobodyAssumption == Nobody \notin Clients
ASSUME EvidenceAssumption == IsFiniteSet(Overlays) /\ IsFiniteSet(Artifacts)
ASSUME DeathsAssumption == MaxDeaths \in Nat

Evidence == Overlays \X Artifacts

VARIABLES
  file,      \* the evidence in the document on disk
  lock,      \* who holds the file lock
  temp,      \* per client, the document it is about to write, its temporary file
  cache,     \* per client, the cached document and the size it was read at
  op,        \* per client, the operation and its progress
  deaths     \* processes that died so far

vars == <<file, lock, temp, cache, op, deaths>>

(* _stat_key: a missing file has no key.                                   *)
NoKey == 0
Key == Cardinality(file)
NoCache == [key |-> NoKey, evidence |-> {}]
Idle == [pc |-> "idle", kind |-> "none", evidence |-> {}]

Init ==
  /\ file = {}
  /\ lock = Nobody
  /\ temp = [c \in Clients |-> {}]
  /\ cache = [c \in Clients |-> NoCache]
  /\ op = [c \in Clients |-> Idle]
  /\ deaths = 0
-----------------------------------------------------------------------------
Goto(c, place) == op' = [op EXCEPT ![c].pc = place]
Finish(c, kind, S) == op' = [op EXCEPT ![c] = [pc |-> "done", kind |-> kind, evidence |-> S]]

(* A certification upserts one overlay with the artifacts it produced.     *)
CallUpsert(c) ==
  /\ op[c] = Idle
  /\ \E o \in Overlays, S \in (SUBSET Artifacts) \ {{}} :
       op' = [op EXCEPT ![c] = [pc |-> "lock", kind |-> "put", evidence |-> {o} \X S]]
  /\ UNCHANGED <<file, lock, temp, cache, deaths>>

CallLoad(c) ==
  /\ op[c] = Idle
  /\ op' = [op EXCEPT ![c] = [pc |-> "stat", kind |-> "get", evidence |-> {}]]
  /\ UNCHANGED <<file, lock, temp, cache, deaths>>

(* Mutant: whatever is cached is current.                                  *)
HitAnyCache(c) ==
  /\ op[c].pc = "stat"
  /\ cache[c] # NoCache
  /\ Finish(c, "get", cache[c].evidence)
  /\ UNCHANGED <<file, lock, temp, cache, deaths>>

(* load: an unchanged file is answered from the cache, without the lock.   *)
HitCache(c) ==
  /\ op[c].pc = "stat"
  /\ cache[c] # NoCache /\ cache[c].key = Key
  /\ Finish(c, "get", cache[c].evidence)
  /\ UNCHANGED <<file, lock, temp, cache, deaths>>

(* Mutant: a load reads the document without the lock.                     *)
MissCacheUnlocked(c) ==
  /\ op[c].pc = "stat"
  /\ cache[c] = NoCache \/ cache[c].key # Key
  /\ Goto(c, "read")
  /\ UNCHANGED <<file, lock, temp, cache, deaths>>

MissCache(c) ==
  /\ op[c].pc = "stat"
  /\ cache[c] = NoCache \/ cache[c].key # Key
  /\ Goto(c, "lock")
  /\ UNCHANGED <<file, lock, temp, cache, deaths>>

(* Mutant: the lock keeps nobody out.                                      *)
AcquireHeld(c) ==
  /\ op[c].pc = "lock"
  /\ lock' = c
  /\ Goto(c, "read")
  /\ UNCHANGED <<file, temp, cache, deaths>>

(* _file_lock *)
Acquire(c) ==
  /\ op[c].pc = "lock" /\ lock = Nobody
  /\ lock' = c
  /\ Goto(c, "read")
  /\ UNCHANGED <<file, temp, cache, deaths>>

(* _load_unlocked: the document is parsed and cached; the key is taken     *)
(* after the parse, still under the lock.                                  *)
CacheFile == IF file = {} THEN NoCache ELSE [key |-> Key, evidence |-> file]

ReadForLoad(c) ==
  /\ op[c].pc = "read" /\ op[c].kind = "get"
  /\ cache' = [cache EXCEPT ![c] = CacheFile]
  /\ Finish(c, "get", file)
  /\ lock' = Nobody
  /\ UNCHANGED <<file, temp, deaths>>

(* Mutant: the merge is cached before it is written.                       *)
CacheMerge(c) ==
  /\ op[c].pc = "read" /\ op[c].kind = "put"
  /\ LET merged == file \cup op[c].evidence
     IN /\ cache' = [cache EXCEPT ![c] = [key |-> Cardinality(merged), evidence |-> merged]]
        /\ temp' = [temp EXCEPT ![c] = merged]
  /\ Goto(c, "replace")
  /\ UNCHANGED <<file, lock, deaths>>

(* upsert: an overlay that adds nothing is not written.                    *)
ReadForUpsert(c) ==
  /\ op[c].pc = "read" /\ op[c].kind = "put"
  /\ cache' = [cache EXCEPT ![c] = CacheFile]
  /\ \/ /\ op[c].evidence \subseteq file
        /\ Finish(c, "put", op[c].evidence)
        /\ lock' = Nobody
        /\ UNCHANGED temp
     \/ /\ ~(op[c].evidence \subseteq file)
        /\ temp' = [temp EXCEPT ![c] = file \cup op[c].evidence]
        /\ Goto(c, "replace")
        /\ UNCHANGED lock
  /\ UNCHANGED <<file, deaths>>

(* _write_unlocked: the temporary file replaces the document.              *)
Replace(c) ==
  /\ op[c].pc = "replace"
  /\ file' = temp[c]
  /\ temp' = [temp EXCEPT ![c] = {}]
  /\ Finish(c, "put", op[c].evidence)
  /\ lock' = Nobody
  /\ UNCHANGED <<cache, deaths>>

(* Mutant: the exception leaves the operation where nobody finishes it.    *)
WriteRaises(c) ==
  /\ op[c].pc = "replace"
  /\ temp' = [temp EXCEPT ![c] = {}]
  /\ op' = [op EXCEPT ![c].pc = "raised"]
  /\ lock' = Nobody
  /\ UNCHANGED <<file, cache, deaths>>

(* The write fails: the temporary file is removed, the lock released, and   *)
(* the upsert raises.                                                      *)
WriteFails(c) ==
  /\ op[c].pc = "replace"
  /\ temp' = [temp EXCEPT ![c] = {}]
  /\ op' = [op EXCEPT ![c] = Idle]
  /\ lock' = Nobody
  /\ UNCHANGED <<file, cache, deaths>>

Return(c) ==
  /\ op[c].pc = "done"
  /\ op' = [op EXCEPT ![c] = Idle]
  /\ UNCHANGED <<file, lock, temp, cache, deaths>>

(* Mutant: the lock outlives its process.                                  *)
DieLocked(c) ==
  /\ op[c] # Idle /\ deaths < MaxDeaths
  /\ deaths' = deaths + 1
  /\ op' = [op EXCEPT ![c] = Idle]
  /\ temp' = [temp EXCEPT ![c] = {}]
  /\ cache' = [cache EXCEPT ![c] = NoCache]
  /\ UNCHANGED <<file, lock>>

(* A process dies: the system releases its lock, its temporary file is     *)
(* never read again, and its cache is gone.                                *)
Die(c) ==
  /\ op[c] # Idle /\ deaths < MaxDeaths
  /\ deaths' = deaths + 1
  /\ op' = [op EXCEPT ![c] = Idle]
  /\ lock' = IF lock = c THEN Nobody ELSE lock
  /\ temp' = [temp EXCEPT ![c] = {}]
  /\ cache' = [cache EXCEPT ![c] = NoCache]
  /\ UNCHANGED file
-----------------------------------------------------------------------------
Load(c) == CallLoad(c) \/ HitCache(c) \/ MissCache(c) \/ ReadForLoad(c)
Upsert(c) == CallUpsert(c) \/ ReadForUpsert(c) \/ Replace(c) \/ WriteFails(c)
Next == \E c \in Clients : Load(c) \/ Upsert(c) \/ Acquire(c) \/ Return(c) \/ Die(c)

Spec == Init /\ [][Next]_vars

(* The system grants a lock that is free again and again, and processes    *)
(* finish what they began.                                                 *)
Step(c) == HitCache(c) \/ MissCache(c) \/ ReadForLoad(c) \/ ReadForUpsert(c) \/ Replace(c)
FairSpec == Spec /\ \A c \in Clients : WF_vars(Step(c)) /\ SF_vars(Acquire(c)) /\ WF_vars(Return(c))
-----------------------------------------------------------------------------
Places == {"idle", "stat", "lock", "read", "replace", "done"}
TypeOK ==
  /\ file \subseteq Evidence
  /\ lock \in Clients \cup {Nobody}
  /\ temp \in [Clients -> SUBSET Evidence]
  /\ cache \in [Clients -> [key : Nat, evidence : SUBSET Evidence]]
  /\ op \in [Clients -> [pc : Places, kind : {"none", "put", "get"}, evidence : SUBSET Evidence]]
  /\ deaths \in 0..MaxDeaths

(* Only the holder of the lock reads the document to merge into it or      *)
(* replaces it.                                                            *)
Critical(c) == op[c].pc \in {"read", "replace"}
OneWriter == \A c \in Clients : Critical(c) => lock = c

(* A cache whose key still fits holds the document as it is: "any external *)
(* write changes mtime or size" rests on documents that only grow.         *)
CacheIsExact == \A c \in Clients : cache[c].key = Key /\ cache[c] # NoCache => cache[c].evidence = file

(* Evidence is never lost: neither by concurrent merges of the same        *)
(* document nor by a process that dies while it writes.                    *)
EvidenceIsKept == [][file \subseteq file']_vars

(* The registry is an atomic evidence store: each upsert and each load,    *)
(* cached or not, takes effect at one moment between call and return.      *)
AbstractOp(c) ==
  CASE op[c].pc = "idle" -> Idle
    [] op[c].pc = "done" -> op[c]
    [] OTHER -> [op[c] EXCEPT !.pc = "called"]
Store == INSTANCE EvidenceStore WITH store <- file, op <- [c \in Clients |-> AbstractOp(c)]
ImplementsEvidenceStore == Store!Spec

(* Every call returns, unless its process dies.                            *)
CallsReturn == \A c \in Clients : op[c].pc \notin {"idle", "done"} ~> op[c].pc \in {"done", "idle"}
=============================================================================
