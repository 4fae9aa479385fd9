------------------------ MODULE MaturityRegistryProofs ------------------------
(***************************************************************************)
(* The maturity registry is an atomic evidence store, for any number of    *)
(* processes, overlays and artifacts, from one inductive invariant.        *)
(***************************************************************************)
EXTENDS MaturityRegistry, FiniteSetTheorems, TLAPS

(* What the places of an operation imply: loads have nothing to store, and *)
(* the document about to be written is still the merge of what is on file. *)
Consistent(c) ==
  /\ op[c].pc = "idle" => op[c] = Idle
  /\ op[c].pc = "stat" => op[c].kind = "get"
  /\ op[c].pc # "idle" => op[c].kind \in {"get", "put"}
  /\ op[c].kind = "get" /\ op[c].pc # "done" => op[c].evidence = {}
  /\ op[c].pc = "replace" => op[c].kind = "put" /\ temp[c] = file \cup op[c].evidence

(* A cache was exact when it was filled, and documents only grow.          *)
Honest(c) ==
  cache[c] # NoCache =>
    cache[c].evidence \subseteq file /\ cache[c].key = Cardinality(cache[c].evidence)

IInv ==
  /\ TypeOK
  /\ OneWriter
  /\ \A c \in Clients : Consistent(c) /\ Honest(c)
-----------------------------------------------------------------------------
LEMMA EvidenceIsFinite == IsFiniteSet(Evidence)
  BY EvidenceAssumption, FS_Product DEF Evidence

LEMMA KeyIsNatural == file \subseteq Evidence => Key \in Nat
  BY EvidenceIsFinite, FS_Subset, FS_CardinalityType DEF Key

(* A cache whose key fits is the document: it is part of it, and as large. *)
LEMMA FittingCacheIsExact ==
  ASSUME IInv, NEW c \in Clients, cache[c] # NoCache, cache[c].key = Key
  PROVE  cache[c].evidence = file
  <1>1. IsFiniteSet(file)
    BY EvidenceIsFinite, FS_Subset DEF IInv, TypeOK
  <1>2. cache[c].evidence \subseteq file /\ Cardinality(cache[c].evidence) = Cardinality(file)
    BY DEF IInv, Honest, Key
  <1> QED BY <1>1, <1>2, FS_Subset

LEMMA CacheFileFacts ==
  ASSUME TypeOK
  PROVE  /\ CacheFile \in [key : Nat, evidence : SUBSET Evidence]
         /\ CacheFile # NoCache => CacheFile.evidence = file /\ CacheFile.key = Cardinality(file)
  BY KeyIsNatural DEF TypeOK, CacheFile, NoCache, NoKey, Key

LEMMA Initially == Init => IInv
  BY DeathsAssumption DEF Init, IInv, TypeOK, OneWriter, Critical, Consistent, Honest, Idle, NoCache,
     NoKey, Places
-----------------------------------------------------------------------------
(* A step of one client leaves the others as they were.                    *)
LEMMA CallKeeps ==
  ASSUME IInv, NEW c \in Clients, CallUpsert(c) \/ CallLoad(c)
  PROVE  IInv'
  <1>1. PICK new : /\ op' = [op EXCEPT ![c] = new]
                   /\ \/ \E S \in SUBSET Evidence : new = [pc |-> "lock", kind |-> "put", evidence |-> S]
                      \/ new = [pc |-> "stat", kind |-> "get", evidence |-> {}]
    <2>1. CASE CallUpsert(c)
      <3>1. PICK o \in Overlays, S \in (SUBSET Artifacts) \ {{}} :
              op' = [op EXCEPT ![c] = [pc |-> "lock", kind |-> "put", evidence |-> {o} \X S]]
        BY <2>1 DEF CallUpsert
      <3>2. {o} \X S \in SUBSET Evidence
        BY DEF Evidence
      <3> QED BY <3>1, <3>2
    <2>2. CASE CallLoad(c)
      BY <2>2 DEF CallLoad
    <2> QED BY <2>1, <2>2
  <1>2. UNCHANGED <<file, lock, temp, cache, deaths>>
    BY DEF CallUpsert, CallLoad
  <1>3. new \in [pc : Places, kind : {"none", "put", "get"}, evidence : SUBSET Evidence]
    BY <1>1 DEF Places
  <1>4. TypeOK'
    BY <1>1, <1>2, <1>3 DEF IInv, TypeOK
  <1>5. OneWriter'
    BY <1>1, <1>2 DEF IInv, TypeOK, OneWriter, Critical
  <1>6. ASSUME NEW d \in Clients PROVE Consistent(d)' /\ Honest(d)'
    BY <1>1, <1>2 DEF IInv, TypeOK, Consistent, Honest
  <1> QED BY <1>4, <1>5, <1>6 DEF IInv

LEMMA PassKeeps ==
  ASSUME IInv, NEW c \in Clients, HitCache(c) \/ MissCache(c) \/ Acquire(c) \/ Return(c)
  PROVE  IInv'
  <1>1. op[c] \in [pc : Places, kind : {"none", "put", "get"}, evidence : SUBSET Evidence]
    BY DEF IInv, TypeOK
  <1>2. CASE HitCache(c)
    BY <1>1, <1>2 DEF HitCache, Finish, IInv, TypeOK, OneWriter, Critical, Consistent, Honest, Places
  <1>3. CASE MissCache(c)
    BY <1>1, <1>3 DEF MissCache, Goto, IInv, TypeOK, OneWriter, Critical, Consistent, Honest, Places
  <1>4. CASE Acquire(c)
    BY <1>1, <1>4, NobodyAssumption
       DEF Acquire, Goto, IInv, TypeOK, OneWriter, Critical, Consistent, Honest, Places
  <1>5. CASE Return(c)
    BY <1>1, <1>5 DEF Return, IInv, TypeOK, OneWriter, Critical, Consistent, Honest, Places, Idle
  <1> QED BY <1>2, <1>3, <1>4, <1>5

LEMMA ReadForLoadKeeps ==
  ASSUME IInv, NEW c \in Clients, ReadForLoad(c)
  PROVE  IInv'
  <1>1. /\ CacheFile \in [key : Nat, evidence : SUBSET Evidence]
        /\ CacheFile # NoCache => CacheFile.evidence = file /\ CacheFile.key = Cardinality(file)
    BY CacheFileFacts DEF IInv
  <1> DEFINE read == CacheFile
  <1>2. /\ op[c].pc = "read" /\ op[c].kind = "get"
        /\ cache' = [cache EXCEPT ![c] = read]
        /\ op' = [op EXCEPT ![c] = [pc |-> "done", kind |-> "get", evidence |-> file]]
        /\ lock' = Nobody
        /\ UNCHANGED <<file, temp, deaths>>
    BY DEF ReadForLoad, Finish
  <1> HIDE DEF read
  <1>3. TypeOK'
    <2>1. read \in [key : Nat, evidence : SUBSET Evidence]
      BY <1>1 DEF read
    <2>2. cache' \in [Clients -> [key : Nat, evidence : SUBSET Evidence]]
      BY <1>2, <2>1 DEF IInv, TypeOK
    <2>3. [pc |-> "done", kind |-> "get", evidence |-> file]
            \in [pc : Places, kind : {"none", "put", "get"}, evidence : SUBSET Evidence]
      BY DEF IInv, TypeOK, Places
    <2>4. op' \in [Clients -> [pc : Places, kind : {"none", "put", "get"}, evidence : SUBSET Evidence]]
      BY <1>2, <2>3 DEF IInv, TypeOK
    <2> QED BY <1>2, <2>2, <2>4 DEF IInv, TypeOK
  <1>4. OneWriter'
    BY <1>2 DEF IInv, TypeOK, OneWriter, Critical
  <1>5. ASSUME NEW d \in Clients PROVE Consistent(d)'
    BY <1>2 DEF IInv, TypeOK, Consistent
  <1>6. ASSUME NEW d \in Clients PROVE Honest(d)'
    BY <1>1, <1>2 DEF IInv, TypeOK, Honest, read
  <1> QED BY <1>3, <1>4, <1>5, <1>6 DEF IInv

LEMMA ReadForUpsertKeeps ==
  ASSUME IInv, NEW c \in Clients, ReadForUpsert(c)
  PROVE  IInv'
  <1>1. /\ CacheFile \in [key : Nat, evidence : SUBSET Evidence]
        /\ CacheFile # NoCache => CacheFile.evidence = file /\ CacheFile.key = Cardinality(file)
    BY CacheFileFacts DEF IInv
  <1> DEFINE read == CacheFile
  <1>2. /\ op[c].pc = "read" /\ op[c].kind = "put" /\ op[c].evidence \in SUBSET Evidence
        /\ cache' = [cache EXCEPT ![c] = read]
        /\ UNCHANGED <<file, deaths>>
    BY DEF ReadForUpsert, IInv, TypeOK
  <1>3. \/ /\ op' = [op EXCEPT ![c] = [pc |-> "done", kind |-> "put", evidence |-> op[c].evidence]]
           /\ lock' = Nobody /\ temp' = temp
        \/ /\ temp' = [temp EXCEPT ![c] = file \cup op[c].evidence]
           /\ op' = [op EXCEPT ![c].pc = "replace"] /\ lock' = lock
    BY DEF ReadForUpsert, Finish, Goto
  <1> HIDE DEF read
  <1>4. TypeOK'
    <2>1. read \in [key : Nat, evidence : SUBSET Evidence]
      BY <1>1 DEF read
    <2>2. cache' \in [Clients -> [key : Nat, evidence : SUBSET Evidence]]
      BY <1>2, <2>1 DEF IInv, TypeOK
    <2>3. PICK new : /\ op' = [op EXCEPT ![c] = new]
                     /\ new \in [pc : Places, kind : {"none", "put", "get"}, evidence : SUBSET Evidence]
      BY <1>2, <1>3 DEF IInv, TypeOK, Places
    <2>4. op' \in [Clients -> [pc : Places, kind : {"none", "put", "get"}, evidence : SUBSET Evidence]]
      BY <2>3 DEF IInv, TypeOK
    <2>5. file \cup op[c].evidence \in SUBSET Evidence
      BY <1>2 DEF IInv, TypeOK
    <2>6. temp' \in [Clients -> SUBSET Evidence] /\ lock' \in Clients \cup {Nobody}
      BY <1>3, <2>5 DEF IInv, TypeOK
    <2> QED BY <1>2, <2>2, <2>4, <2>6 DEF IInv, TypeOK
  <1>5. OneWriter'
    BY <1>2, <1>3 DEF IInv, TypeOK, OneWriter, Critical
  <1>6. ASSUME NEW d \in Clients PROVE Consistent(d)'
    BY <1>2, <1>3 DEF IInv, TypeOK, Consistent
  <1>7. ASSUME NEW d \in Clients PROVE Honest(d)'
    BY <1>1, <1>2 DEF IInv, TypeOK, Honest, read
  <1> QED BY <1>4, <1>5, <1>6, <1>7 DEF IInv

LEMMA ReplaceKeeps ==
  ASSUME IInv, NEW c \in Clients, Replace(c)
  PROVE  IInv' /\ file' = file \cup op[c].evidence
  <1>1. /\ op[c].pc = "replace" /\ op[c].kind = "put" /\ op[c].evidence \in SUBSET Evidence
        /\ temp[c] = file \cup op[c].evidence /\ temp[c] \in SUBSET Evidence
    BY DEF Replace, IInv, TypeOK, Consistent
  <1>2. /\ file' = temp[c]
        /\ temp' = [temp EXCEPT ![c] = {}]
        /\ op' = [op EXCEPT ![c] = [pc |-> "done", kind |-> "put", evidence |-> op[c].evidence]]
        /\ lock' = Nobody
        /\ UNCHANGED <<cache, deaths>>
    BY DEF Replace, Finish
  <1>3. TypeOK'
    BY <1>1, <1>2 DEF IInv, TypeOK, Places
  <1>4. \A d \in Clients \ {c} : ~Critical(d)
    BY <1>1 DEF IInv, OneWriter, Critical
  <1>5. OneWriter'
    BY <1>2, <1>4 DEF IInv, TypeOK, OneWriter, Critical
  <1>6. ASSUME NEW d \in Clients PROVE Consistent(d)'
    BY <1>2, <1>4 DEF IInv, TypeOK, Consistent, Critical
  <1>7. ASSUME NEW d \in Clients PROVE Honest(d)'
    BY <1>1, <1>2 DEF IInv, TypeOK, Honest
  <1> QED BY <1>1, <1>2, <1>3, <1>5, <1>6, <1>7 DEF IInv

LEMMA WriteFailsKeeps ==
  ASSUME IInv, NEW c \in Clients, WriteFails(c)
  PROVE  IInv'
  <1>1. \A d \in Clients \ {c} : ~Critical(d)
    BY DEF WriteFails, IInv, OneWriter, Critical
  <1> QED BY <1>1 DEF WriteFails, IInv, TypeOK, OneWriter, Critical, Consistent, Honest, Idle, Places

LEMMA DieKeeps ==
  ASSUME IInv, NEW c \in Clients, Die(c)
  PROVE  IInv'
  <1>1. /\ deaths' \in 0..MaxDeaths
        /\ op' = [op EXCEPT ![c] = Idle]
        /\ lock' = IF lock = c THEN Nobody ELSE lock
        /\ temp' = [temp EXCEPT ![c] = {}]
        /\ cache' = [cache EXCEPT ![c] = NoCache]
        /\ file' = file
    BY DeathsAssumption DEF Die, IInv, TypeOK
  <1>2. TypeOK'
    BY <1>1 DEF IInv, TypeOK, Idle, Places, NoCache, NoKey
  <1>3. OneWriter'
    BY <1>1 DEF IInv, TypeOK, OneWriter, Critical, Idle
  <1>4. ASSUME NEW d \in Clients PROVE Consistent(d)' /\ Honest(d)'
    BY <1>1 DEF IInv, TypeOK, Consistent, Honest, Idle
  <1> QED BY <1>2, <1>3, <1>4 DEF IInv

LEMMA NextKeeps ==
  ASSUME IInv, [Next]_vars
  PROVE  IInv'
  <1>1. CASE UNCHANGED vars
    BY <1>1 DEF vars, IInv, TypeOK, OneWriter, Critical, Consistent, Honest
  <1>2. ASSUME NEW c \in Clients, Load(c) \/ Upsert(c) \/ Acquire(c) \/ Return(c) \/ Die(c)
        PROVE  IInv'
    BY <1>2, CallKeeps, PassKeeps, ReadForLoadKeeps, ReadForUpsertKeeps, ReplaceKeeps,
       WriteFailsKeeps, DieKeeps DEF Load, Upsert
  <1> QED BY <1>1, <1>2 DEF Next

LEMMA Invariance == Spec => []IInv
  <1>1. IInv /\ [Next]_vars => IInv'
    BY NextKeeps
  <1> QED BY Initially, <1>1, PTL DEF Spec
-----------------------------------------------------------------------------
(* The registry's document, caches and operations keep their types.        *)
THEOREM RegistryIsTyped == Spec => []TypeOK
  <1>1. IInv => TypeOK
    BY DEF IInv
  <1> QED BY <1>1, Invariance, PTL

(* Nobody merges into the document or replaces it without the lock.        *)
THEOREM LockExcludes == Spec => []OneWriter
  <1>1. IInv => OneWriter
    BY DEF IInv
  <1> QED BY <1>1, Invariance, PTL

(* An unchanged size means an unchanged document, even if the clock does   *)
(* not tell two writes apart, because documents only grow.                 *)
THEOREM CachesAreExact == Spec => []CacheIsExact
  <1>1. IInv => CacheIsExact
    BY FittingCacheIsExact DEF CacheIsExact
  <1> QED BY <1>1, Invariance, PTL

(* No merge and no process that dies while it writes loses evidence.       *)
THEOREM NothingIsLost == Spec => EvidenceIsKept
  <1>1. IInv /\ [Next]_vars => [file \subseteq file']_vars
    <2> SUFFICES ASSUME IInv, Next PROVE file \subseteq file'
      OBVIOUS
    <2>1. CASE file' = file
      BY <2>1
    <2>2. CASE \E c \in Clients : Replace(c)
      BY <2>2, ReplaceKeeps
    <2> QED BY <2>1, <2>2 DEF Next, Load, Upsert, CallLoad, HitCache, MissCache, ReadForLoad,
               CallUpsert, ReadForUpsert, WriteFails, Acquire, Return, Die
  <1> QED BY <1>1, Invariance, PTL DEF Spec, EvidenceIsKept
-----------------------------------------------------------------------------
(* The refinement: each step is a step of the store or a stutter.          *)
AbstractOps == [c \in Clients |-> AbstractOp(c)]

(* A step changes the store's view of its own client alone.                *)
LEMMA OnlyOwnOpChanges ==
  ASSUME IInv, NEW c \in Clients, NEW new, op' = [op EXCEPT ![c] = new]
  PROVE  AbstractOps' = [AbstractOps EXCEPT ![c] = AbstractOp(c)']
  <1>1. op'[c] = new /\ \A d \in Clients \ {c} : op'[d] = op[d]
    BY DEF IInv, TypeOK
  <1>2. \A d \in Clients \ {c} : AbstractOp(d)' = AbstractOp(d)
    BY <1>1 DEF AbstractOp
  <1> QED BY <1>2 DEF AbstractOps

(* What the store sees of a client.                                        *)
LEMMA OpSeen ==
  ASSUME IInv, NEW c \in Clients
  PROVE  /\ op[c].pc = "idle" => AbstractOps[c] = Store!Idle
         /\ op[c].pc = "done" => AbstractOps[c] = op[c]
         /\ op[c].pc \notin {"idle", "done"} =>
              AbstractOps[c] = Store!Called(op[c].kind, op[c].evidence)
  <1>1. op[c] = [pc |-> op[c].pc, kind |-> op[c].kind, evidence |-> op[c].evidence]
    BY DEF IInv, TypeOK
  <1>2. AbstractOps[c] = AbstractOp(c)
    BY DEF AbstractOps
  <1> QED BY <1>1, <1>2 DEF AbstractOp, Idle, Store!Idle, Store!Called

LEMMA OpSeenNext ==
  ASSUME IInv', NEW c \in Clients
  PROVE  /\ op'[c].pc = "idle" => AbstractOps'[c] = Store!Idle
         /\ op'[c].pc = "done" => AbstractOps'[c] = op'[c]
         /\ op'[c].pc \notin {"idle", "done"} =>
              AbstractOps'[c] = Store!Called(op'[c].kind, op'[c].evidence)
  <1>1. op'[c] = [pc |-> op'[c].pc, kind |-> op'[c].kind, evidence |-> op'[c].evidence]
    BY DEF IInv, TypeOK
  <1>2. AbstractOps'[c] = AbstractOp(c)'
    BY DEF AbstractOps
  <1> QED BY <1>1, <1>2 DEF AbstractOp, Idle, Store!Idle, Store!Called

(* One step of a client, as the store sees it.                             *)
LEMMA StepSeen ==
  ASSUME IInv, IInv', NEW c \in Clients, NEW new, op' = [op EXCEPT ![c] = new]
  PROVE  /\ op'[c] = new
         /\ AbstractOps' = [AbstractOps EXCEPT ![c] = AbstractOps'[c]]
  <1>1. op'[c] = new
    BY DEF IInv, TypeOK
  <1>2. AbstractOps'[c] = AbstractOp(c)'
    BY DEF AbstractOps
  <1> QED BY <1>1, <1>2, OnlyOwnOpChanges

LEMMA CallIsAbstract ==
  ASSUME IInv, IInv', NEW c \in Clients, CallUpsert(c) \/ CallLoad(c)
  PROVE  Store!Call(c)
  <1>1. /\ file' = file /\ op[c] = Idle
        /\ \E new : op' = [op EXCEPT ![c] = new]
    BY DEF CallUpsert, CallLoad
  <1>2. /\ AbstractOps[c] = Store!Idle
        /\ AbstractOps' = [AbstractOps EXCEPT ![c] = AbstractOps'[c]]
    <2>1. op[c].pc = "idle"
      BY <1>1 DEF Idle
    <2> QED BY <1>1, <2>1, OpSeen, StepSeen
  <1>3. \/ \E S \in SUBSET Evidence : AbstractOps'[c] = Store!Called("put", S)
        \/ AbstractOps'[c] = Store!Called("get", {})
    <2>1. CASE CallUpsert(c)
      <3>1. PICK o \in Overlays, S \in (SUBSET Artifacts) \ {{}} :
              op' = [op EXCEPT ![c] = [pc |-> "lock", kind |-> "put", evidence |-> {o} \X S]]
        BY <2>1 DEF CallUpsert
      <3>2. {o} \X S \in SUBSET Evidence
        BY DEF Evidence
      <3>3. op'[c] = [pc |-> "lock", kind |-> "put", evidence |-> {o} \X S]
        BY <3>1, StepSeen
      <3>4. op'[c].pc = "lock" /\ op'[c].kind = "put" /\ op'[c].evidence = {o} \X S
        BY <3>3
      <3>5. AbstractOps'[c] = Store!Called("put", {o} \X S)
        BY <3>4, OpSeenNext
      <3> QED BY <3>2, <3>5
    <2>2. CASE CallLoad(c)
      <3>1. op'[c] = [pc |-> "stat", kind |-> "get", evidence |-> {}]
        BY <2>2, StepSeen DEF CallLoad
      <3> QED BY <3>1, OpSeenNext
    <2> QED BY <2>1, <2>2
  <1> QED BY <1>1, <1>2, <1>3 DEF Store!Call, AbstractOps

(* Looking at the cache in vain, waiting for the lock and preparing the    *)
(* merge are invisible.                                                    *)
LEMMA WaitingIsInvisible ==
  ASSUME IInv, IInv', NEW c \in Clients, NEW place,
         op' = [op EXCEPT ![c].pc = place],
         op[c].pc \notin {"idle", "done"}, place \notin {"idle", "done"}
  PROVE  AbstractOps' = AbstractOps
  <1>1. op'[c].pc = place /\ op'[c].kind = op[c].kind /\ op'[c].evidence = op[c].evidence
    BY DEF IInv, TypeOK
  <1>2. AbstractOps'[c] = AbstractOps[c]
    BY <1>1, OpSeen, OpSeenNext
  <1>3. op' = [op EXCEPT ![c] = [op[c] EXCEPT !.pc = place]]
    OBVIOUS
  <1>4. AbstractOps' = [AbstractOps EXCEPT ![c] = AbstractOps'[c]]
    BY <1>3, StepSeen
  <1> QED BY <1>2, <1>4 DEF AbstractOps

(* A load takes effect when it hits the cache or reads the document.       *)
LEMMA LoadIsAbstract ==
  ASSUME IInv, IInv', NEW c \in Clients, HitCache(c) \/ ReadForLoad(c)
  PROVE  Store!Get(c)
  <1>1. /\ file' = file
        /\ op[c].pc \in {"stat", "read"} /\ op[c].kind = "get"
        /\ op' = [op EXCEPT ![c] = [pc |-> "done", kind |-> "get", evidence |-> file]]
    <2>1. CASE HitCache(c)
      BY <2>1, FittingCacheIsExact DEF HitCache, Finish, IInv, Consistent
    <2>2. CASE ReadForLoad(c)
      BY <2>2 DEF ReadForLoad, Finish
    <2> QED BY <2>1, <2>2
  <1>2. AbstractOps[c].pc = "called" /\ AbstractOps[c].kind = "get"
    <2>1. AbstractOps[c] = Store!Called(op[c].kind, op[c].evidence)
      BY <1>1, OpSeen
    <2> QED BY <1>1, <2>1 DEF Store!Called
  <1>3. AbstractOps'[c] = Store!Done("get", file)
    <2>1. op'[c] = Store!Done("get", file)
      BY <1>1, StepSeen DEF Store!Done
    <2>2. op'[c].pc = "done"
      BY <2>1 DEF Store!Done
    <2> QED BY <2>1, <2>2, OpSeenNext
  <1>4. AbstractOps' = [AbstractOps EXCEPT ![c] = AbstractOps'[c]]
    BY <1>1, StepSeen
  <1> QED BY <1>1, <1>2, <1>3, <1>4 DEF Store!Get, AbstractOps

(* An upsert takes effect when it finds nothing to add or replaces the     *)
(* document.                                                               *)
LEMMA PutIsAbstract ==
  ASSUME IInv, IInv', NEW c \in Clients,
         op[c].pc \in {"read", "replace"}, op[c].kind = "put",
         file' = file \cup op[c].evidence,
         op' = [op EXCEPT ![c] = [pc |-> "done", kind |-> "put", evidence |-> op[c].evidence]]
  PROVE  Store!Put(c)
  <1>1. /\ AbstractOps[c].pc = "called" /\ AbstractOps[c].kind = "put"
        /\ AbstractOps[c].evidence = op[c].evidence
    <2>1. AbstractOps[c] = Store!Called(op[c].kind, op[c].evidence)
      BY OpSeen
    <2> QED BY <2>1 DEF Store!Called
  <1>2. AbstractOps'[c] = Store!Done("put", op[c].evidence)
    <2>1. op'[c] = Store!Done("put", op[c].evidence)
      BY StepSeen DEF Store!Done
    <2>2. op'[c].pc = "done"
      BY <2>1 DEF Store!Done
    <2> QED BY <2>1, <2>2, OpSeenNext
  <1>3. AbstractOps' = [AbstractOps EXCEPT ![c] = AbstractOps'[c]]
    BY StepSeen
  <1> QED BY <1>1, <1>2, <1>3 DEF Store!Put, AbstractOps

LEMMA UpsertIsAbstract ==
  ASSUME IInv, IInv', NEW c \in Clients, ReadForUpsert(c) \/ Replace(c)
  PROVE  Store!Put(c) \/ (file' = file /\ AbstractOps' = AbstractOps)
  <1>1. CASE Replace(c)
    <2>1. op[c].pc = "replace" /\ op[c].kind = "put"
      BY <1>1 DEF Replace, IInv, Consistent
    <2> QED BY <1>1, <2>1, ReplaceKeeps, PutIsAbstract DEF Replace, Finish
  <1>2. CASE ReadForUpsert(c) /\ op[c].evidence \subseteq file
    <2>1. file' = file \cup op[c].evidence
      BY <1>2 DEF ReadForUpsert
    <2> QED BY <1>2, <2>1, PutIsAbstract DEF ReadForUpsert, Finish
  <1>3. CASE ReadForUpsert(c) /\ ~(op[c].evidence \subseteq file)
    BY <1>3, WaitingIsInvisible DEF ReadForUpsert, Goto
  <1> QED BY <1>1, <1>2, <1>3

LEMMA ReturnIsAbstract ==
  ASSUME IInv, IInv', NEW c \in Clients, Return(c)
  PROVE  Store!Return(c)
  <1>1. file' = file /\ op[c].pc = "done" /\ op' = [op EXCEPT ![c] = Idle]
    BY DEF Return
  <1>2. AbstractOps[c].pc = "done"
    BY <1>1, OpSeen
  <1>3. AbstractOps'[c] = Store!Idle
    <2>1. op'[c] = Idle
      BY <1>1, StepSeen
    <2>2. op'[c].pc = "idle"
      BY <2>1 DEF Idle
    <2> QED BY <2>2, OpSeenNext
  <1>4. AbstractOps' = [AbstractOps EXCEPT ![c] = AbstractOps'[c]]
    BY <1>1, StepSeen
  <1> QED BY <1>1, <1>2, <1>3, <1>4 DEF Store!Return, AbstractOps

LEMMA FailureIsAbstract ==
  ASSUME IInv, IInv', NEW c \in Clients, WriteFails(c) \/ Die(c)
  PROVE  Store!Die(c) \/ (file' = file /\ AbstractOps' = AbstractOps)
  <1>1. file' = file /\ op[c] # Idle /\ op' = [op EXCEPT ![c] = Idle]
    BY DEF WriteFails, Die, Idle
  <1>2. op[c].pc # "idle"
    BY <1>1 DEF IInv, Consistent
  <1>3. AbstractOps[c] # Store!Idle
    <2>1. CASE op[c].pc = "done"
      <3>1. AbstractOps[c].pc = "done"
        BY <2>1, OpSeen
      <3> QED BY <3>1 DEF Store!Idle
    <2>2. CASE op[c].pc # "done"
      <3>1. AbstractOps[c] = Store!Called(op[c].kind, op[c].evidence)
        BY <1>2, <2>2, OpSeen
      <3> QED BY <3>1 DEF Store!Idle, Store!Called
    <2> QED BY <2>1, <2>2
  <1>4. AbstractOps'[c] = Store!Idle
    <2>1. op'[c] = Idle
      BY <1>1, StepSeen
    <2>2. op'[c].pc = "idle"
      BY <2>1 DEF Idle
    <2> QED BY <2>2, OpSeenNext
  <1>5. AbstractOps' = [AbstractOps EXCEPT ![c] = AbstractOps'[c]]
    BY <1>1, StepSeen
  <1> QED BY <1>1, <1>3, <1>4, <1>5 DEF Store!Die, AbstractOps

LEMMA StepIsAbstract ==
  ASSUME IInv, IInv', [Next]_vars
  PROVE  Store!Next \/ (file' = file /\ AbstractOps' = AbstractOps)
  <1>1. CASE UNCHANGED vars
    <2>1. file' = file /\ op' = op
      BY <1>1 DEF vars
    <2> QED BY <2>1 DEF AbstractOps, AbstractOp
  <1>2. ASSUME NEW c \in Clients, MissCache(c) \/ Acquire(c)
        PROVE  file' = file /\ AbstractOps' = AbstractOps
    BY <1>2, WaitingIsInvisible DEF MissCache, Acquire, Goto
  <1>3. ASSUME NEW c \in Clients, Load(c) \/ Upsert(c) \/ Acquire(c) \/ Return(c) \/ Die(c)
        PROVE  Store!Next \/ (file' = file /\ AbstractOps' = AbstractOps)
    BY <1>2, <1>3, CallIsAbstract, LoadIsAbstract, UpsertIsAbstract, ReturnIsAbstract,
       FailureIsAbstract DEF Load, Upsert, Store!Next
  <1> QED BY <1>1, <1>3 DEF Next

(* Each load and each upsert takes effect at one moment between its call   *)
(* and its return, whatever happens to the processes: the caches and the   *)
(* merges are invisible to whoever uses the registry.                      *)
THEOREM RegistryIsAtomic == Spec => ImplementsEvidenceStore
  <1>1. Init => Store!Init
    BY DEF Init, Store!Init, Store!Idle, Idle, AbstractOp
  <1>2. IInv /\ IInv' /\ [Next]_vars => [Store!Next]_<<file, AbstractOps>>
    BY StepIsAbstract
  <1>3. IInv /\ IInv' /\ [Next]_vars => [Store!Next]_<<file, [c \in Clients |-> AbstractOp(c)]>>
    BY <1>2 DEF AbstractOps
  <1> QED BY <1>1, <1>3, Invariance, PTL DEF Spec, ImplementsEvidenceStore, Store!Spec
=============================================================================
