------------------------ MODULE KeyfileStore_proofs -------------------------
(***************************************************************************)
(* Proofs about KeyfileStore, for any number of requests, background       *)
(* goroutines, keys and versions.                                          *)
(***************************************************************************)
EXTENDS KeyfileStore, TLAPS

USE DEF Actors, Loaders

-----------------------------------------------------------------------------
(***************************************************************************)
(* Type correctness.                                                       *)
(***************************************************************************)

\* Contents hold key sets only.
LEMMA ContentsType ==
    ASSUME NEW f \in Contents
    PROVE  f.keys \subseteq Keys /\ f.kind \in {"missing", "bad", "valid"}
BY DEF Contents, FileState

\* The state of the path is one of Contents.
LEMMA CurrentType ==
    ASSUME TypeOK
    PROVE  Newest \in Nat /\ Newest >= 1 /\ Current \in Contents
BY DEF TypeOK, WorldType, StoreType, LocalType, Newest, Current

LEMMA ResultTypes ==
    ASSUME TypeOK, NEW s \in Int
    PROVE  Failed(s) \in Load /\ Gone \in Load /\ Parsed(s) \in Load
<1>1. Current.keys \subseteq Keys BY CurrentType, ContentsType
<1>2. Unexpired(Current.keys) \subseteq Keys BY <1>1 DEF Unexpired
<1>3. Newest \in Nat BY CurrentType
<1> QED BY <1>2, <1>3
        DEF Failed, Gone, Parsed, Load, DenyAll, Snapshot, Missing, Zero

\* The signature of the path is a signature.
LEMMA SigTypes == TypeOK => PathSig \in Int /\ Zero \in Int
BY CurrentType DEF PathSig, Missing, Zero

LEMMA NoLoadType == NoLoad \in Load
BY DEF NoLoad, Load, DenyAll, Snapshot, Zero

LEMMA TypeInit == Init => TypeOK
<1> SUFFICES ASSUME Init PROVE TypeOK OBVIOUS
<1>1. files \in Seq(Contents) /\ files # << >> /\ Newest = 1
  <2>1. PICK f \in Contents : files = <<f>> BY DEF Init
  <2> QED BY <2>1 DEF Newest
<1>2. load \in [Actors -> Load] BY NoLoadType DEF Init
<1>3. snap \in Snapshot BY DEF Init, Snapshot, DenyAll, Zero
<1>4. clock \in 0 .. MaxClock /\ lastStat \in 0 .. MaxClock
  BY TimeAssumption DEF Init
<1>5. pc \in [Actors -> PCs] BY DEF Init, PCs, Answered, LoadPCs, GatePCs
<1>6. /\ now \in [Requests -> 0 .. MaxClock]
      /\ last \in [Requests -> 0 .. MaxClock]
      /\ sig \in [Actors -> Int]
  BY TimeAssumption DEF Init, Zero
<1>7. parentBad \in BOOLEAN BY DEF Init
<1>8. alive \in BOOLEAN /\ reloading \in BOOLEAN /\ slept \in BOOLEAN
  BY DEF Init
<1>9. fault \in {"none"} \cup Faults /\ installed \in Nat BY DEF Init
<1> QED BY <1>1, <1>2, <1>3, <1>4, <1>5, <1>6, <1>7, <1>8, <1>9 DEF TypeOK, WorldType, StoreType, LocalType

\* Every step but the world's leaves the world alone.
LEMMA WorldFrame == Next /\ ~World => UNCHANGED world
BY DEF Next, World, Begin, GateStep, LoadLastStat, SwapLastStat, StatPath,
       CompareSig, TakeFlag, CheckDenied, StoreDenied, RejectMalformed, LookUp,
       Answer, LoadStep, AttemptStat, AttemptRead, WarnRetry, Wake,
       FinishFailed, FinishLoaded, Recover, Unwind, Release

LEMMA WorldTypeStep == TypeOK /\ [Next]_vars => WorldType'
<1> SUFFICES ASSUME TypeOK, [Next]_vars PROVE WorldType' OBVIOUS
<1> USE DEF TypeOK, WorldType
<1>1. CASE UNCHANGED world BY <1>1 DEF world
<1>2. CASE ChangeFile BY <1>2 DEF ChangeFile
<1>3. CASE ChangeParent BY <1>3 DEF ChangeParent
<1>4. CASE ChangeFault BY <1>4 DEF ChangeFault
<1>5. CASE Tick BY <1>5, TimeAssumption DEF Tick
<1>6. CASE StepBack BY <1>6, TimeAssumption DEF StepBack
<1> QED BY <1>1, <1>2, <1>3, <1>4, <1>5, <1>6, WorldFrame DEF World, vars, world

LEMMA NewestGrows == TypeOK /\ [Next]_vars => Newest <= Newest'
<1> SUFFICES ASSUME TypeOK, [Next]_vars PROVE Newest <= Newest' OBVIOUS
<1> USE DEF TypeOK, WorldType, Newest
<1>1. CASE UNCHANGED files BY <1>1
<1>2. CASE ChangeFile BY <1>2 DEF ChangeFile
<1> QED BY <1>1, <1>2, WorldFrame
        DEF World, ChangeParent, ChangeFault, Tick, StepBack, vars, world

LEMMA LocalTypeStep == TypeOK /\ [Next]_vars => LocalType'
<1> SUFFICES ASSUME TypeOK, [Next]_vars PROVE LocalType' OBVIOUS
<1> USE DEF TypeOK, LocalType, PCs, Answered, GatePCs, LoadPCs, Goto
<1>1. ASSUME NEW p \in Requests, Begin(p) PROVE LocalType'
  BY <1>1 DEF Begin, WorldType
<1>2. ASSUME NEW p \in Requests, LoadLastStat(p) PROVE LocalType'
  <2>1. CASE ElapsedDue(now[p], lastStat, StatTTL)
    BY <1>2, <2>1 DEF LoadLastStat, StoreType
  <2>2. CASE ~ElapsedDue(now[p], lastStat, StatTTL)
    BY <1>2, <2>2, TimeAssumption DEF LoadLastStat
  <2> QED BY <2>1, <2>2
<1>3. ASSUME NEW p \in Requests, SwapLastStat(p) PROVE LocalType'
  BY <1>3, TimeAssumption DEF SwapLastStat
<1>4. ASSUME NEW p \in Requests, StatPath(p) PROVE LocalType'
  BY <1>4, SigTypes DEF StatPath
<1>5. ASSUME NEW p \in Requests, CompareSig(p) PROVE LocalType'
  BY <1>5 DEF CompareSig
<1>6. ASSUME NEW p \in Requests, TakeFlag(p) PROVE LocalType'
  BY <1>6, SigTypes DEF TakeFlag
<1>7. ASSUME NEW p \in Requests, CheckDenied(p) PROVE LocalType'
  BY <1>7 DEF CheckDenied
<1>8. ASSUME NEW p \in Requests, StoreDenied(p) PROVE LocalType'
  BY <1>8 DEF StoreDenied
<1>9. ASSUME NEW p \in Requests, NEW v \in {"accepted", "rejected"}, Answer(p, v)
      PROVE  LocalType'
  BY <1>9, SigTypes DEF Answer
<1>10. ASSUME NEW l \in Loaders, AttemptStat(l) PROVE LocalType'
  <2>1. ASSUME NEW r \in Load, Attempted(l, r)
        PROVE  load' \in [Actors -> Load] /\ pc' \in [Actors -> PCs]
    BY <2>1 DEF Attempted
  <2> QED BY <1>10, <2>1, ResultTypes, SigTypes DEF AttemptStat
<1>11. ASSUME NEW l \in Loaders, AttemptRead(l) PROVE LocalType'
  <2>1. ASSUME NEW r \in Load, Attempted(l, r)
        PROVE  load' \in [Actors -> Load] /\ pc' \in [Actors -> PCs]
    BY <2>1 DEF Attempted
  <2> QED BY <1>11, <2>1, ResultTypes, SigTypes DEF AttemptRead
<1>12. ASSUME NEW l \in Loaders, WarnRetry(l) PROVE LocalType'
  <2>1. pc' \in [Actors -> PCs] BY <1>12 DEF WarnRetry
  <2> QED BY <1>12, <2>1, NoLoadType, SigTypes DEF WarnRetry
<1>13. ASSUME NEW l \in Loaders, Wake(l) PROVE LocalType'
  BY <1>13 DEF Wake
<1>14. ASSUME NEW l \in Loaders, FinishFailed(l) PROVE LocalType'
  BY <1>14 DEF FinishFailed
<1>15. ASSUME NEW l \in Loaders, FinishLoaded(l) PROVE LocalType'
  BY <1>15 DEF FinishLoaded
<1>16. ASSUME NEW l \in Loaders, Recover(l) PROVE LocalType'
  BY <1>16, NoLoadType DEF Recover
<1>17. ASSUME NEW l \in Loaders, Unwind(l) PROVE LocalType'
  BY <1>17, SigTypes DEF Unwind
<1>18. ASSUME NEW l \in Loaders, Release(l) PROVE LocalType'
  <2>1. load[l].snap.sig \in Int BY DEF Load, Snapshot
  <2> QED BY <1>18, <2>1, NoLoadType, SigTypes DEF Release
<1>19. CASE World BY <1>19 DEF World, ChangeFile, ChangeParent, ChangeFault,
                              Tick, StepBack, local
<1>20. CASE UNCHANGED vars BY <1>20 DEF vars, local
<1> QED
  BY <1>1, <1>2, <1>3, <1>4, <1>5, <1>6, <1>7, <1>8, <1>9, <1>10, <1>11,
     <1>12, <1>13, <1>14, <1>15, <1>16, <1>17, <1>18, <1>19, <1>20
  DEF Next, GateStep, LoadStep, LookUp, RejectMalformed

LEMMA StoreTypeStep == TypeOK /\ [Next]_vars => StoreType'
<1> SUFFICES ASSUME TypeOK, [Next]_vars PROVE StoreType' OBVIOUS
<1> USE DEF TypeOK, StoreType
<1>0. DenyAll(Zero, FALSE) \in Snapshot BY DEF DenyAll, Snapshot, Zero
<1>1. CASE UNCHANGED <<alive, store>> BY <1>1 DEF store
<1>2. ASSUME NEW p \in Requests, SwapLastStat(p) PROVE StoreType'
  BY <1>2 DEF SwapLastStat, LocalType
<1>3. ASSUME NEW p \in Requests, TakeFlag(p) PROVE StoreType'
  BY <1>3 DEF TakeFlag
<1>4. ASSUME NEW p \in Requests, StoreDenied(p) PROVE StoreType'
  BY <1>4, <1>0 DEF StoreDenied
<1>5. ASSUME NEW l \in Loaders, FinishFailed(l) PROVE StoreType'
  BY <1>5 DEF FinishFailed, LocalType, Load
<1>6. ASSUME NEW l \in Loaders, FinishLoaded(l) PROVE StoreType'
  BY <1>6 DEF FinishLoaded, LocalType, Load
<1>7. ASSUME NEW l \in Loaders, Recover(l) PROVE StoreType'
  BY <1>7, <1>0 DEF Recover
<1>8. ASSUME NEW l \in Loaders, Unwind(l) PROVE StoreType'
  <2>1. alive' \in BOOLEAN BY <1>8 DEF Unwind
  <2>2. reloading' \in BOOLEAN BY <1>8 DEF Unwind
  <2> QED BY <1>8, <2>1, <2>2 DEF Unwind
<1>9. ASSUME NEW l \in Loaders, Release(l) PROVE StoreType'
  BY <1>9 DEF Release
<1>10. ASSUME NEW p \in Requests,
              \/ Begin(p) \/ LoadLastStat(p) \/ StatPath(p) \/ CompareSig(p)
              \/ CheckDenied(p) \/ RejectMalformed(p)
              \/ \E k \in Keys : LookUp(p, k)
       PROVE  UNCHANGED <<alive, store>>
  BY <1>10 DEF Begin, LoadLastStat, StatPath, CompareSig, CheckDenied,
               RejectMalformed, LookUp, Answer
<1>11. ASSUME NEW l \in Loaders,
              AttemptStat(l) \/ AttemptRead(l) \/ WarnRetry(l) \/ Wake(l)
       PROVE  UNCHANGED <<alive, store>>
  BY <1>11 DEF AttemptStat, AttemptRead, WarnRetry, Wake
<1>12. CASE World
  BY <1>12, <1>1 DEF World, ChangeFile, ChangeParent, ChangeFault, Tick, StepBack
<1>13. CASE UNCHANGED vars BY <1>13, <1>1 DEF vars
<1> QED
  BY <1>1, <1>2, <1>3, <1>4, <1>5, <1>6, <1>7, <1>8, <1>9, <1>10, <1>11,
     <1>12, <1>13
  DEF Next, GateStep, LoadStep

\* The variables of the store keep their types, for any number of requests.
THEOREM TypeCorrect == Spec => []TypeOK
<1>1. TypeOK /\ [Next]_vars => TypeOK'
  BY WorldTypeStep, StoreTypeStep, LocalTypeStep DEF TypeOK
<1> QED BY TypeInit, <1>1, PTL DEF Spec

-----------------------------------------------------------------------------
(***************************************************************************)
(* The inductive invariant.  SingleFlight is inductive given the types.    *)
(* The rest says where keys come from: a load result holds keys of the     *)
(* version it was read from, which is no older than its signature; while a *)
(* load is in flight nobody else installs one, so its version is no older  *)
(* than the installed one when it is stored; and the snapshot inherits     *)
(* both facts.                                                             *)
(***************************************************************************)
KeysOf(v) == IF v = 0 THEN {} ELSE files[v].keys

\* keys granted under signature s were read at version v or before it was known.
Sourced(keys, s, v) ==
    /\ v <= Newest
    /\ keys \subseteq KeysOf(v)
    /\ s <= v
    /\ s < 0 => keys = {}

LoadOK(l) ==
    /\ sig[l] <= Newest
    /\ pc[l] = "read" => sig[l] >= 0
    /\ Sourced(load[l].snap.keys, load[l].snap.sig, load[l].ver)
    /\ pc[l] = "finish" => installed <= load[l].ver
    /\ pc[l] \in {"release", "unwind"} =>
           /\ load[l].snap.sig <= installed
           /\ snap.keys \subseteq load[l].snap.keys

LoadInv == \A l \in Loaders : LoadOK(l)

SnapInv == Sourced(snap.keys, snap.sig, installed)

\* A request holds no signature before its own stat has succeeded.
GateInv ==
    \A p \in Requests :
        pc[p] \in Answered \cup {"last", "cas", "stat", "statFailed", "denyStore"}
            => sig[p] = Zero

IInv == TypeOK /\ SingleFlight /\ LoadInv /\ SnapInv /\ GateInv /\ FreshAfterStat

\* A step that moves nobody into or out of a cycle keeps single flight.
LEMMA FlightFrame ==
    ASSUME SingleFlight, UNCHANGED <<alive, reloading>>,
           \A m \in Loaders : Loading(m)' <=> Loading(m)
    PROVE  SingleFlight'
BY DEF SingleFlight

LEMMA FlightInit == Init => SingleFlight
BY ActorsAssumption DEF Init, SingleFlight, Loading, LoadPCs

LEMMA FlightStep == TypeOK /\ SingleFlight /\ [Next]_vars => SingleFlight'
<1> SUFFICES ASSUME TypeOK, SingleFlight, [Next]_vars PROVE SingleFlight'
  OBVIOUS
<1> USE DEF TypeOK, LocalType, Loading, LoadPCs, Answered, GatePCs, Goto
<1>1. ASSUME NEW p \in Requests, TakeFlag(p), alive PROVE SingleFlight'
  <2>1. CASE reloading
    BY <1>1, <2>1, FlightFrame DEF TakeFlag
  <2>2. CASE ~reloading
    <3>1. \A m \in Loaders : ~Loading(m) BY <1>1, <2>2 DEF SingleFlight
    <3>2. \A m \in Loaders : Loading(m)' <=> m = p
      BY <1>1, <2>2, <3>1 DEF TakeFlag
    <3> QED BY <1>1, <2>2, <3>2 DEF TakeFlag, SingleFlight
  <2> QED BY <2>1, <2>2
<1>2. ASSUME NEW l \in Loaders, WarnRetry(l) PROVE SingleFlight'
  <2>1. CASE Goto(l, "recover") \/ Goto(l, "sleep")
    BY <1>2, <2>1, FlightFrame DEF WarnRetry, store
  <2>2. ASSUME NEW g \in Retriers, pc[g] = "idle",
               pc' = [pc EXCEPT ![l] = "lookup", ![g] = "sleep"]
        PROVE  SingleFlight'
    <3>1. \A m \in Loaders : Loading(m) <=> m = l
      BY <1>2 DEF WarnRetry, SingleFlight
    <3>2. \A m \in Loaders : Loading(m)' <=> m = g
      BY <1>2, <2>2, <3>1 DEF WarnRetry
    <3> QED BY <1>2, <3>1, <3>2 DEF WarnRetry, SingleFlight, store
  <2> QED BY <1>2, <2>1, <2>2 DEF WarnRetry
<1>3. ASSUME NEW l \in Loaders, Unwind(l) \/ Release(l) PROVE SingleFlight'
  <2>1. \A m \in Loaders : Loading(m) => m = l
    BY <1>3 DEF Unwind, Release, SingleFlight
  <2>2. \A m \in Loaders : ~Loading(m)'
    BY <1>3, <2>1 DEF Unwind, Release
  <2>3. reloading' = FALSE BY <1>3 DEF Unwind, Release
  <2> QED BY <2>2, <2>3 DEF SingleFlight
<1>4. ASSUME NEW p \in Requests,
             \/ Begin(p) \/ LoadLastStat(p) \/ SwapLastStat(p) \/ StatPath(p)
             \/ CompareSig(p) \/ CheckDenied(p) \/ StoreDenied(p)
             \/ RejectMalformed(p) \/ \E k \in Keys : LookUp(p, k)
      PROVE  SingleFlight'
  <2>1. UNCHANGED <<alive, reloading>>
    BY <1>4 DEF Begin, LoadLastStat, SwapLastStat, StatPath, CompareSig,
                CheckDenied, StoreDenied, RejectMalformed, LookUp, Answer, store
  <2>2. \E x \in PCs \ LoadPCs : pc' = [pc EXCEPT ![p] = x]
    BY <1>4 DEF Begin, LoadLastStat, SwapLastStat, StatPath, CompareSig,
                CheckDenied, StoreDenied, RejectMalformed, LookUp, Answer, PCs
  <2>3. ~Loading(p)
    BY <1>4 DEF Begin, LoadLastStat, SwapLastStat, StatPath, CompareSig,
                CheckDenied, StoreDenied, RejectMalformed, LookUp, Answer
  <2>4. \A m \in Loaders : Loading(m)' <=> Loading(m)
    BY <2>2, <2>3
  <2> QED BY <2>1, <2>4, FlightFrame
<1>5. ASSUME NEW l \in Loaders,
             \/ AttemptStat(l) \/ AttemptRead(l) \/ Wake(l)
             \/ FinishFailed(l) \/ FinishLoaded(l) \/ Recover(l)
      PROVE  SingleFlight'
  <2>1. UNCHANGED <<alive, reloading>>
    BY <1>5 DEF AttemptStat, AttemptRead, Wake, FinishFailed, FinishLoaded,
                Recover, store
  <2>2. \E x \in LoadPCs : pc' = [pc EXCEPT ![l] = x]
    BY <1>5 DEF AttemptStat, AttemptRead, Wake, FinishFailed, FinishLoaded,
                Recover, Attempted
  <2>3. Loading(l)
    BY <1>5 DEF AttemptStat, AttemptRead, Wake, FinishFailed, FinishLoaded,
                Recover
  <2>4. \A m \in Loaders : Loading(m)' <=> Loading(m)
    BY <2>2, <2>3
  <2> QED BY <2>1, <2>4, FlightFrame
<1>6. CASE World \/ UNCHANGED vars
  BY <1>6, FlightFrame
  DEF World, ChangeFile, ChangeParent, ChangeFault, Tick, StepBack, vars,
      local, store
<1> QED BY <1>1, <1>2, <1>3, <1>4, <1>5, <1>6 DEF Next, GateStep, LoadStep

\* Reloads are single-flight (reload.go:76), however many requests verify.
THEOREM SingleFlightHolds == Spec => []SingleFlight
<1>1. Spec => [](TypeOK /\ SingleFlight)
  <2>1. Init => TypeOK /\ SingleFlight BY TypeInit, FlightInit
  <2>2. TypeOK /\ SingleFlight /\ [Next]_vars => (TypeOK /\ SingleFlight)'
    BY WorldTypeStep, StoreTypeStep, LocalTypeStep, FlightStep DEF TypeOK
  <2> QED BY <2>1, <2>2, PTL DEF Spec
<1> QED BY <1>1, PTL

-----------------------------------------------------------------------------
(***************************************************************************)
(* Where keys come from: the rest of the inductive invariant.              *)
(***************************************************************************)

\* Versions are immutable: the path only gains new ones.
LEMMA FilesGrow ==
    ASSUME TypeOK, [Next]_vars
    PROVE  Newest <= Newest' /\ \A v \in 1 .. Newest : files'[v] = files[v]
<1> USE DEF TypeOK, WorldType, Newest
<1>1. CASE UNCHANGED files BY <1>1
<1>2. CASE ChangeFile BY <1>2 DEF ChangeFile
<1> QED BY <1>1, <1>2, WorldFrame
        DEF World, ChangeParent, ChangeFault, Tick, StepBack, vars, world

\* What was read from a version stays so.
LEMMA SourcedStays ==
    ASSUME TypeOK, [Next]_vars,
           NEW keys \in SUBSET Keys, NEW s \in Int, NEW v \in Nat,
           Sourced(keys, s, v)
    PROVE  Sourced(keys, s, v)'
<1>1. Newest \in Nat /\ Newest' \in Nat /\ Newest <= Newest'
  BY FilesGrow, CurrentType, WorldTypeStep DEF Newest, WorldType
<1>2. v <= Newest' BY <1>1 DEF Sourced
<1>3. KeysOf(v)' = KeysOf(v)
  <2>1. CASE v = 0 BY <2>1 DEF KeysOf
  <2>2. CASE v # 0
    <3>1. v \in 1 .. Newest BY <1>1, <2>2 DEF Sourced
    <3> QED BY <2>2, <3>1, FilesGrow DEF KeysOf
  <2> QED BY <2>1, <2>2
<1> QED BY <1>2, <1>3 DEF Sourced

\* Every result of an attempt that stat'ed s is read from the newest version.
LEMMA ResultsSourced ==
    ASSUME TypeOK, NEW s \in Int, s <= Newest
    PROVE  /\ Sourced(Failed(s).snap.keys, Failed(s).snap.sig, Failed(s).ver)
           /\ Sourced(Gone.snap.keys, Gone.snap.sig, Gone.ver)
           /\ s >= 0 => Sourced(Parsed(s).snap.keys, Parsed(s).snap.sig,
                                Parsed(s).ver)
           /\ Failed(s).ver = Newest /\ Gone.ver = Newest
           /\ Parsed(s).ver = Newest
<1>1. Newest \in Nat /\ Newest # 0 /\ Missing <= Newest
  BY CurrentType DEF Missing
<1>2. Unexpired(Current.keys) \subseteq KeysOf(Newest)
  BY <1>1 DEF KeysOf, Current, Unexpired
<1> QED BY <1>1, <1>2 DEF Sourced, Failed, Gone, Parsed, DenyAll

LEMMA NoLoadSourced ==
    ASSUME TypeOK
    PROVE  Sourced(NoLoad.snap.keys, NoLoad.snap.sig, NoLoad.ver)
BY CurrentType DEF Sourced, NoLoad, DenyAll, Zero, KeysOf

\* A goroutine that does not move, while the others change the snapshot only
\* as far as a goroutine in its place has to bear.
LEMMA LoadFrame ==
    ASSUME TypeOK, [Next]_vars, NEW m \in Loaders, LoadOK(m),
           load'[m] = load[m], sig'[m] = sig[m], pc'[m] = pc[m],
           \/ pc[m] \notin {"finish", "release", "unwind"}
           \/ installed' = installed /\ snap'.keys \subseteq snap.keys
    PROVE  LoadOK(m)'
<1>1. Newest \in Nat /\ Newest' \in Nat /\ Newest <= Newest'
  BY FilesGrow, CurrentType, WorldTypeStep DEF Newest, WorldType
<1>2. /\ load[m].snap.keys \in SUBSET Keys
      /\ load[m].snap.sig \in Int
      /\ load[m].ver \in Nat
      /\ sig[m] \in Int
  BY DEF TypeOK, LocalType, Load, Snapshot
<1>3. Sourced(load[m].snap.keys, load[m].snap.sig, load[m].ver)' 
  BY <1>2, SourcedStays, SMT DEF LoadOK
<1> QED BY <1>1, <1>2, <1>3 DEF LoadOK

\* A goroutine that is not about to read, store or release.
LEMMA LoadElsewhere ==
    ASSUME TypeOK, [Next]_vars, NEW m \in Loaders, LoadOK(m),
           load'[m] = load[m] \/ load'[m] = NoLoad,
           sig'[m] <= Newest \/ sig'[m] <= Newest',
           sig'[m] \in Int,
           pc'[m] \notin {"read", "finish", "release", "unwind"}
    PROVE  LoadOK(m)'
<1>1. Newest \in Nat /\ Newest' \in Nat /\ Newest <= Newest'
  BY FilesGrow, CurrentType, WorldTypeStep DEF Newest, WorldType
<1>2. /\ load[m].snap.keys \in SUBSET Keys
      /\ load[m].snap.sig \in Int
      /\ load[m].ver \in Nat
  BY DEF TypeOK, LocalType, Load, Snapshot
<1>3. Sourced(load[m].snap.keys, load[m].snap.sig, load[m].ver)'
  <2>1. CASE load'[m] = load[m]
    BY <1>2, <2>1, SourcedStays, SMT DEF LoadOK
  <2>2. CASE load'[m] = NoLoad
    <3>1. Sourced({}, 0, 0)' BY <1>1 DEF Sourced, KeysOf
    <3> QED BY <2>2, <3>1 DEF NoLoad, DenyAll, Zero
  <2> QED BY <2>1, <2>2
<1> QED BY <1>1, <1>3 DEF LoadOK

LEMMA LoadInvGate ==
    ASSUME IInv, [Next]_vars, NEW p \in Requests, Begin(p) \/ GateStep(p)
    PROVE  LoadInv'
<1> USE DEF IInv, TypeOK
<1>1. UNCHANGED <<files, installed, load>> /\ snap'.keys \subseteq snap.keys
  BY DEF Begin, GateStep, LoadLastStat, SwapLastStat, StatPath, CompareSig,
         TakeFlag, CheckDenied, StoreDenied, RejectMalformed, LookUp, Answer,
         world, store, DenyAll
<1>2. \E x \in PCs \ {"read", "finish", "release", "unwind"} :
         pc' = [pc EXCEPT ![p] = x]
  BY DEF Begin, GateStep, LoadLastStat, SwapLastStat, StatPath, CompareSig,
         TakeFlag, CheckDenied, StoreDenied, RejectMalformed, LookUp, Answer,
         Goto, PCs, Answered, GatePCs, LoadPCs
<1>3. sig' = sig \/ \E z \in {PathSig, Zero} : sig' = [sig EXCEPT ![p] = z]
  BY DEF Begin, GateStep, LoadLastStat, SwapLastStat, StatPath, CompareSig,
         TakeFlag, CheckDenied, StoreDenied, RejectMalformed, LookUp, Answer
<1>4. PathSig <= Newest /\ Zero <= Newest /\ PathSig \in Int
  BY CurrentType DEF PathSig, Missing, Zero
<1>5. ASSUME NEW m \in Loaders PROVE LoadOK(m)'
  <2>1. LoadOK(m) BY DEF LoadInv
  <2>2. CASE m # p
    BY <1>1, <1>2, <1>3, <2>1, <2>2, LoadFrame DEF LocalType
  <2>3. CASE m = p
    <3>1. sig'[m] <= Newest /\ sig'[m] \in Int
      BY <1>3, <1>4, <2>1, <2>3 DEF LocalType, LoadOK, Zero
    <3> QED BY <1>1, <1>2, <2>1, <2>3, <3>1, LoadElsewhere DEF LocalType
  <2> QED BY <2>2, <2>3
<1> QED BY <1>5 DEF LoadInv

LEMMA LoadInvWorld ==
    ASSUME IInv, [Next]_vars, World \/ UNCHANGED vars
    PROVE  LoadInv'
<1>1. UNCHANGED <<pc, sig, load, installed, snap>>
  BY DEF World, ChangeFile, ChangeParent, ChangeFault, Tick, StepBack, vars,
         local, store
<1> QED BY <1>1, LoadFrame DEF LoadInv, IInv

\* Inside a cycle, everybody but the one loader is elsewhere.
LEMMA LoadInvOthers ==
    ASSUME IInv, [Next]_vars, NEW l \in Loaders, LoadStep(l),
           NEW m \in Loaders, m # l
    PROVE  LoadOK(m)'
<1> USE DEF IInv, TypeOK
<1>1. Loading(l)
  BY DEF LoadStep, AttemptStat, AttemptRead, WarnRetry, Wake, FinishFailed,
         FinishLoaded, Recover, Unwind, Release, Loading, LoadPCs
<1>2. pc[m] \notin LoadPCs BY <1>1 DEF SingleFlight, Loading
<1>3. LoadOK(m) BY DEF LoadInv
<1>4. load'[m] = load[m] /\ sig'[m] = sig[m]
  BY DEF LoadStep, AttemptStat, AttemptRead, WarnRetry, Wake, FinishFailed,
         FinishLoaded, Recover, Unwind, Release, Attempted, LocalType
<1>5. pc'[m] = pc[m] \/ pc'[m] = "sleep"
  BY DEF LoadStep, AttemptStat, AttemptRead, WarnRetry, Wake, FinishFailed,
         FinishLoaded, Recover, Unwind, Release, Attempted, LocalType, Goto
<1>6. sig[m] <= Newest /\ sig[m] \in Int BY <1>3 DEF LoadOK, LocalType
<1> QED BY <1>2, <1>3, <1>4, <1>5, <1>6, LoadElsewhere DEF LoadPCs

\* attempt returned r, read from the newest version.
LEMMA LoadInvAttempted ==
    ASSUME IInv, [Next]_vars, NEW l \in Loaders, NEW r \in Load,
           Attempted(l, r), sig'[l] = sig[l], installed' = installed,
           Sourced(r.snap.keys, r.snap.sig, r.ver), r.ver = Newest
    PROVE  LoadOK(l)'
<1> USE DEF IInv, TypeOK
<1>1. Newest \in Nat /\ Newest' \in Nat /\ Newest <= Newest'
  BY FilesGrow, CurrentType, WorldTypeStep DEF Newest, WorldType
<1>2. load'[l] = r /\ pc'[l] \in {"finish", "warn"}
  BY DEF Attempted, LocalType, Goto
<1>3. /\ r.snap.keys \in SUBSET Keys
      /\ r.snap.sig \in Int
      /\ r.ver \in Nat
  BY DEF Load, Snapshot
<1>4. Sourced(load[l].snap.keys, load[l].snap.sig, load[l].ver)'
  <2>1. Sourced(r.snap.keys, r.snap.sig, r.ver)' BY <1>3, SourcedStays, SMT
  <2> QED BY <1>2, <2>1
<1>5. installed <= Newest BY DEF SnapInv, Sourced
<1>6. sig[l] <= Newest /\ sig[l] \in Int BY DEF LoadInv, LoadOK, LocalType
<1> QED BY <1>1, <1>2, <1>4, <1>5, <1>6 DEF LoadOK

LEMMA LoadInvLoad ==
    ASSUME IInv, [Next]_vars, NEW l \in Loaders, LoadStep(l)
    PROVE  LoadOK(l)'
<1> USE DEF IInv, TypeOK
<1>0. /\ LoadOK(l) /\ Newest \in Nat /\ Newest >= 1
      /\ installed <= Newest /\ installed \in Nat
      /\ load[l].snap.sig \in Int /\ load[l].ver \in Nat
      /\ load[l].snap.keys \in SUBSET Keys
      /\ sig[l] \in Int /\ sig[l] <= Newest
  BY CurrentType DEF LoadInv, LoadOK, SnapInv, Sourced, StoreType, LocalType,
                     Load, Snapshot
<1>1. CASE AttemptStat(l)
  <2>1. ASSUME NEW r \in {Failed(0), Gone}, Attempted(l, r), UNCHANGED sig
        PROVE  LoadOK(l)'
    <3>1. r \in Load /\ Sourced(r.snap.keys, r.snap.sig, r.ver) /\ r.ver = Newest
      BY <1>0, <2>1, ResultTypes, ResultsSourced
    <3>2. installed' = installed BY <1>1 DEF AttemptStat, store
    <3> QED BY <2>1, <3>1, <3>2, LoadInvAttempted
  <2>2. CASE PathSig # Missing /\ Goto(l, "read")
             /\ sig' = [sig EXCEPT ![l] = PathSig] /\ UNCHANGED load
    <3>1. sig'[l] = Newest /\ pc'[l] = "read" /\ load'[l] = load[l]
      BY <2>2 DEF PathSig, LocalType, Goto
    <3>2. Newest' = Newest BY <1>1 DEF AttemptStat, world, Newest
    <3>3. Sourced(load[l].snap.keys, load[l].snap.sig, load[l].ver)'
      <4>1. Sourced(load[l].snap.keys, load[l].snap.sig, load[l].ver)
        BY <1>0 DEF LoadOK
      <4> QED BY <1>1, <2>2, <4>1 DEF AttemptStat, world, Sourced, KeysOf, Newest
    <3> QED BY <1>0, <3>1, <3>2, <3>3 DEF LoadOK
  <2> QED BY <1>1, <2>1, <2>2 DEF AttemptStat, Zero
<1>2. CASE AttemptRead(l)
  <2>1. sig[l] >= 0 BY <1>0, <1>2 DEF AttemptRead, LoadOK
  <2>2. \E r \in {Failed(Zero), Failed(sig[l]), Gone, Parsed(sig[l])} :
           Attempted(l, r)
    BY <1>2 DEF AttemptRead
  <2>3. PICK r \in {Failed(Zero), Failed(sig[l]), Gone, Parsed(sig[l])} :
           Attempted(l, r)
    BY <2>2
  <2>4. r \in Load /\ Sourced(r.snap.keys, r.snap.sig, r.ver) /\ r.ver = Newest
    BY <1>0, <2>1, ResultTypes, ResultsSourced DEF Zero
  <2>5. sig' = sig /\ installed' = installed
    BY <1>2 DEF AttemptRead, store
  <2> QED BY <2>3, <2>4, <2>5, LoadInvAttempted
<1>3. CASE WarnRetry(l)
  <2>1. pc'[l] \in {"recover", "sleep", "lookup"}
    BY <1>3, ActorsAssumption DEF WarnRetry, LocalType, Goto
  <2> QED BY <1>0, <1>3, <2>1, LoadElsewhere DEF WarnRetry, LocalType, Zero
<1>4. CASE Wake(l)
  BY <1>0, <1>4, LoadElsewhere DEF Wake, LocalType, Goto
<1>5. ASSUME snap' = load[l].snap, installed' = load[l].ver, pc'[l] = "release",
             UNCHANGED <<world, sig, load>>
      PROVE  LoadOK(l)'
  <2>1. Sourced(load[l].snap.keys, load[l].snap.sig, load[l].ver)'
    BY <1>0, <1>5 DEF LoadOK, Sourced, KeysOf, Newest, world
  <2> QED BY <1>0, <1>5, <2>1 DEF LoadOK, Sourced, Newest, world
<1>6. CASE FinishFailed(l)
  <2>1. CASE pc'[l] = "release" /\ snap' = load[l].snap
             /\ installed' = load[l].ver
    BY <1>5, <1>6, <2>1 DEF FinishFailed
  <2>2. CASE pc'[l] = "recover"
    BY <1>0, <1>6, <2>2, LoadElsewhere DEF FinishFailed
  <2> QED BY <1>6, <2>1, <2>2 DEF FinishFailed, Goto, LocalType
<1>7. CASE FinishLoaded(l)
  <2>1. CASE pc'[l] = "release"
    BY <1>5, <1>7, <2>1 DEF FinishLoaded
  <2>2. CASE pc'[l] = "recover"
    BY <1>0, <1>7, <2>2, LoadElsewhere DEF FinishLoaded
  <2> QED BY <1>7, <2>1, <2>2 DEF FinishLoaded, Goto, LocalType
<1>8. CASE Recover(l)
  <2>1. /\ load'[l] = NoLoad /\ snap'.keys = {} /\ sig'[l] = sig[l]
        /\ pc'[l] \in {"release", "unwind"} /\ installed' = installed
        /\ Newest' = Newest
    BY <1>8 DEF Recover, DenyAll, LocalType, Goto, world, Newest
  <2>2. Sourced({}, 0, 0)'
    BY <1>0, <2>1 DEF Sourced, KeysOf
  <2> QED BY <1>0, <2>1, <2>2 DEF LoadOK, NoLoad, DenyAll, Zero
<1>9. CASE Unwind(l)
  BY <1>0, <1>9, LoadElsewhere DEF Unwind, LocalType, Goto, Zero
<1>10. CASE Release(l)
  <2>1. pc'[l] \in {"lookup", "opened", "idle"} /\ load'[l] = NoLoad
    BY <1>10 DEF Release, LocalType, Goto
  <2>2. sig'[l] <= Newest /\ sig'[l] \in Int
    BY <1>0, <1>10 DEF Release, LocalType, LoadOK, Zero
  <2> QED BY <2>1, <2>2, <1>0, LoadElsewhere
<1> QED BY <1>1, <1>2, <1>3, <1>4, <1>6, <1>7, <1>8, <1>9, <1>10 DEF LoadStep

LEMMA LoadInvStep == IInv /\ [Next]_vars => LoadInv'
<1> SUFFICES ASSUME IInv, [Next]_vars PROVE LoadInv' OBVIOUS
<1>1. ASSUME NEW l \in Loaders, LoadStep(l) PROVE LoadInv'
  <2>1. ASSUME NEW m \in Loaders PROVE LoadOK(m)'
    BY <1>1, <2>1, LoadInvLoad, LoadInvOthers
  <2> QED BY <2>1 DEF LoadInv
<1> QED BY <1>1, LoadInvGate, LoadInvWorld DEF Next

LEMMA SnapInvStep == IInv /\ [Next]_vars => SnapInv'
<1> SUFFICES ASSUME IInv, [Next]_vars PROVE SnapInv' OBVIOUS
<1> USE DEF IInv, TypeOK
<1>0. Newest \in Nat /\ Newest' \in Nat /\ Newest <= Newest'
  BY FilesGrow, CurrentType, WorldTypeStep DEF Newest, WorldType
<1>1. CASE UNCHANGED <<snap, installed>>
  <2>1. /\ snap.keys \in SUBSET Keys
        /\ snap.sig \in Int
        /\ installed \in Nat
    BY DEF StoreType, Snapshot
  <2>2. Sourced(snap.keys, snap.sig, installed)'
    BY <1>1, <2>1, SourcedStays, SMT DEF SnapInv
  <2> QED BY <2>2 DEF SnapInv
<1>2. CASE snap' = DenyAll(Zero, FALSE) /\ UNCHANGED installed
  <2>1. installed <= Newest /\ installed \in Nat BY DEF SnapInv, Sourced, StoreType
  <2> QED BY <1>0, <1>2, <2>1 DEF SnapInv, Sourced, DenyAll, Zero
<1>3. ASSUME NEW l \in Loaders, FinishFailed(l) \/ FinishLoaded(l),
             snap' = load[l].snap /\ installed' = load[l].ver
      PROVE  SnapInv'
  <2>1. Sourced(load[l].snap.keys, load[l].snap.sig, load[l].ver)
    BY DEF LoadInv, LoadOK
  <2>2. UNCHANGED files BY <1>3 DEF FinishFailed, FinishLoaded, world
  <2> QED BY <1>3, <2>1, <2>2 DEF SnapInv, Sourced, KeysOf, Newest
<1>4. ASSUME NEW l \in Loaders, LoadStep(l) PROVE SnapInv'
  BY <1>1, <1>2, <1>3, <1>4
  DEF LoadStep, AttemptStat, AttemptRead, WarnRetry, Wake, FinishFailed,
      FinishLoaded, Recover, Unwind, Release, store
<1>5. ASSUME NEW p \in Requests, Begin(p) \/ GateStep(p) PROVE SnapInv'
  BY <1>1, <1>2, <1>5
  DEF Begin, GateStep, LoadLastStat, SwapLastStat, StatPath, CompareSig,
      TakeFlag, CheckDenied, StoreDenied, RejectMalformed, LookUp, Answer, store
<1>6. CASE World \/ UNCHANGED vars
  BY <1>1, <1>6
  DEF World, ChangeFile, ChangeParent, ChangeFault, Tick, StepBack, vars, store
<1> QED BY <1>4, <1>5, <1>6 DEF Next

\* The installed version never goes back.
LEMMA InstalledGrows == IInv /\ [Next]_vars => installed <= installed'
<1> SUFFICES ASSUME IInv, [Next]_vars PROVE installed <= installed' OBVIOUS
<1> USE DEF IInv, TypeOK
<1>1. CASE UNCHANGED installed BY <1>1 DEF StoreType
<1>2. ASSUME NEW l \in Loaders, FinishFailed(l) \/ FinishLoaded(l)
      PROVE  installed <= installed'
  <2>1. installed <= load[l].ver
    BY <1>2 DEF FinishFailed, FinishLoaded, LoadInv, LoadOK
  <2> QED BY <1>1, <1>2, <2>1 DEF FinishFailed, FinishLoaded
<1>3. ASSUME NEW l \in Loaders, LoadStep(l) PROVE installed <= installed'
  BY <1>1, <1>2, <1>3
  DEF LoadStep, AttemptStat, AttemptRead, WarnRetry, Wake, Recover, Unwind,
      Release, store
<1>4. ASSUME NEW p \in Requests, Begin(p) \/ GateStep(p)
      PROVE  installed <= installed'
  BY <1>1, <1>4
  DEF Begin, GateStep, LoadLastStat, SwapLastStat, StatPath, CompareSig,
      TakeFlag, CheckDenied, StoreDenied, RejectMalformed, LookUp, Answer, store
<1>5. CASE World \/ UNCHANGED vars
  BY <1>1, <1>5
  DEF World, ChangeFile, ChangeParent, ChangeFault, Tick, StepBack, vars, store
<1> QED BY <1>3, <1>4, <1>5 DEF Next

\* A step of somebody else leaves a request where it is.
LEMMA OthersStay ==
    ASSUME TypeOK, [Next]_vars, NEW p \in Requests,
           ~(Begin(p) \/ GateStep(p) \/ LoadStep(p))
    PROVE  pc'[p] = pc[p] /\ sig'[p] = sig[p]
<1> USE DEF TypeOK, LocalType, Goto
<1>1. ASSUME NEW q \in Requests, q # p, Begin(q) \/ GateStep(q)
      PROVE  pc'[p] = pc[p] /\ sig'[p] = sig[p]
  BY <1>1
  DEF Begin, GateStep, LoadLastStat, SwapLastStat, StatPath, CompareSig,
      TakeFlag, CheckDenied, StoreDenied, RejectMalformed, LookUp, Answer
<1>2. ASSUME NEW l \in Loaders, l # p, LoadStep(l)
      PROVE  pc'[p] = pc[p] /\ sig'[p] = sig[p]
  BY <1>2, ActorsAssumption
  DEF LoadStep, AttemptStat, AttemptRead, WarnRetry, Wake, FinishFailed,
      FinishLoaded, Recover, Unwind, Release, Attempted
<1>3. CASE World \/ UNCHANGED vars
  BY <1>3 DEF World, ChangeFile, ChangeParent, ChangeFault, Tick, StepBack,
              vars, local
<1> QED BY <1>1, <1>2, <1>3 DEF Next

LEMMA GateInvStep == IInv /\ [Next]_vars => GateInv'
<1> SUFFICES ASSUME IInv, [Next]_vars, NEW p \in Requests,
                    pc'[p] \in Answered \cup {"last", "cas", "stat",
                                              "statFailed", "denyStore"}
             PROVE  sig'[p] = Zero
  BY DEF GateInv
<1> USE DEF IInv, TypeOK, LocalType, Goto, GateInv, Answered
<1>1. CASE Begin(p) BY <1>1 DEF Begin
<1>2. CASE GateStep(p)
  BY <1>2
  DEF GateStep, LoadLastStat, SwapLastStat, StatPath, CompareSig, TakeFlag,
      CheckDenied, StoreDenied, RejectMalformed, LookUp, Answer
<1>3. CASE LoadStep(p)
  BY <1>3, ActorsAssumption
  DEF LoadStep, AttemptStat, AttemptRead, WarnRetry, Wake, FinishFailed,
      FinishLoaded, Recover, Unwind, Release, Attempted
<1>4. CASE ~(Begin(p) \/ GateStep(p) \/ LoadStep(p))
  BY <1>4, OthersStay
<1> QED BY <1>1, <1>2, <1>3, <1>4

LEMMA FreshStep == IInv /\ [Next]_vars => FreshAfterStat'
<1> SUFFICES ASSUME IInv, [Next]_vars, NEW p \in Requests, pc'[p] = "lookup"
             PROVE  sig'[p] <= installed'
  BY DEF FreshAfterStat
<1> USE DEF IInv, TypeOK
<1>0. /\ installed \in Nat /\ installed' \in Nat /\ installed <= installed'
      /\ sig[p] \in Int /\ snap.sig \in Int
  BY InstalledGrows, StoreTypeStep DEF StoreType, LocalType, Snapshot
<1>1. CASE pc[p] = "lookup" /\ sig'[p] = sig[p]
  BY <1>0, <1>1 DEF FreshAfterStat
<1>2. CASE sig'[p] = Zero BY <1>0, <1>2 DEF Zero
<1>3. CASE CompareSig(p)
  <2>1. sig'[p] = sig[p] /\ sig[p] = snap.sig
    BY <1>3 DEF CompareSig, Goto, LocalType
  <2>2. snap.sig <= installed BY DEF SnapInv, Sourced
  <2> QED BY <1>0, <2>1, <2>2
<1>4. CASE Release(p)
  <2>1. sig'[p] = load[p].snap.sig BY <1>4 DEF Release, LocalType
  <2>2. load[p].snap.sig <= installed BY <1>4 DEF Release, LoadInv, LoadOK
  <2>3. load[p].snap.sig \in Int BY DEF LocalType, Load, Snapshot
  <2> QED BY <1>0, <2>1, <2>2, <2>3
<1>5. CASE GateStep(p) /\ ~CompareSig(p)
  BY <1>2, <1>5
  DEF GateStep, LoadLastStat, SwapLastStat, StatPath, TakeFlag, CheckDenied,
      StoreDenied, RejectMalformed, LookUp, Answer, GateInv, Goto, LocalType
<1>6. CASE LoadStep(p) /\ ~Release(p)
  BY <1>2, <1>6, ActorsAssumption
  DEF LoadStep, AttemptStat, AttemptRead, WarnRetry, Wake, FinishFailed,
      FinishLoaded, Recover, Unwind, Attempted, Goto, LocalType
<1>7. CASE Begin(p) BY <1>2, <1>7 DEF Begin, GateInv, Goto, LocalType
<1>8. CASE ~(Begin(p) \/ GateStep(p) \/ LoadStep(p))
  BY <1>1, <1>8, OthersStay
<1> QED BY <1>3, <1>4, <1>5, <1>6, <1>7, <1>8

LEMMA IInvInit == Init => IInv
<1> SUFFICES ASSUME Init PROVE IInv OBVIOUS
<1>1. TypeOK BY TypeInit
<1>2. Newest \in Nat BY <1>1, CurrentType
<1>3. SnapInv
  BY <1>2 DEF Init, SnapInv, Sourced, DenyAll, KeysOf, Zero
<1>4. LoadInv
  BY <1>1, <1>2, NoLoadSourced DEF Init, LoadInv, LoadOK, Zero
<1>5. GateInv BY DEF Init, GateInv
<1>6. FreshAfterStat BY DEF Init, FreshAfterStat, Zero
<1> QED BY <1>1, <1>3, <1>4, <1>5, <1>6, FlightInit DEF IInv

LEMMA IInvStep == IInv /\ [Next]_vars => IInv'
BY WorldTypeStep, StoreTypeStep, LocalTypeStep, FlightStep, LoadInvStep,
   SnapInvStep, GateInvStep, FreshStep
DEF IInv, TypeOK

THEOREM Inductive == Spec => []IInv
BY IInvInit, IInvStep, PTL DEF Spec

-----------------------------------------------------------------------------
(***************************************************************************)
(* What the invariant gives.                                               *)
(***************************************************************************)

\* A snapshot under the path's present signature grants only keys the file
\* holds now (reload.go:14), whatever is written while a load is running.
THEOREM SigPinsContentHolds == Spec => []SigPinsContent
<1>1. IInv => SigPinsContent
  <2> SUFFICES ASSUME IInv, snap.sig = PathSig
               PROVE  snap.keys \subseteq Current.keys
    BY DEF SigPinsContent
  <2>1. Newest \in Nat /\ Newest >= 1 BY CurrentType DEF IInv
  <2>2. CASE Current.kind = "missing"
    BY <2>2 DEF PathSig, Missing, IInv, SnapInv, Sourced
  <2>3. CASE Current.kind # "missing"
    <3>1. installed = Newest
      BY <2>1, <2>3 DEF PathSig, IInv, SnapInv, Sourced, TypeOK, StoreType
    <3> QED BY <2>1, <3>1 DEF IInv, SnapInv, Sourced, KeysOf, Current
  <2> QED BY <2>2, <2>3
<1> QED BY <1>1, Inductive, PTL

\* A request whose stat the snapshot covers is answered from that version or a
\* later one, however the others interleave.
THEOREM FreshAfterStatHolds == Spec => []FreshAfterStat
<1>1. IInv => FreshAfterStat BY DEF IInv
<1> QED BY <1>1, Inductive, PTL

\* A cycle leaves nothing that its last read did not find: no keep-last-good
\* (doc.go:76).
THEOREM CycleOutcomeHolds == Spec => []CycleOutcome
<1>1. IInv => CycleOutcome BY DEF IInv, LoadInv, LoadOK, CycleOutcome
<1> QED BY <1>1, Inductive, PTL

\* A key that no version since the request's own stat holds is not accepted, and
\* an expired one never (keyfile.go:262).
THEOREM RevokedIsRejectedHolds == Spec => RevokedIsRejected
<1>1. IInv /\ [Next]_vars =>
        [\A p \in Requests, k \in Keys :
            LookUp(p, k) /\ pc'[p] = "accepted"
              => /\ clock < Expires[k]
                 /\ \E v \in 1 .. Newest : sig[p] <= v /\ k \in files[v].keys]_vars
  <2> SUFFICES ASSUME IInv, NEW p \in Requests, NEW k \in Keys,
                      LookUp(p, k), pc'[p] = "accepted"
               PROVE  /\ clock < Expires[k]
                      /\ \E v \in 1 .. Newest : sig[p] <= v /\ k \in files[v].keys
    OBVIOUS
  <2>1. k \in snap.keys /\ clock < Expires[k]
    BY DEF LookUp, Answer, Goto, IInv, TypeOK, LocalType
  <2>2. sig[p] <= installed BY DEF LookUp, Answer, IInv, FreshAfterStat
  <2>3. k \in KeysOf(installed) /\ installed <= Newest
    BY <2>1 DEF IInv, SnapInv, Sourced
  <2>4. installed \in 1 .. Newest
    BY <2>3, CurrentType DEF KeysOf, IInv, TypeOK, StoreType
  <2> QED BY <2>1, <2>2, <2>3, <2>4 DEF KeysOf
<1> QED BY <1>1, Inductive, PTL DEF Spec, RevokedIsRejected

\* The store implements KeyAuthority: its keys come from one version of the
\* file and versions never go back.
THEOREM AuthorityHolds == Spec => Authority
<1>1. Init => Promise!Init BY DEF Init, Promise!Init, DenyAll
<1>2. IInv /\ [Next]_vars => [Promise!Next]_(Promise!vars)
  <2> SUFFICES ASSUME IInv, [Next]_vars
               PROVE  [Promise!Next]_(Promise!vars)
    OBVIOUS
  <2>0. installed <= installed' /\ SnapInv' /\ TypeOK
    BY InstalledGrows, IInvStep DEF IInv
  <2>1. ASSUME UNCHANGED files PROVE Promise!Install
    <3>1. installed' \in installed .. Len(files)
      BY <2>0, <2>1, StoreTypeStep
      DEF SnapInv, Sourced, Newest, TypeOK, StoreType
    <3>2. snap'.keys \subseteq Promise!KeysOf(installed')
      BY <2>0, <2>1 DEF SnapInv, Sourced, KeysOf, Promise!KeysOf
    <3> QED BY <2>1, <3>1, <3>2 DEF Promise!Install
  <2>2. CASE ChangeFile
    BY <2>2 DEF ChangeFile, store, Promise!Publish, Promise!Next
  <2>3. CASE ~ChangeFile
    <3>1. UNCHANGED files
      BY <2>3, WorldFrame
      DEF World, ChangeParent, ChangeFault, Tick, StepBack, vars, world
    <3> QED BY <2>1, <3>1 DEF Promise!Next
  <2> QED BY <2>2, <2>3
<1> QED BY <1>1, <1>2, Inductive, PTL DEF Spec, Authority, Promise!Spec
=============================================================================
