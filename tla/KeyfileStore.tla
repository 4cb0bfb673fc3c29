---------------------------- MODULE KeyfileStore ----------------------------
(***************************************************************************)
(* The reload protocol of keyfile.Store (keyfile/reload.go and the verify  *)
(* path of keyfile/keyfile.go).                                            *)
(*                                                                         *)
(* Every verification runs maybeReload in its own goroutine: a stat gate   *)
(* kept by a compare-and-swap, an lstat of the path, a comparison with the *)
(* signature of the current snapshot, a compare-and-swap of the reloading  *)
(* flag, and then an inline load.  A load that fails is handed to a        *)
(* background goroutine that holds the flag for one retry.  No lock is     *)
(* ever taken: each read or write of a shared atomic is a step of its own  *)
(* here.  Around the store the file is edited and removed, its directory   *)
(* changes mode, system calls fail, consumer code (the logger) panics and  *)
(* the wall clock moves, both ways.                                        *)
(*                                                                         *)
(* Logging, the reject counters and the lookup and reload counters (which  *)
(* no branch reads) are left out.                                          *)
(***************************************************************************)
EXTENDS Integers, Sequences

CONSTANTS
    Requests,       \* goroutines that verify a token
    Retriers,       \* background goroutines a failed inline load may start
    Opener,         \* the goroutine that runs Open
    Keys,           \* key digests
    Expires,        \* Expires[k]: the wall-clock time at which k expires
    StatTTL,        \* statTTL, in clock ticks; 0 disables the gate
    Faults,         \* what can go wrong around the store
    ClockMaySlip,   \* whether the wall clock may be set back
    MaxClock,       \* bound: last reading of the wall clock
    MaxVersion      \* bound: number of states the path goes through

Actors  == Requests \cup Retriers \cup {Opener}
Loaders == Actors

ASSUME ActorsAssumption == /\ Requests \cap Retriers = {}
                           /\ Opener \notin Requests \cup Retriers
ASSUME TimeAssumption == /\ StatTTL \in Nat
                         /\ MaxClock \in Nat
                         /\ StatTTL <= MaxClock
                         /\ ClockMaySlip \in BOOLEAN
                         /\ Expires \in [Keys -> Int]
ASSUME FaultAssumption == Faults \subseteq {"stat", "read", "panic", "parent"}
ASSUME VersionAssumption == MaxVersion \in Nat \ {0}

VARIABLES
    files,      \* every state the path went through, the current one last
    parentBad,  \* the directory is group- or world-writable
    fault,      \* what fails now: "none", the "stat", the "read", or the
                \* logger, which is consumer code and may "panic"
    clock,      \* the wall clock
    alive,      \* the process has not been killed by an unrecovered panic
    snap,       \* s.snap: the current snapshot
    installed,  \* ghost: the version the last installed load was read from
    reloading,  \* s.reloading: the single-flight flag
    lastStat,   \* s.lastStatNS
    pc,         \* where each goroutine is
    now,        \* statDue's local now
    last,       \* statDue's local last
    sig,        \* the local sig of maybeReload, then of attempt
    load,       \* attempt's result on its way to finish
    slept       \* Open's load is on its second attempt

world == <<files, parentBad, fault, clock>>
store == <<snap, installed, reloading, lastStat>>
local == <<pc, now, last, sig, load, slept>>
vars  == <<world, alive, store, local>>

(***************************************************************************)
(* The file.  A version is an index into files and stands for one (inode,  *)
(* mtime, ctime, size): every change of the path gives it a new one.  A    *)
(* "bad" file is refused by checkFile or fails to parse as a whole; keys   *)
(* are the entries of a "valid" file that survive validation, expiry apart.*)
(***************************************************************************)
FileState == [kind : {"missing", "bad", "valid"}, keys : SUBSET Keys]
WellFormedFile(f) == f.kind # "valid" => f.keys = {}
Contents == {f \in FileState : WellFormedFile(f)}

Newest  == Len(files)
Current == files[Newest]

\* Signatures: a version, or one of the two that belong to no version.
Zero    == 0        \* fileSig{}, which never matches the path
Missing == -1       \* fileSig{missing: true}
PathSig == IF Current.kind = "missing" THEN Missing ELSE Newest

(***************************************************************************)
(* Snapshots and load results.                                             *)
(***************************************************************************)
Snapshot == [keys : SUBSET Keys, sig : Int, ok : BOOLEAN]
DenyAll(s, ok) == [keys |-> {}, sig |-> s, ok |-> ok]

\* A load: the snapshot attempt returned (ok is false when it also returned
\* an error) and the version the path had when the outcome was decided.
Load == [snap : Snapshot, ver : Nat]
Failed(s) == [snap |-> DenyAll(s, FALSE), ver |-> Newest]
Gone == [snap |-> DenyAll(Missing, TRUE), ver |-> Newest]
NoLoad == [snap |-> DenyAll(Zero, FALSE), ver |-> 0]

\* Entries that have expired by now are dropped while the file is parsed.
Unexpired(ks) == {k \in ks : clock < Expires[k]}
Parsed(s) == [snap |-> [keys |-> Unexpired(Current.keys), sig |-> s, ok |-> TRUE],
              ver |-> Newest]

-----------------------------------------------------------------------------
\* Where a goroutine can be; a request that is "idle", "accepted" or
\* "rejected" is not running, its last verification ended that way.
Answered  == {"idle", "accepted", "rejected"}
GatePCs   == {"last", "cas", "stat", "compare", "flag"}
LoadPCs   == {"attempt", "read", "warn", "sleep", "finish", "recover",
              "release", "unwind"}
PCs == Answered \cup GatePCs \cup LoadPCs
         \cup {"statFailed", "denyStore", "lookup", "opened"}

Goto(a, place) == pc' = [pc EXCEPT ![a] = place]

Init ==
    /\ files \in {<<f>> : f \in Contents}
    /\ parentBad \in BOOLEAN /\ (parentBad => "parent" \in Faults)
    /\ fault = "none"
    /\ clock = StatTTL
    /\ alive = TRUE
    /\ snap = DenyAll(Zero, FALSE)
    /\ installed = 0
    /\ reloading = TRUE
    /\ lastStat = 0
    /\ pc = [a \in Actors |-> IF a = Opener THEN "attempt" ELSE "idle"]
    /\ now = [p \in Requests |-> 0]
    /\ last = [p \in Requests |-> 0]
    /\ sig = [a \in Actors |-> Zero]
    /\ load = [a \in Actors |-> NoLoad]
    /\ slept = FALSE

-----------------------------------------------------------------------------
(***************************************************************************)
(* maybeReload up to the single-flight flag.                               *)
(***************************************************************************)

\* A request enters verify once Open has returned; statDue reads the clock.
Begin(p) ==
    /\ alive
    /\ pc[Opener] = "opened"
    /\ pc[p] \in Answered
    /\ IF StatTTL = 0
         THEN Goto(p, "stat") /\ UNCHANGED now
         ELSE Goto(p, "last") /\ now' = [now EXCEPT ![p] = clock]
    /\ UNCHANGED <<world, alive, store, last, sig, load, slept>>

\* Mutant of ElapsedDue: a clock that was set back keeps the gate shut.
ElapsedDueForwardOnly(t, prev, every) == t - prev >= every

\* A negative delta counts as due: the wall clock was set back.
ElapsedDue(t, prev, every) == t - prev < 0 \/ t - prev >= every

\* statDue loads lastStatNS and decides whether the gate is open.
LoadLastStat(p) ==
    /\ pc[p] = "last"
    /\ IF ElapsedDue(now[p], lastStat, StatTTL)
         THEN /\ Goto(p, "cas")
              /\ last' = [last EXCEPT ![p] = lastStat]
              /\ UNCHANGED now
         ELSE /\ Goto(p, "lookup")
              /\ now' = [now EXCEPT ![p] = 0]
              /\ UNCHANGED last
    /\ UNCHANGED <<world, alive, store, sig, load, slept>>

\* Mutant of SwapLastStat: the time of the next stat is stored, not of this one.
SwapLastStatAhead(p) ==
    /\ pc[p] = "cas"
    /\ IF lastStat = last[p]
         THEN lastStat' = now[p] + StatTTL /\ Goto(p, "stat")
         ELSE UNCHANGED lastStat /\ Goto(p, "lookup")
    /\ now' = [now EXCEPT ![p] = 0]
    /\ last' = [last EXCEPT ![p] = 0]
    /\ UNCHANGED <<world, alive, snap, installed, reloading, sig, load, slept>>

\* The compare-and-swap lets one of the requests that found the gate open pass.
SwapLastStat(p) ==
    /\ pc[p] = "cas"
    /\ IF lastStat = last[p]
         THEN lastStat' = now[p] /\ Goto(p, "stat")
         ELSE UNCHANGED lastStat /\ Goto(p, "lookup")
    /\ now' = [now EXCEPT ![p] = 0]
    /\ last' = [last EXCEPT ![p] = 0]
    /\ UNCHANGED <<world, alive, snap, installed, reloading, sig, load, slept>>

StatPath(p) ==
    /\ pc[p] = "stat"
    /\ IF fault = "stat"
         THEN Goto(p, "statFailed") /\ UNCHANGED sig
         ELSE Goto(p, "compare") /\ sig' = [sig EXCEPT ![p] = PathSig]
    /\ UNCHANGED <<world, alive, store, now, last, load, slept>>

\* sig[p] survives to "lookup" only when the snapshot is known to cover it.
CompareSig(p) ==
    /\ pc[p] = "compare"
    /\ Goto(p, IF sig[p] = snap.sig THEN "lookup" ELSE "flag")
    /\ UNCHANGED <<world, alive, store, now, last, sig, load, slept>>

\* Mutant of TakeFlag: the flag is set without testing it.
TakeFlagBlindly(p) ==
    /\ pc[p] = "flag"
    /\ sig' = [sig EXCEPT ![p] = Zero]
    /\ Goto(p, "attempt") /\ reloading' = TRUE
    /\ UNCHANGED <<world, alive, snap, installed, lastStat, now, last, load, slept>>

TakeFlag(p) ==
    /\ pc[p] = "flag"
    /\ sig' = [sig EXCEPT ![p] = Zero]
    /\ IF reloading
         THEN Goto(p, "lookup") /\ UNCHANGED reloading
         ELSE Goto(p, "attempt") /\ reloading' = TRUE
    /\ UNCHANGED <<world, alive, snap, installed, lastStat, now, last, load, slept>>

\* statFailed reads the snapshot, and stores in a later step: it takes no flag.
CheckDenied(p) ==
    /\ pc[p] = "statFailed"
    /\ Goto(p, IF snap.ok \/ snap.sig # Zero THEN "denyStore" ELSE "lookup")
    /\ UNCHANGED <<world, alive, store, now, last, sig, load, slept>>

\* Mutant of StoreDenied: the denial is filed under the file's signature.
StoreDeniedKeepingSig(p) ==
    /\ pc[p] = "denyStore"
    /\ snap' = DenyAll(snap.sig, FALSE)
    /\ Goto(p, "lookup")
    /\ UNCHANGED <<world, alive, installed, reloading, lastStat, now, last, sig, load,
                   slept>>

StoreDenied(p) ==
    /\ pc[p] = "denyStore"
    /\ snap' = DenyAll(Zero, FALSE)
    /\ Goto(p, "lookup")
    /\ UNCHANGED <<world, alive, installed, reloading, lastStat, now, last, sig, load,
                   slept>>

-----------------------------------------------------------------------------
(***************************************************************************)
(* A load, by the request that took the flag, by the background goroutine  *)
(* it handed the retry to, or by Open.                                     *)
(***************************************************************************)
SecondAttempt(l) == l \in Retriers \/ (l = Opener /\ slept)

\* attempt returned: a result without an error, or the error of a second
\* attempt, goes to finish; the error of a first one is retried.
Attempted(l, result) ==
    /\ load' = [load EXCEPT ![l] = result]
    /\ Goto(l, IF result.snap.ok \/ SecondAttempt(l) THEN "finish" ELSE "warn")

\* attempt stats the path before it reads it; the signature is the older one.
AttemptStat(l) ==
    /\ pc[l] = "attempt"
    /\ \/ /\ fault = "stat"
          /\ Attempted(l, Failed(Zero))
          /\ UNCHANGED sig
       \/ /\ fault # "stat"
          /\ PathSig = Missing
          /\ Attempted(l, Gone)
          /\ UNCHANGED sig
       \/ /\ fault # "stat"
          /\ PathSig # Missing
          /\ Goto(l, "read")
          /\ sig' = [sig EXCEPT ![l] = PathSig]
          /\ UNCHANGED load
    /\ UNCHANGED <<world, alive, store, now, last, slept>>

\* Mutant of AttemptRead: a refused directory is recorded against the file.
AttemptReadPinningParent(l) ==
    /\ pc[l] = "read"
    /\ \/ fault \in {"read", "panic"} /\ Attempted(l, Failed(Zero))
       \/ /\ fault # "read"
          /\ \/ Current.kind = "missing" /\ Attempted(l, Gone)
             \/ /\ Current.kind = "bad" \/ (Current.kind = "valid" /\ parentBad)
                /\ Attempted(l, Failed(sig[l]))
             \/ /\ Current.kind = "valid"
                /\ ~parentBad
                /\ Attempted(l, Parsed(sig[l]))
    /\ UNCHANGED <<world, alive, store, now, last, sig, slept>>

\* What readFile and parse make of the path as it is now.  An I/O error, a
\* panic (safeAttempt) and a refused directory leave the zero signature; a bad
\* file is refused before its directory is looked at, or parsed after.
AttemptRead(l) ==
    /\ pc[l] = "read"
    /\ \/ fault \in {"read", "panic"} /\ Attempted(l, Failed(Zero))
       \/ /\ fault # "read"
          /\ \/ Current.kind = "missing" /\ Attempted(l, Gone)
             \/ /\ Current.kind # "missing"
                /\ parentBad
                /\ Attempted(l, Failed(Zero))
             \/ Current.kind = "bad" /\ Attempted(l, Failed(sig[l]))
             \/ /\ Current.kind = "valid"
                /\ ~parentBad
                /\ Attempted(l, Parsed(sig[l]))
    /\ UNCHANGED <<world, alive, store, now, last, sig, slept>>

\* Mutant of WarnRetry: handedOff is not set, the request clears the flag.
WarnRetryNotHandedOff(l) ==
    /\ pc[l] = "warn"
    /\ load' = [load EXCEPT ![l] = NoLoad]
    /\ sig' = [sig EXCEPT ![l] = Zero]
    /\ \/ fault = "panic" /\ Goto(l, "recover")
       \/ l = Opener /\ Goto(l, "sleep")
       \/ /\ l \in Requests
          /\ \E g \in Retriers :
                /\ pc[g] = "idle"
                /\ pc' = [pc EXCEPT ![l] = "release", ![g] = "sleep"]
    /\ UNCHANGED <<world, alive, store, now, last, slept>>

\* Mutant of WarnRetry: handedOff is set before warnRetry, which panics.
WarnRetryHandedOffEarly(l) ==
    /\ pc[l] = "warn"
    /\ load' = [load EXCEPT ![l] = NoLoad]
    /\ sig' = [sig EXCEPT ![l] = Zero]
    /\ \/ fault = "panic" /\ Goto(l, IF l = Opener THEN "recover" ELSE "lookup")
       \/ l = Opener /\ Goto(l, "sleep")
       \/ /\ l \in Requests
          /\ \E g \in Retriers :
                /\ pc[g] = "idle"
                /\ pc' = [pc EXCEPT ![l] = "lookup", ![g] = "sleep"]
    /\ UNCHANGED <<world, alive, store, now, last, slept>>

\* warnRetry, then the hand-over: a request starts a goroutine that keeps the
\* flag and goes on to its lookup, Open sleeps itself.
WarnRetry(l) ==
    /\ pc[l] = "warn"
    /\ load' = [load EXCEPT ![l] = NoLoad]
    /\ sig' = [sig EXCEPT ![l] = Zero]
    /\ \/ fault = "panic" /\ Goto(l, "recover")
       \/ l = Opener /\ Goto(l, "sleep")
       \/ /\ l \in Requests
          /\ \E g \in Retriers :
                /\ pc[g] = "idle"
                /\ pc' = [pc EXCEPT ![l] = "lookup", ![g] = "sleep"]
    /\ UNCHANGED <<world, alive, store, now, last, slept>>

\* retryDelay has passed.
Wake(l) ==
    /\ pc[l] = "sleep"
    /\ Goto(l, "attempt")
    /\ slept' = (slept \/ l = Opener)
    /\ UNCHANGED <<world, alive, store, now, last, sig, load>>

\* Mutant of FinishFailed: keep the last good snapshot.
FinishFailedKeepingLastGood(l) ==
    /\ pc[l] = "finish"
    /\ ~load[l].snap.ok
    /\ Goto(l, "release")
    /\ UNCHANGED <<world, alive, store, now, last, sig, load, slept>>

\* finish: the error is logged before deny-all is stored, a success after the
\* snapshot is; either log call may panic.
FinishFailed(l) ==
    /\ pc[l] = "finish"
    /\ ~load[l].snap.ok
    /\ \/ /\ snap' = load[l].snap
          /\ installed' = load[l].ver
          /\ Goto(l, "release")
       \/ /\ fault = "panic"
          /\ Goto(l, "recover")
          /\ UNCHANGED <<snap, installed>>
    /\ UNCHANGED <<world, alive, reloading, lastStat, now, last, sig, load, slept>>

\* Mutant of FinishLoaded: the signature is taken after the content.
FinishLoadedStatLast(l) ==
    /\ pc[l] = "finish"
    /\ load[l].snap.ok
    /\ snap' = [load[l].snap EXCEPT !.sig = PathSig]
    /\ installed' = load[l].ver
    /\ Goto(l, "release")
    /\ UNCHANGED <<world, alive, reloading, lastStat, now, last, sig, load, slept>>

FinishLoaded(l) ==
    /\ pc[l] = "finish"
    /\ load[l].snap.ok
    /\ snap' = load[l].snap
    /\ installed' = load[l].ver
    /\ \/ Goto(l, "release")
       \/ fault = "panic" /\ Goto(l, "recover")
    /\ UNCHANGED <<world, alive, reloading, lastStat, now, last, sig, load, slept>>

\* recoverDenyAll, deferred to run before the flag is cleared.  Its own log
\* call, the last thing it does, may panic again: nothing recovers from that.
Recover(l) ==
    /\ pc[l] = "recover"
    /\ snap' = DenyAll(Zero, FALSE)
    /\ load' = [load EXCEPT ![l] = NoLoad]
    /\ \/ Goto(l, "release")
       \/ fault = "panic" /\ Goto(l, "unwind")
    /\ UNCHANGED <<world, alive, installed, reloading, lastStat, now, last, sig,
                   slept>>

\* The second panic runs the deferred reloading.Store(false) and leaves the
\* goroutine: a request's is caught by net/http; any other ends the process
\* (Open's, in its caller, which is starting the server).
Unwind(l) ==
    /\ pc[l] = "unwind"
    /\ reloading' = FALSE
    /\ alive' = (l \in Requests)
    /\ sig' = [sig EXCEPT ![l] = Zero]
    /\ Goto(l, "rejected")
    /\ UNCHANGED <<world, snap, installed, lastStat, now, last, load, slept>>

\* The deferred reloading.Store(false); a request goes on to its lookup.
Release(l) ==
    /\ pc[l] = "release"
    /\ reloading' = FALSE
    /\ load' = [load EXCEPT ![l] = NoLoad]
    /\ IF l \in Requests
         THEN /\ sig' = [sig EXCEPT ![l] = load[l].snap.sig]
              /\ Goto(l, "lookup")
         ELSE /\ sig' = [sig EXCEPT ![l] = Zero]
              /\ Goto(l, IF l = Opener THEN "opened" ELSE "idle")
    /\ UNCHANGED <<world, alive, snap, installed, lastStat, now, last, slept>>

-----------------------------------------------------------------------------
(***************************************************************************)
(* The rest of verify.  The snapshot is loaded again: it need not be the   *)
(* one maybeReload compared with.                                          *)
(***************************************************************************)
Answer(p, verdict) ==
    /\ pc[p] = "lookup"
    /\ Goto(p, verdict)
    /\ sig' = [sig EXCEPT ![p] = Zero]
    /\ UNCHANGED <<world, alive, store, now, last, load, slept>>

RejectMalformed(p) == Answer(p, "rejected")

LookUp(p, k) ==
    Answer(p, IF k \in snap.keys /\ clock < Expires[k] THEN "accepted"
                                                       ELSE "rejected")

-----------------------------------------------------------------------------
(***************************************************************************)
(* The world around the store.                                             *)
(***************************************************************************)
ChangeFile ==
    /\ Newest < MaxVersion
    /\ \E f \in Contents : files' = Append(files, f)
    /\ UNCHANGED <<parentBad, fault, clock, alive, store, local>>

ChangeParent ==
    /\ "parent" \in Faults
    /\ parentBad' = ~parentBad
    /\ UNCHANGED <<files, fault, clock, alive, store, local>>

ChangeFault ==
    /\ fault' \in ({"none"} \cup Faults) \ {"parent", fault}
    /\ UNCHANGED <<files, parentBad, clock, alive, store, local>>

Tick ==
    /\ clock < MaxClock
    /\ clock' = clock + 1
    /\ UNCHANGED <<files, parentBad, fault, alive, store, local>>

StepBack ==
    /\ ClockMaySlip
    /\ clock > 0
    /\ clock' = clock - 1
    /\ UNCHANGED <<files, parentBad, fault, alive, store, local>>

World == ChangeFile \/ ChangeParent \/ ChangeFault \/ Tick \/ StepBack

-----------------------------------------------------------------------------
\* What request p does by itself once it has begun, loading apart.
GateStep(p) ==
    /\ alive
    /\ \/ LoadLastStat(p) \/ SwapLastStat(p) \/ StatPath(p) \/ CompareSig(p)
       \/ TakeFlag(p) \/ CheckDenied(p) \/ StoreDenied(p)
       \/ RejectMalformed(p) \/ \E k \in Keys : LookUp(p, k)

LoadStep(l) ==
    /\ alive
    /\ \/ AttemptStat(l) \/ AttemptRead(l) \/ WarnRetry(l) \/ Wake(l)
       \/ FinishFailed(l) \/ FinishLoaded(l) \/ Recover(l) \/ Unwind(l)
       \/ Release(l)

Next ==
    \/ \E p \in Requests : Begin(p) \/ GateStep(p)
    \/ \E l \in Loaders : LoadStep(l)
    \/ World

Spec == Init /\ [][Next]_vars

-----------------------------------------------------------------------------
(***************************************************************************)
(* Type invariant.                                                         *)
(***************************************************************************)

WorldType ==
    /\ files \in Seq(Contents) /\ files # << >>
    /\ parentBad \in BOOLEAN
    /\ fault \in {"none"} \cup Faults
    /\ clock \in 0 .. MaxClock
StoreType ==
    /\ alive \in BOOLEAN
    /\ snap \in Snapshot
    /\ installed \in Nat
    /\ reloading \in BOOLEAN
    /\ lastStat \in 0 .. MaxClock
LocalType ==
    /\ pc \in [Actors -> PCs]
    /\ now \in [Requests -> 0 .. MaxClock]
    /\ last \in [Requests -> 0 .. MaxClock]
    /\ sig \in [Actors -> Int]
    /\ load \in [Actors -> Load]
    /\ slept \in BOOLEAN

\* Every variable holds a value of its type, and the path has a version.
TypeOK == WorldType /\ StoreType /\ LocalType

-----------------------------------------------------------------------------
(***************************************************************************)
(* Safety.                                                                 *)
(***************************************************************************)

\* l is inside a reload cycle: between taking the flag (or being handed it)
\* and clearing it, the retry's sleep included.
Loading(l) == pc[l] \in LoadPCs

\* Reloads are single-flight (reload.go:76): at most one goroutine is inside a
\* cycle, and the flag is set exactly while one is.  The flag changes hands
\* between a request and its background goroutine without being cleared.
SingleFlight ==
    /\ \A l, m \in Loaders : Loading(l) /\ Loading(m) => l = m
    /\ alive => (reloading <=> \E l \in Loaders : Loading(l))

\* The signature is read before the content (reload.go:14): a snapshot that
\* carries the signature the path has now grants no key that the file does not
\* hold now, whatever was written while it was being read.
SigPinsContent ==
    snap.sig = PathSig => snap.keys \subseteq Current.keys

\* A request that found its stat's signature in the snapshot, or reloaded the
\* file itself, is answered from that version or a later one (or denied),
\* although others may replace the snapshot before its lookup.
FreshAfterStat ==
    \A p \in Requests : pc[p] = "lookup" => sig[p] <= installed

\* When a cycle ends, the snapshot grants nothing beyond what that cycle's
\* last read found; after a failed read it grants nothing.  There is no
\* keep-last-good (doc.go:76).
CycleOutcome ==
    \A l \in Loaders :
        pc[l] \in {"release", "unwind"} => snap.keys \subseteq load[l].snap.keys

\* A revoked or expired key is rejected (keyfile.go:262): whatever others did to
\* the snapshot on the way, a request that looks k up and is accepted found k in
\* some version no older than what its own stat saw, and k has not expired.
RevokedIsRejected ==
    [][\A p \in Requests, k \in Keys :
          LookUp(p, k) /\ pc'[p] = "accepted"
            => /\ clock < Expires[k]
               /\ \E v \in 1 .. Newest : sig[p] <= v /\ k \in files[v].keys]_vars

\* What the store promises about the file, without the reload protocol.
Promise == INSTANCE KeyAuthority WITH live <- snap.keys

\* The protocol implements that promise: keys come from one version, versions
\* never go back, so an in-flight load cannot bring a revoked key back.
Authority == Promise!Spec

-----------------------------------------------------------------------------
(***************************************************************************)
(* Liveness.                                                               *)
(***************************************************************************)

\* A goroutine that is inside the store goes on; a panic is an outcome.
LoadFairness == \A l \in Loaders : WF_vars(LoadStep(l))
GateFairness == \A p \in Requests : WF_vars(GateStep(p))

\* Requests keep coming, also at times when the wall clock has moved on from
\* the last stat, or back behind it: nothing else makes the store look at the
\* file, so nothing is promised to a store that is not used.
GateTime == StatTTL = 0 \/ clock < lastStat \/ clock >= lastStat + StatTTL
Traffic == []<>(~alive) \/ []<><<\E p \in Requests : Begin(p) /\ GateTime>>_vars

FairSpec == Spec /\ GateFairness /\ LoadFairness /\ Traffic

\* Once the world leaves the store alone, the snapshot settles on exactly the
\* keys of the file: revoked keys are out, new ones in, and a fault, a panic
\* or a refused directory that went away leaves no trace.
Quiet == fault = "none" /\ ~parentBad
Converges ==
    <>[](Quiet /\ alive) => <>[](snap.keys = Unexpired(Current.keys))
=============================================================================
