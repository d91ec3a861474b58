--------------------------- MODULE StartupProofs ---------------------------
(***************************************************************************)
(* At most one program named "tfmap" is past is_prog_run, for every number *)
(* of processes, every set of names and every configuration.               *)
(***************************************************************************)
EXTENDS Startup, TLAPS

(* p has looked at k and found no program there. What is past the check    *)
(* has looked at everything; a parent that has forked no longer counts.    *)
HasLookedAt(p, k) == PastCheck(p) \/ (spc[p] = "scan" /\ k <= looked[p])

(* The argument: of two programs, one started after the other had looked   *)
(* at its number, or neither has; so they have not both looked at each     *)
(* other. A child keeps this because its number is above its parent's: who *)
(* has looked past the child has looked past the parent.                   *)
NotMutual ==
    \A p, q \in Pids :
        p # q /\ IsProg(p) /\ IsProg(q) => ~(HasLookedAt(p, q) /\ HasLookedAt(q, p))

(* looked is the loop variable of is_prog_run.                             *)
LookedInScan == \A p \in Pids : spc[p] # "scan" => looked[p] = 0

StartInv == StartTypeOK /\ LookedInScan /\ NotMutual

(* The variables of Startup keep their types.                              *)
LEMMA StartTypes == Init => StartTypeOK
<1>1. NoConf \in Conf
  BY DEF NoConf, Conf
<1> QED
  BY <1>1, MaxPidAssumption DEF Init, StartTypeOK, StartPc

(* One step of main, of a fork or of the kernel keeps the types.           *)
LEMMA StartTypeStep == StartTypeOK /\ [Next]_startVars => StartTypeOK'
<1> SUFFICES ASSUME StartTypeOK, [Next]_startVars PROVE StartTypeOK'
  OBVIOUS
<1> USE MaxPidAssumption, ConfsAssumption DEF StartTypeOK, StartPc, Pids
<1>0. NoConf \in Conf /\ PROC_NAME \in Names \cup {PROC_NAME}
  BY DEF NoConf, Conf
<1>1. ASSUME NEW p \in Pids, Gone(p) PROVE StartTypeOK'
  BY <1>0, <1>1 DEF Gone
<1>2. ASSUME NEW p \in Pids, Run(p) PROVE StartTypeOK'
  BY <1>2 DEF Run, SGoto
<1>3. ASSUME NEW p \in Pids, LookFurther(p) PROVE StartTypeOK'
  BY <1>3 DEF LookFurther, Entry
<1>4. ASSUME NEW p \in Pids, NotRunning(p) PROVE StartTypeOK'
  BY <1>4 DEF NotRunning, SGoto
<1>5. ASSUME NEW p \in Pids, daemon(p) PROVE StartTypeOK'
  BY <1>5 DEF daemon
<1>6. ASSUME NEW p \in Pids, LoadConf(p) PROVE StartTypeOK'
  BY <1>0, <1>6 DEF LoadConf, SGoto
<1>7. ASSUME NEW p \in Pids, SetLimit(p) \/ CreateMapThread(p) \/ ListenFails(p)
      PROVE StartTypeOK'
  BY <1>7 DEF SetLimit, CreateMapThread, ListenFails, SGoto
<1>8. ASSUME NEW p \in Pids, Listen(p) PROVE StartTypeOK'
  BY <1>8 DEF Listen, SGoto
<1>9. ASSUME NEW p \in Pids, FoundRunning(p) PROVE StartTypeOK'
  BY <1>9 DEF FoundRunning, SGoto
<1>10. CASE UNCHANGED startVars
  BY <1>10 DEF startVars
<1> QED
  BY <1>1, <1>2, <1>3, <1>4, <1>5, <1>6, <1>7, <1>8, <1>9, <1>10
  DEF Next, Killed, Refused, ParentExits, BadConf, LimitFails, MapThreadFails, ListenThrows

(* A step in which every program that is there afterwards was there before *)
(* and has looked at nothing new keeps NotMutual.                          *)
LEMMA NothingNew ==
    ASSUME NotMutual,
           \A p \in Pids : IsProg(p)' => IsProg(p),
           \A p, q \in Pids : IsProg(p)' /\ HasLookedAt(p, q)' => HasLookedAt(p, q)
    PROVE  NotMutual'
BY DEF NotMutual, Pids

(* The same for a step that goes from one place past the check to another. *)
LEMMA StaysPast ==
    ASSUME StartTypeOK, NotMutual, NEW p \in Pids, NEW to,
           PastCheck(p), to # "scan", spc' = [spc EXCEPT ![p] = to],
           UNCHANGED <<argv0, looked>>
    PROVE  NotMutual'
<1>1. \A r \in Pids : IsProg(r)' => IsProg(r)
  BY DEF IsProg, PastCheck, StartTypeOK
<1>2. \A r, q \in Pids : IsProg(r)' /\ HasLookedAt(r, q)' => HasLookedAt(r, q)
  BY DEF IsProg, PastCheck, StartTypeOK, HasLookedAt
<1> QED
  BY <1>1, <1>2, NothingNew

(* Every step that leaves the loop resets its variable.                    *)
LEMMA LookedStep == StartTypeOK /\ LookedInScan /\ [Next]_startVars => LookedInScan'
BY DEF Next, Killed, Refused, ParentExits, BadConf, LimitFails, MapThreadFails, ListenThrows,
       Gone, Run, FoundRunning, LookFurther, NotRunning, daemon, LoadConf, SetLimit, CreateMapThread,
       ListenFails, Listen, SGoto, startVars, StartTypeOK, LookedInScan

(* Two programs never come to have looked at each other.                   *)
LEMMA MutualStep == StartInv /\ [Next]_startVars => NotMutual'
<1> SUFFICES ASSUME StartTypeOK, LookedInScan, NotMutual, [Next]_startVars PROVE NotMutual'
  BY DEF StartInv
<1> USE MaxPidAssumption
<1>1. ASSUME NEW p \in Pids, Gone(p) PROVE NotMutual'
  <2>1. \A r \in Pids : IsProg(r)' => r # p /\ IsProg(r)
    BY <1>1 DEF Gone, IsProg, StartTypeOK
  <2>2. \A r, q \in Pids : IsProg(r)' /\ HasLookedAt(r, q)' => HasLookedAt(r, q)
    BY <1>1, <2>1 DEF Gone, HasLookedAt, PastCheck, StartTypeOK
  <2> QED
    BY <2>1, <2>2, NothingNew
<1>2. ASSUME NEW p \in Pids, Run(p) PROVE NotMutual'
  <2>1. \A q \in Pids : ~HasLookedAt(p, q)'
    <3>1. spc[p] = "none" /\ spc'[p] = "scan" /\ looked' = looked
      BY <1>2 DEF Run, SGoto, StartTypeOK
    <3>2. looked'[p] = 0 /\ ~PastCheck(p)'
      BY <3>1 DEF LookedInScan, PastCheck
    <3> QED
      BY <3>2 DEF HasLookedAt, Pids
  <2>2. \A r \in Pids : r # p /\ IsProg(r)' => IsProg(r)
    BY <1>2 DEF Run, SGoto, IsProg, StartTypeOK
  <2>3. \A r, q \in Pids : r # p /\ HasLookedAt(r, q)' => HasLookedAt(r, q)
    BY <1>2 DEF Run, SGoto, HasLookedAt, PastCheck, StartTypeOK
  <2> QED
    BY <2>1, <2>2, <2>3 DEF NotMutual
<1>3. ASSUME NEW p \in Pids, LookFurther(p) PROVE NotMutual'
  <2>1. \A r \in Pids : IsProg(r)' <=> IsProg(r)
    BY <1>3 DEF LookFurther, IsProg
  <2>2. \A r, q \in Pids : HasLookedAt(r, q)' => HasLookedAt(r, q) \/ (r = p /\ q = Entry(p))
    BY <1>3 DEF LookFurther, HasLookedAt, PastCheck, StartTypeOK, Entry, Pids
  <2>3. \A q \in Pids : q = Entry(p) /\ IsProg(q) => q = p
    BY <1>3 DEF LookFurther, Refuses
  <2> QED
    BY <2>1, <2>2, <2>3 DEF NotMutual
<1>4. ASSUME NEW p \in Pids, NotRunning(p) PROVE NotMutual'
  <2>1. \A r \in Pids : IsProg(r)' => IsProg(r)
    BY <1>4 DEF NotRunning, SGoto, IsProg, StartTypeOK
  <2>2. \A r, q \in Pids : HasLookedAt(r, q)' => HasLookedAt(r, q)
    BY <1>4 DEF NotRunning, SGoto, HasLookedAt, PastCheck, StartTypeOK, Pids
  <2> QED
    BY <2>1, <2>2, NothingNew
<1>5. ASSUME NEW p \in Pids, daemon(p) PROVE NotMutual'
  <2>1. CASE spc' = [spc EXCEPT ![p] = "config"] /\ UNCHANGED argv0
    BY <1>5, <2>1, StaysPast DEF daemon, PastCheck
  <2>2. ASSUME NEW c \in Pids, c > p, spc[c] = "none",
               spc' = [spc EXCEPT ![p] = "parent", ![c] = "config"],
               argv0' = [argv0 EXCEPT ![c] = argv0[p]]
        PROVE  NotMutual'
    <3>1. spc[p] = "daemon" /\ UNCHANGED looked
      BY <1>5 DEF daemon
    <3>2. \A r \in Pids : r # c /\ IsProg(r)' => IsProg(r)
      BY <2>2, <3>1 DEF IsProg, StartTypeOK
    <3>3. IsProg(c)' => IsProg(p)
      BY <2>2, <3>1 DEF IsProg, StartTypeOK
    <3>4. \A r, q \in Pids : r # c /\ HasLookedAt(r, q)' => r # p /\ HasLookedAt(r, q)
      BY <2>2, <3>1 DEF HasLookedAt, PastCheck, StartTypeOK
    <3>5. \A r \in Pids : r # c /\ HasLookedAt(r, c)' => HasLookedAt(r, p)
      BY <2>2, <3>1, <3>4 DEF HasLookedAt, StartTypeOK, Pids
    <3>6. \A q \in Pids : HasLookedAt(p, q)
      BY <3>1 DEF HasLookedAt, PastCheck
    <3>7. ASSUME NEW r \in Pids, r # c, IsProg(r)', IsProg(c)', HasLookedAt(r, c)'
          PROVE  FALSE
      BY <3>7, <3>2, <3>3, <3>4, <3>5, <3>6 DEF NotMutual
    <3> QED
      BY <3>2, <3>4, <3>7 DEF NotMutual
  <2> QED
    BY <1>5, <2>1, <2>2 DEF daemon
<1>6. ASSUME NEW p \in Pids, LoadConf(p) PROVE NotMutual'
  BY <1>6, StaysPast DEF LoadConf, SGoto, PastCheck
<1>7. ASSUME NEW p \in Pids, SetLimit(p) \/ CreateMapThread(p) \/ ListenFails(p) \/ Listen(p)
      PROVE NotMutual'
  BY <1>7, StaysPast DEF SetLimit, CreateMapThread, ListenFails, Listen, SGoto, PastCheck
<1>8. ASSUME NEW p \in Pids, FoundRunning(p) PROVE NotMutual'
  <2>1. \A r \in Pids : IsProg(r)' => IsProg(r)
    BY <1>8 DEF FoundRunning, SGoto, IsProg, StartTypeOK
  <2>2. \A r, q \in Pids : HasLookedAt(r, q)' => HasLookedAt(r, q)
    BY <1>8 DEF FoundRunning, SGoto, HasLookedAt, PastCheck, StartTypeOK
  <2> QED
    BY <2>1, <2>2, NothingNew
<1>9. CASE UNCHANGED startVars
  BY <1>9 DEF startVars, NotMutual, IsProg, HasLookedAt, PastCheck
<1> QED
  BY <1>1, <1>2, <1>3, <1>4, <1>5, <1>6, <1>7, <1>8, <1>9
  DEF Next, Killed, Refused, ParentExits, BadConf, LimitFails, MapThreadFails, ListenThrows

(* is_prog_run lets at most one program named "tfmap" through, however     *)
(* starts, forks and exits interleave with its reading of /proc.           *)
THEOREM AtMostOneProgram == Spec => []OneProgram
<1>1. Init => StartInv
  BY StartTypes DEF Init, StartInv, LookedInScan, NotMutual, IsProg
<1>2. StartInv /\ [Next]_startVars => StartInv'
  BY StartTypeStep, LookedStep, MutualStep DEF StartInv
<1>3. StartInv => OneProgram
  BY DEF StartInv, NotMutual, OneProgram, HasLookedAt
<1> QED
  BY <1>1, <1>2, <1>3, PTL DEF Spec
=============================================================================
