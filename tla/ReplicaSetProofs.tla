------------------------- MODULE ReplicaSetProofs --------------------------
(***************************************************************************)
(* Proofs about ReplicaSet, for any set of members and any bounds.         *)
(***************************************************************************)
EXTENDS ReplicaSet, FiniteSetTheorems, TLAPS

(* The primary of now is among those that reigned in this call. *)
ReignInv == pc # "idle" /\ primary # None => primary \in reigned

(* What each place of the driver relies on *)
PlaceInv ==
    /\ pc \in {"ismaster", "double_check"} => asked \in Hosts /\ rounds > 0
    /\ pc = "double_check" => named \in Hosts
    /\ pc \in {"check_primary", "narrow", "choose"} => master # None
    /\ pc = "check_primary" => tries > 0
    /\ pc = "resend" => pinned # None
    /\ pc # "idle" /\ call = "command" /\ pinned # None => master # None

IInv == TypeOK /\ ReignInv /\ PlaceInv

(* Every step keeps the invariant. *)
LEMMA StepKeeps == IInv /\ [Next]_vars => IInv'
<1> SUFFICES ASSUME IInv, [Next]_vars PROVE IInv'
  OBVIOUS
<1> USE ReplicaSetAssumption DEF IInv, TypeOK, ReignInv, PlaceInv, HostOrNone, AllModes, AllCalls, members, prefs, search, refresh, choice, locals, history
<1>1. ASSUME NEW h \in Hosts, Crash(h) PROVE IInv'
  BY <1>1 DEF Crash, Breaks
<1>2. ASSUME StepDown PROVE IInv'
  BY <1>2 DEF StepDown, Breaks
<1>3. ASSUME NEW h \in Hosts, Restart(h) PROVE IInv'
  BY <1>3 DEF Restart
<1>4. ASSUME NEW h \in Hosts, Elect(h) PROVE IInv'
  BY <1>4 DEF Elect
<1>5. ASSUME Heartbeat PROVE IInv'
  BY <1>5 DEF Heartbeat
<1>6. ASSUME Elapse PROVE IInv'
  BY <1>6 DEF Elapse
<1>7. ASSUME NEW c \in Calls, Query(c) PROVE IInv'
  BY <1>7 DEF Query, Begin, Return, Forget
<1>8. ASSUME Write PROVE IInv'
  BY <1>8 DEF Write, Begin
<1>9. ASSUME NEW m \in Modes, NEW t \in TagChoices, ReadPreference(m, t) PROVE IInv'
  BY <1>9 DEF ReadPreference, Begin, Return, Forget, CallRepin
<1>10. ASSUME GetAnyConnection PROVE IInv'
  BY <1>10 DEF GetAnyConnection, NextRound
<1>11. ASSUME IsMaster PROVE IInv'
  BY <1>11 DEF IsMaster, Contact, NextRound, Found, GetMasterEnds
<1>12. ASSUME DoubleCheck PROVE IInv'
  BY <1>12 DEF DoubleCheck, Contact, NextRound, Found, GetMasterEnds
<1>13. ASSUME NoMaster PROVE IInv'
  BY <1>13 DEF NoMaster, Return, Forget
<1>14. ASSUME repin PROVE IInv'
  BY <1>14 DEF repin, CallGetMaster
<1>15. ASSUME CheckPrimary PROVE IInv'
  BY <1>15 DEF CheckPrimary, Contact, Pin, Return, Forget
<1>16. ASSUME Narrow PROVE IInv'
  BY <1>16 DEF Narrow, Contact, Return, Forget
<1>17. ASSUME Choose PROVE IInv'
  BY <1>17 DEF Choose, Contact, Pin, Return, Forget
<1>18. ASSUME NEW h \in Hosts, Ping(h) PROVE IInv'
  BY <1>18 DEF Ping, Contact
<1>19. ASSUME Pinged PROVE IInv'
  BY <1>19 DEF Pinged, CallGetMaster
<1>20. ASSUME Refreshed PROVE IInv'
  BY <1>20 DEF Refreshed, CallRepin
<1>21. ASSUME Stamp PROVE IInv'
  <2>1. aged' \in BOOLEAN
    BY <1>21, Zenon DEF Stamp
  <2>2. /\ pc' = "send" /\ Forget
        /\ UNCHANGED <<members, conn, master, holder, pinned, mode, tagged, call, result, history>>
        /\ pc = "stamp"
    BY <1>21 DEF Stamp
  <2> QED
    BY <2>1, <2>2 DEF Forget
<1>22. ASSUME FindMaster PROVE IInv'
  BY <1>22 DEF FindMaster, UsesHolder, CallGetMaster
<1>23. ASSUME Send PROVE IInv'
  <2>1. Target \in Hosts
    <3>1. CASE UsesHolder
      BY <1>23, <3>1 DEF Send, Target
    <3>2. CASE ~UsesHolder
      BY <1>23, <3>2 DEF Send, Target, UsesHolder
    <3> QED
      BY <3>1, <3>2
  <2>2. pc = "send" /\ UNCHANGED <<members, prefs, call, history>>
    BY <1>23 DEF Send
  <2>3. CASE Answers(Target) /\ Reply(Target)
    BY <2>1, <2>2, <2>3 DEF Reply, Contact, Cleared, Return, Forget
  <2>4. CASE ~Answers(Target) /\ Contact(Target) /\ Cleared /\ UsesHolder /\ Return("died")
    BY <2>1, <2>2, <2>4 DEF Contact, Cleared, Return, Forget
  <2>5. CASE /\ ~Answers(Target) /\ Contact(Target) /\ Cleared /\ ~UsesHolder
             /\ CallRepin("resend") /\ UNCHANGED result
    BY <2>1, <2>2, <2>5 DEF Contact, Cleared, CallRepin
  <2> QED
    BY <1>23, <2>3, <2>4, <2>5 DEF Send
<1>24. ASSUME Resend PROVE IInv'
  BY <1>24 DEF Resend, Reply, Contact, Cleared, Return, Forget
<1>25. CASE UNCHANGED vars
  BY <1>25 DEF vars
<1> QED
  BY <1>1, <1>2, <1>3, <1>4, <1>5, <1>6, <1>7, <1>8, <1>9, <1>10, <1>11, <1>12, <1>13, <1>14, <1>15, <1>16, <1>17, <1>18, <1>19, <1>20, <1>21, <1>22, <1>23, <1>24, <1>25 DEF Next, Members, Program, Driver

LEMMA Invariant == Spec => []IInv
<1>1. Init => IInv
  <2> SUFFICES ASSUME Init PROVE IInv
    OBVIOUS
  <2>1. TypeOK
    <3>1. tagged \in BOOLEAN /\ aged \in BOOLEAN
      BY Zenon DEF Init
    <3>2. /\ up \subseteq Hosts /\ faults \in 0..MaxFaults
          /\ primary \in HostOrNone /\ known \in HostOrNone
          /\ conn \in [Hosts -> {"off", "live", "dead"}]
          /\ master \in HostOrNone /\ holder \in HostOrNone /\ pinned \in HostOrNone
      BY ReplicaSetAssumption DEF Init, HostOrNone
    <3> QED
      BY <3>1, <3>2, ReplicaSetAssumption DEF Init, TypeOK, HostOrNone, AllModes, AllCalls
  <2>2. ReignInv /\ PlaceInv
    BY DEF Init, ReignInv, PlaceInv
  <2> QED
    BY <2>1, <2>2 DEF IInv
<1> QED
  BY <1>1, StepKeeps, PTL DEF Spec

(* Every variable keeps its type: in particular repin always returns to a  *)
(* place that called it.                                                   *)
THEOREM TypeCorrect == Spec => []TypeOK
  BY Invariant, PTL DEF IInv

(* get_master stores a member as the master only when the member itself    *)
(* has answered that it is the primary; the "primary" field of another     *)
(* member's answer is never enough.                                        *)
THEOREM MasterIsConfirmed == Spec => MasterConfirmed
<1>1. IInv /\ [Next]_vars => [master' # master /\ master' # None => master' \in reigned']_vars
  <2> SUFFICES ASSUME IInv, Next, master' # master, master' # None
               PROVE  master' \in reigned'
    OBVIOUS
  <2> USE DEF members, prefs, history
  <2>1. CASE IsMaster
    BY <2>1 DEF IsMaster, Found, IInv, ReignInv
  <2>2. CASE DoubleCheck
    BY <2>2 DEF DoubleCheck, Found, IInv, ReignInv
  <2>3. CASE Members \/ Elapse
    BY <2>3 DEF Members, Elapse, StepDown, Crash, Breaks, Heartbeat, Restart, Elect
  <2>4. CASE Program
    BY <2>4 DEF Program, Query, Write, ReadPreference, Begin
  <2>5. CASE GetAnyConnection \/ NoMaster \/ repin \/ CheckPrimary \/ Narrow \/ Choose
    BY <2>5 DEF GetAnyConnection, NoMaster, repin, CheckPrimary, Narrow, Choose
  <2>6. CASE (\E h \in Hosts : Ping(h)) \/ Pinged \/ Refreshed \/ Stamp \/ FindMaster
    BY <2>6 DEF Ping, Pinged, Refreshed, Stamp, FindMaster
  <2>7. CASE Send \/ Resend
    BY <2>7 DEF Send, Resend, Reply, Cleared
  <2> QED
    BY <2>1, <2>2, <2>3, <2>4, <2>5, <2>6, <2>7 DEF Next, Driver
<1> QED
  BY <1>1, Invariant, PTL DEF Spec, MasterConfirmed

-----------------------------------------------------------------------------
(* The choice of a member *)

(* repin tries every secondary before its tries are used up. *)
FewSecondaries == IsFiniteSet(Hosts) /\ Cardinality(Hosts) <= Retries + 1

(* Members a secondary is not chosen from: they failed, or their tags are  *)
(* other ones.                                                             *)
Excused == failed \cup (IF tagged THEN OtherTags ELSE {})

(* A member that would not answer now has failed in this call. *)
DownInv == pc # "idle" => \A h \in Hosts : ~Answers(h) => h \in failed

(* read_preference only repins. *)
PreferenceInv ==
    pc # "idle" =>
        /\ result = "none"
        /\ call = "read_preference" =>
              /\ pc \in {"repin", "check_primary", "narrow", "choose",
                         "get_master", "ismaster", "double_check"}
              /\ pc \in {"get_master", "ismaster", "double_check"} => found = "repin"
              /\ after = "return"

(* Where repin is, whom it has ruled out, and that no one is left out      *)
(* because the tries were used up.                                         *)
ChoiceInv ==
    /\ pc = "check_primary" =>
          /\ mode # "SECONDARY"
          /\ mode = "SECONDARY_PREFERRED" => Hosts \ {master} \subseteq Excused
          /\ mode = "PRIMARY_PREFERRED" => cands = Hosts \ {master}
    /\ pc \in {"narrow", "choose"} =>
          /\ mode # "PRIMARY"
          /\ mode = "PRIMARY_PREFERRED" => master \in failed
          /\ cands \subseteq Hosts \ {master}
    /\ pc = "narrow" => cands = Hosts \ {master} /\ tries = Retries
    /\ pc = "choose" =>
          /\ (Hosts \ {master}) \ cands \subseteq Excused
          /\ tagged => cands \cap OtherTags = {}
          /\ Cardinality(cands) <= tries

RepinInv == DownInv /\ PreferenceInv /\ ChoiceInv /\ NoMemberMeansFailed /\ PreferenceHonoured

LEMMA DownStep == IInv /\ DownInv /\ [Next]_vars => DownInv'
<1> SUFFICES ASSUME IInv, DownInv, [Next]_vars PROVE DownInv'
  OBVIOUS
<1> USE DEF IInv, TypeOK, DownInv, Answers, members, prefs, search, refresh, choice, locals, history
<1>1. ASSUME NEW h \in Hosts, Crash(h) PROVE DownInv'
  BY <1>1 DEF Crash, Breaks
<1>2. ASSUME StepDown PROVE DownInv'
  BY <1>2 DEF StepDown, Breaks, HostOrNone
<1>3. ASSUME NEW h \in Hosts, Restart(h) PROVE DownInv'
  BY <1>3 DEF Restart
<1>4. ASSUME NEW h \in Hosts, Elect(h) PROVE DownInv'
  BY <1>4 DEF Elect
<1>5. ASSUME Heartbeat \/ Elapse PROVE DownInv'
  BY <1>5 DEF Heartbeat, Elapse
<1>6. ASSUME NEW c, Begin(c) PROVE DownInv'
  BY <1>6 DEF Begin
<1>7. ASSUME Program PROVE DownInv'
  BY <1>6, <1>7 DEF Program, Query, Write, ReadPreference
<1>8. ASSUME NEW h, Contact(h), UNCHANGED <<members, failed>>, pc # "idle" PROVE DownInv'
  BY <1>8 DEF Contact
<1>9. ASSUME UNCHANGED <<members, conn, failed>>, pc # "idle" PROVE DownInv'
  BY <1>9
<1>10. ASSUME GetAnyConnection PROVE DownInv'
  BY <1>9, <1>10 DEF GetAnyConnection
<1>11. ASSUME IsMaster \/ DoubleCheck PROVE DownInv'
  BY <1>8, <1>11 DEF IsMaster, DoubleCheck
<1>12. ASSUME NoMaster \/ repin PROVE DownInv'
  BY <1>9, <1>12 DEF NoMaster, repin
<1>13. ASSUME CheckPrimary PROVE DownInv'
  BY <1>8, <1>13 DEF CheckPrimary
<1>14. ASSUME Narrow PROVE DownInv'
  BY <1>8, <1>9, <1>14 DEF Narrow
<1>15. ASSUME Choose PROVE DownInv'
  BY <1>8, <1>9, <1>15 DEF Choose
<1>16. ASSUME NEW h \in Hosts, Ping(h) PROVE DownInv'
  BY <1>8, <1>16 DEF Ping
<1>17. ASSUME Pinged \/ Refreshed \/ Stamp \/ FindMaster PROVE DownInv'
  BY <1>9, <1>17 DEF Pinged, Refreshed, Stamp, FindMaster
<1>18. ASSUME Send \/ Resend PROVE DownInv'
  BY <1>8, <1>18 DEF Send, Resend, Reply, Return
<1>19. CASE UNCHANGED vars
  BY <1>19 DEF vars
<1> QED
  BY <1>1, <1>2, <1>3, <1>4, <1>5, <1>7, <1>10, <1>11, <1>12, <1>13, <1>14, <1>15, <1>16, <1>17, <1>18, <1>19 DEF Next, Members, Driver

LEMMA PreferenceStep == IInv /\ PreferenceInv /\ [Next]_vars => PreferenceInv'
<1> SUFFICES ASSUME IInv, PreferenceInv, [Next]_vars PROVE PreferenceInv'
  OBVIOUS
<1> USE DEF IInv, TypeOK, PlaceInv, PreferenceInv, members, prefs, search, refresh, choice, locals, history
<1>1. ASSUME Members \/ Elapse PROVE PreferenceInv'
  BY <1>1 DEF Members, Crash, StepDown, Breaks, Restart, Elect, Heartbeat, Elapse
<1>2. ASSUME NEW c \in Calls, Query(c) PROVE PreferenceInv'
  BY <1>2 DEF Query, Begin, Return, Forget
<1>3. ASSUME Write PROVE PreferenceInv'
  BY <1>3 DEF Write, Begin
<1>4. ASSUME NEW m \in Modes, NEW t \in TagChoices, ReadPreference(m, t) PROVE PreferenceInv'
  BY <1>4 DEF ReadPreference, Begin, Return, CallRepin
<1>5. ASSUME GetAnyConnection PROVE PreferenceInv'
  BY <1>5 DEF GetAnyConnection, NextRound
<1>6. ASSUME IsMaster \/ DoubleCheck PROVE PreferenceInv'
  BY <1>6 DEF IsMaster, DoubleCheck, NextRound, Found, GetMasterEnds
<1>7. ASSUME NoMaster PROVE PreferenceInv'
  BY <1>7 DEF NoMaster, Return
<1>8. ASSUME repin PROVE PreferenceInv'
  BY <1>8 DEF repin, CallGetMaster
<1>9. ASSUME CheckPrimary PROVE PreferenceInv'
  BY <1>9 DEF CheckPrimary, Pin, Return, Forget
<1>10. ASSUME Narrow PROVE PreferenceInv'
  BY <1>10 DEF Narrow, Return
<1>11. ASSUME Choose PROVE PreferenceInv'
  BY <1>11 DEF Choose, Pin, Return, Forget
<1>12. ASSUME (\E h \in Hosts : Ping(h)) \/ Pinged \/ Refreshed \/ Stamp \/ FindMaster PROVE PreferenceInv'
  BY <1>12 DEF Ping, Pinged, Refreshed, Stamp, FindMaster, CallGetMaster, CallRepin
<1>13. ASSUME Send \/ Resend PROVE PreferenceInv'
  BY <1>13 DEF Send, Resend, Reply, Return, CallRepin
<1>14. CASE UNCHANGED vars
  BY <1>14 DEF vars
<1> QED
  BY <1>1, <1>2, <1>3, <1>4, <1>5, <1>6, <1>7, <1>8, <1>9, <1>10, <1>11, <1>12, <1>13, <1>14 DEF Next, Program, Driver

LEMMA ChoiceStep == FewSecondaries /\ IInv /\ DownInv /\ ChoiceInv /\ [Next]_vars => ChoiceInv'
<1> SUFFICES ASSUME FewSecondaries, IInv, DownInv, ChoiceInv, [Next]_vars PROVE ChoiceInv'
  OBVIOUS
<1> USE DEF IInv, TypeOK, PlaceInv, ChoiceInv, Excused, members, prefs, search, refresh, choice, locals, history
<1>0. pc' \notin {"check_primary", "narrow", "choose"} => ChoiceInv'
  OBVIOUS
<1>1. ASSUME Members PROVE ChoiceInv'
  BY <1>1 DEF Members, Crash, StepDown, Breaks, Restart, Elect, Heartbeat
<1>2. ASSUME Elapse \/ Program PROVE ChoiceInv'
  BY <1>0, <1>2 DEF Elapse, Program, Query, Write, ReadPreference, Begin, Return, CallRepin
<1>3. ASSUME GetAnyConnection \/ IsMaster \/ DoubleCheck \/ NoMaster PROVE ChoiceInv'
  BY <1>0, <1>3 DEF GetAnyConnection, IsMaster, DoubleCheck, NoMaster, NextRound, Found, GetMasterEnds, Return
<1>4. ASSUME repin PROVE ChoiceInv'
  BY <1>0, <1>4 DEF repin, CallGetMaster, AllModes
<1>5. ASSUME CheckPrimary PROVE ChoiceInv'
  <2>1. pc = "check_primary" /\ UNCHANGED <<members, master, mode, tagged, history>> /\ master \in Hosts
    BY <1>5 DEF CheckPrimary, HostOrNone
  <2>2. ~Answers(master) => master \in failed
    BY <2>1 DEF DownInv
  <2> QED
    BY <1>0, <1>5, <2>1, <2>2 DEF CheckPrimary, Pin, Return
<1>6. ASSUME Narrow PROVE ChoiceInv'
  <2>1. pc = "narrow" /\ UNCHANGED <<master, mode, tagged, failed>> /\ master \in Hosts
    BY <1>6 DEF Narrow, HostOrNone
  <2>2. CASE pc' # "choose"
    BY <1>0, <1>6, <2>2 DEF Narrow, Return
  <2>3. CASE pc' = "choose"
    <3>1. tries' = Retries
      BY <1>6, <2>1, <2>3 DEF Narrow, Return
    <3>2. \/ ~tagged /\ cands' = cands
          \/ tagged /\ cands' = cands \ OtherTags
          \/ cands' = {} /\ Hosts \subseteq failed
      BY <1>6, <2>1, <2>3 DEF Narrow, Return, Answers, DownInv
    <3>3. cands' \subseteq Hosts \ {master} /\ (Hosts \ {master}) \ cands' \subseteq Excused'
      BY <2>1, <3>2
    <3>4. Cardinality(cands') <= Retries
      <4>1. /\ IsFiniteSet(Hosts \ {master})
            /\ Cardinality(Hosts \ {master}) = Cardinality(Hosts) - 1
        BY <2>1, FS_RemoveElement DEF FewSecondaries
      <4>2. Cardinality(cands') <= Cardinality(Hosts \ {master}) /\ Cardinality(cands') \in Nat
        BY <3>3, <4>1, FS_Subset, FS_CardinalityType
      <4>3. Cardinality(Hosts) \in Nat
        BY FS_CardinalityType DEF FewSecondaries
      <4> QED
        BY ONLY <4>1, <4>2, <4>3, FewSecondaries, ReplicaSetAssumption DEF FewSecondaries
    <3>5. tagged' => cands' \cap OtherTags = {}
      BY <2>1, <3>2
    <3> QED
      BY <2>1, <2>3, <3>1, <3>3, <3>4, <3>5
  <2> QED
    BY <2>2, <2>3
<1>7. ASSUME Choose PROVE ChoiceInv'
  <2>1. /\ pc = "choose" /\ UNCHANGED <<master, mode, tagged, failed>>
        /\ IsFiniteSet(cands) /\ tries \in Nat
    BY <1>7, FS_Subset DEF Choose, FewSecondaries
  <2>2. ASSUME NEW h \in cands, tries > 0, ~Answers(h), cands' = cands \ {h}, tries' = tries - 1,
               UNCHANGED pc
        PROVE  ChoiceInv'
    <3>1. h \in failed
      BY <2>1, <2>2 DEF DownInv
    <3>2. Cardinality(cands') = Cardinality(cands) - 1 /\ Cardinality(cands) \in Nat
      BY <2>1, <2>2, FS_RemoveElement, FS_CardinalityType
    <3> QED
      BY <2>1, <2>2, <3>1, <3>2
  <2>3. CASE /\ tries = 0 \/ cands = {}
             /\ mode = "SECONDARY_PREFERRED"
             /\ pc' = "check_primary"
    <3>1. cands = {}
      <4>1. Cardinality(cands) \in Nat /\ (Cardinality(cands) = 0 => cands = {})
        BY <2>1, FS_CardinalityType, FS_EmptySet
      <4> QED
        BY <2>1, <2>3, <4>1
    <3> QED
      BY <2>1, <2>3, <3>1
  <2>4. CASE pc' \notin {"check_primary", "narrow", "choose"}
    BY <1>0, <2>4
  <2> QED
    BY <1>7, <2>2, <2>3, <2>4 DEF Choose, Pin, Return
<1>8. ASSUME (\E h \in Hosts : Ping(h)) \/ Pinged \/ Refreshed \/ Stamp \/ FindMaster PROVE ChoiceInv'
  BY <1>0, <1>8 DEF Ping, Pinged, Refreshed, Stamp, FindMaster, CallGetMaster, CallRepin
<1>9. ASSUME Send \/ Resend PROVE ChoiceInv'
  BY <1>0, <1>9 DEF Send, Resend, Reply, Return, CallRepin
<1>10. CASE UNCHANGED vars
  BY <1>10 DEF vars
<1> QED
  BY <1>1, <1>2, <1>3, <1>4, <1>5, <1>6, <1>7, <1>8, <1>9, <1>10 DEF Next, Driver

(* A result is that of a call that has ended, and holds until the next. *)
LEMMA ResultStep ==
  ASSUME FewSecondaries, IInv, RepinInv, [Next]_vars
  PROVE  NoMemberMeansFailed' /\ PreferenceHonoured'
<1> USE DEF RepinInv, NoMemberMeansFailed, PreferenceHonoured, members, prefs, search, refresh, choice, locals, history
<1>1. CASE result' \notin {"no_member", "ok"}
  BY <1>1
<1>2. CASE /\ failed \subseteq failed' /\ UNCHANGED <<master, pinned, mode, tagged, call, result>>
  BY <1>2
<1>3. CASE Members \/ Elapse
  BY <1>2, <1>3 DEF Members, Crash, StepDown, Breaks, Restart, Elect, Heartbeat, Elapse
<1>4. CASE Program
  BY <1>1, <1>4 DEF Program, Query, Write, ReadPreference, Return
<1>5. CASE UNCHANGED result /\ pc # "idle"
  BY <1>1, <1>5 DEF PreferenceInv
<1>6. CASE GetAnyConnection \/ IsMaster \/ DoubleCheck \/ NoMaster \/ repin
  BY <1>1, <1>5, <1>6 DEF GetAnyConnection, IsMaster, DoubleCheck, NoMaster, repin, Return
<1>7. CASE CheckPrimary
  <2>1. /\ pc = "check_primary" /\ master \in Hosts /\ mode \in AllModes \ {"SECONDARY"}
        /\ UNCHANGED <<master, mode, tagged, call, failed>>
    BY <1>7 DEF CheckPrimary, IInv, TypeOK, PlaceInv, HostOrNone, ChoiceInv
  <2>2. CASE result' = "ok" /\ pinned' = master
    BY <2>1, <2>2 DEF ChoiceInv, Excused, AllModes
  <2>3. CASE result' = "no_member" /\ ~Answers(master) /\ mode # "PRIMARY_PREFERRED"
    BY <2>1, <2>3 DEF ChoiceInv, Excused, DownInv, AllModes
  <2> QED
    BY <1>5, <1>7, <2>1, <2>2, <2>3 DEF CheckPrimary, Pin, Return
<1>8. CASE Narrow
  BY <1>1, <1>5, <1>8 DEF Narrow, Return
<1>9. CASE Choose
  <2>1. /\ pc = "choose" /\ master \in Hosts /\ mode \in AllModes \ {"PRIMARY"}
        /\ UNCHANGED <<master, mode, tagged, call, failed>>
    BY <1>9 DEF Choose, IInv, TypeOK, PlaceInv, HostOrNone, ChoiceInv
  <2>2. ASSUME NEW h \in cands, result' = "ok", pinned' = h
        PROVE  NoMemberMeansFailed' /\ PreferenceHonoured'
    BY <2>1, <2>2 DEF ChoiceInv
  <2>3. CASE result' = "no_member" /\ (tries = 0 \/ cands = {}) /\ mode # "SECONDARY_PREFERRED"
    <3>1. cands = {}
      <4>1. IsFiniteSet(cands)
        BY FS_Subset DEF FewSecondaries, IInv, TypeOK
      <4>2. Cardinality(cands) \in Nat /\ (Cardinality(cands) = 0 => cands = {})
        BY <4>1, FS_CardinalityType, FS_EmptySet
      <4> QED
        BY <2>1, <2>3, <4>2 DEF ChoiceInv
    <3> QED
      BY <2>1, <2>3, <3>1 DEF ChoiceInv, Excused, AllModes
  <2> QED
    BY <1>5, <1>9, <2>1, <2>2, <2>3 DEF Choose, Pin, Return
<1>10. CASE (\E h \in Hosts : Ping(h)) \/ Pinged \/ Refreshed \/ Stamp \/ FindMaster
  BY <1>5, <1>10 DEF Ping, Pinged, Refreshed, Stamp, FindMaster
<1>11. CASE Send \/ Resend
  <2>1. call # "read_preference" /\ call' = call /\ (result' # "no_member")
    BY <1>11 DEF Send, Resend, Reply, Return, PreferenceInv
  <2> QED
    BY <2>1
<1>12. CASE UNCHANGED vars
  BY <1>2, <1>12 DEF vars
<1> QED
  BY <1>3, <1>4, <1>6, <1>7, <1>8, <1>9, <1>10, <1>11, <1>12 DEF Next, Driver

LEMMA RepinInvariant == FewSecondaries => (Spec => []RepinInv)
<1> SUFFICES ASSUME FewSecondaries PROVE Spec => []RepinInv
  OBVIOUS
<1>1. Init => RepinInv
  BY DEF Init, RepinInv, DownInv, PreferenceInv, ChoiceInv, NoMemberMeansFailed, PreferenceHonoured
<1>2. IInv /\ RepinInv /\ [Next]_vars => RepinInv'
  BY DownStep, PreferenceStep, ChoiceStep, ResultStep DEF RepinInv
<1> QED
  BY <1>1, <1>2, Invariant, PTL DEF Spec

(* repin gives up only when every member that the mode allows has failed   *)
(* since the call began, one after the other, each perhaps for a moment.   *)
THEOREM NoMemberIsFailure == FewSecondaries => (Spec => []NoMemberMeansFailed)
<1>1. RepinInv => NoMemberMeansFailed
  BY DEF RepinInv
<1> QED
  BY <1>1, RepinInvariant, PTL

(* A member of the second choice is pinned only when each of the first     *)
(* choice has failed, and never one whose tags do not match.               *)
THEOREM PreferenceIsHonoured == FewSecondaries => (Spec => []PreferenceHonoured)
<1>1. RepinInv => PreferenceHonoured
  BY DEF RepinInv
<1> QED
  BY <1>1, RepinInvariant, PTL
=============================================================================
