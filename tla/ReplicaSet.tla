---------------------------- MODULE ReplicaSet -----------------------------
(***************************************************************************)
(* MongoDB::MongoClient with find_master: one client object (the holder)   *)
(* with a connection of its own to each member of a replica set.           *)
(* get_master finds the primary, read_preference and repin choose the      *)
(* member that reads go to, rs_refresh looks for changes, and _do_query    *)
(* tries a query that died once more.                                      *)
(*                                                                         *)
(* The members may crash, step down, come back and be elected between any  *)
(* two messages of a call.  The list of members does not change, and their *)
(* names are the names the client was given.                               *)
(***************************************************************************)
EXTENDS Naturals, FiniteSets

CONSTANTS
    Hosts,      \* the members: keys of _servers
    None,       \* no member
    Firsts,     \* members that may be the primary at the start
    OtherTags,  \* members whose tags match none of the program's tag sets
    Modes,      \* read preference modes the program sets
    TagChoices, \* whether it gives tag sets
    Calls,      \* what the program calls
    MaxFaults,  \* bound: crashes and step-downs
    MaxRounds,  \* bound: rounds of get_master before MAX_SCAN_TIME_SEC is over
    Retries     \* _readpref_retries

AllModes == {"PRIMARY", "PRIMARY_PREFERRED", "SECONDARY", "SECONDARY_PREFERRED"}
AllCalls == {"find", "command", "write", "read_preference"}

ASSUME ReplicaSetAssumption ==
    /\ None \notin Hosts /\ Firsts \subseteq Hosts /\ OtherTags \subseteq Hosts
    /\ Modes \subseteq AllModes /\ TagChoices \subseteq BOOLEAN /\ Calls \subseteq AllCalls
    /\ MaxFaults \in Nat /\ MaxRounds \in Nat \ {0} /\ Retries \in Nat \ {0}

VARIABLES
    up,        \* members that can be reached
    primary,   \* the primary
    known,     \* the primary according to the other members
    faults,    \* crashes and step-downs so far
    conn,      \* a connection: "off", "live", or "dead": closed by the other end
    master,    \* _master; None when set_disconnected has cleared it
    holder,    \* the member whose mongo_server the holder's link points to
    pinned,    \* _readpref_pinned
    mode,      \* _readpref_mode
    tagged,    \* whether _readpref_tagsets is not empty
    aged,      \* whether ts is more than _readpref_pingfreq_sec ago
    call,      \* the call of the program that is running, or ran last
    pc,        \* where it is; "idle" between calls
    found,     \* where get_master returns to
    rounds,    \* its rounds that are left
    asked,     \* $conn of get_master, $any_conn of rs_refresh
    named,     \* the primary according to $conn
    todo,      \* members that rs_refresh has still to ping
    changed,   \* $repin_required
    after,     \* where repin returns to
    cands,     \* %secondaries of repin
    tries,     \* tries left of _check_ok or _choose_secondary
    result,    \* how the call ended
    failed,    \* history: members that could not be used at some time in the call
    reigned    \* history: primaries since the call began

members == <<up, primary, known, faults>>
prefs   == <<pinned, mode, tagged, aged>>
search  == <<found, rounds, asked, named>>
refresh == <<todo, changed>>
choice  == <<after, cands, tries>>
locals  == <<search, refresh, choice>>
history == <<failed, reigned>>
vars    == <<members, conn, master, holder, prefs, call, pc, locals, result, history>>

HostOrNone == Hosts \cup {None}

TypeOK ==
    /\ up \subseteq Hosts /\ faults \in 0..MaxFaults
    /\ primary \in HostOrNone /\ known \in HostOrNone
    /\ conn \in [Hosts -> {"off", "live", "dead"}]
    /\ master \in HostOrNone /\ holder \in HostOrNone /\ pinned \in HostOrNone
    /\ mode \in AllModes /\ tagged \in BOOLEAN /\ aged \in BOOLEAN
    /\ call \in AllCalls \cup {"none"}
    /\ pc \in {"idle", "refresh", "refreshed", "stamp", "send", "resend",
               "get_master", "ismaster", "double_check",
               "repin", "check_primary", "narrow", "choose"}
    /\ found \in {"refreshed", "repin", "send"} /\ rounds \in 0..MaxRounds
    /\ asked \in HostOrNone /\ named \in HostOrNone
    /\ todo \subseteq Hosts /\ changed \in {0, 1}
    /\ after \in {"stamp", "resend", "return"} /\ cands \subseteq Hosts /\ tries \in 0..Retries
    /\ result \in {"none", "ok", "unchanged", "refused", "died", "no_master", "no_client",
                   "no_member"}
    /\ failed \subseteq Hosts /\ reigned \subseteq Hosts

(* A client just built: all members connected, the primary found *)
Init ==
    /\ up = Hosts /\ primary \in Firsts /\ known = primary /\ faults = 0
    /\ conn = [h \in Hosts |-> "live"]
    /\ master = primary /\ holder = primary /\ pinned = None
    /\ mode = "PRIMARY" /\ tagged = FALSE /\ aged = TRUE
    /\ call = "none" /\ pc = "idle" /\ result = "none"
    /\ found = "refreshed" /\ rounds = 0 /\ asked = None /\ named = None
    /\ todo = {} /\ changed = 0 /\ after = "return" /\ cands = {} /\ tries = 0
    /\ failed = {} /\ reigned = {}

-----------------------------------------------------------------------------
(* The replica set.  A member that stops being the primary closes its      *)
(* connections.                                                            *)

Breaks(h) ==
    /\ faults < MaxFaults /\ faults' = faults + 1
    /\ conn' = [conn EXCEPT ![h] = IF @ = "live" THEN "dead" ELSE @]
    /\ primary' = IF h = primary THEN None ELSE primary
    /\ failed' = failed \cup {h}
    /\ UNCHANGED <<known, master, holder, prefs, call, pc, locals, result, reigned>>

Crash(h) == h \in up /\ up' = up \ {h} /\ Breaks(h)

StepDown == primary # None /\ Breaks(primary) /\ UNCHANGED up

Restart(h) ==
    /\ h \notin up /\ up' = up \cup {h}
    /\ UNCHANGED <<primary, known, faults, conn, master, holder, prefs, call, pc, locals, result, history>>

Elect(h) ==
    /\ primary = None /\ h \in up
    /\ primary' = h /\ reigned' = reigned \cup {h}
    /\ UNCHANGED <<up, known, faults, conn, master, holder, prefs, call, pc, locals, result, failed>>

(* The other members learn of an election, or of the loss of a primary. *)
Heartbeat ==
    /\ known # primary /\ known' = primary
    /\ UNCHANGED <<up, primary, faults, conn, master, holder, prefs, call, pc, locals, result, history>>

(* More than five seconds pass between two calls. *)
Elapse ==
    /\ pc = "idle" /\ ~aged /\ aged' = TRUE
    /\ UNCHANGED <<members, conn, master, holder, pinned, mode, tagged, call, pc, locals, result, history>>

-----------------------------------------------------------------------------
(* A request to a member and its reply: the connection is made if there is *)
(* none; one that the other end has closed fails, and is closed.           *)

Answers(h) == conn[h] = "live" \/ (conn[h] = "off" /\ h \in up)

Contact(h) == conn' = [conn EXCEPT ![h] = IF Answers(h) THEN "live" ELSE "off"]

(* Local variables are forgotten when they go out of scope. *)
Forget == /\ found' = "refreshed" /\ rounds' = 0 /\ asked' = None /\ named' = None
          /\ todo' = {} /\ changed' = 0
          /\ after' = "return" /\ cands' = {} /\ tries' = 0

Return(r) == pc' = "idle" /\ result' = r /\ Forget

-----------------------------------------------------------------------------
(* get_master, one action per request *)

CallGetMaster(h, where) ==
    /\ pc' = "get_master" /\ found' = where /\ asked' = h /\ rounds' = MaxRounds
    /\ UNCHANGED <<named, refresh, choice>>

NextRound(h) ==
    /\ pc' = "get_master" /\ asked' = h /\ rounds' = rounds - 1
    /\ UNCHANGED <<found, named, refresh, choice>>

GetMasterEnds ==
    /\ pc' = found /\ asked' = None /\ named' = None /\ rounds' = 0
    /\ UNCHANGED <<found, refresh, choice>>

(* Faulty variant: the holder is left without a member. *)
FoundUnheld(h) == master' = h /\ GetMasterEnds /\ UNCHANGED holder

(* perl_mongo_master points the holder to the member get_master returned. *)
Found(h) ==
    /\ master' = h /\ GetMasterEnds
    /\ holder' = IF found = "send" THEN h ELSE holder

(* _get_any_connection: a connected member is taken as it is. *)
GetAnyConnection ==
    LET Available(h) == conn[h] # "off" \/ h \in up
    IN  /\ pc = "get_master" /\ rounds > 0
        /\ \/ asked # None /\ pc' = "ismaster" /\ UNCHANGED <<conn, locals>>
           \/ /\ asked = None /\ pc' = "ismaster"
              /\ \E h \in Hosts :
                    /\ Available(h) /\ asked' = h
                    /\ conn' = [conn EXCEPT ![h] = IF @ = "off" THEN "live" ELSE @]
              /\ UNCHANGED <<found, rounds, named, refresh, choice>>
           \/ /\ asked = None /\ \A h \in Hosts : ~Available(h)
              /\ NextRound(None) /\ UNCHANGED conn
        /\ UNCHANGED <<members, master, holder, prefs, call, result, history>>

IsMaster ==
    /\ pc = "ismaster" /\ Contact(asked)
    /\ \/ ~Answers(asked) /\ NextRound(None) /\ UNCHANGED <<master, holder>>
       \/ Answers(asked) /\ asked = primary /\ Found(asked)
       \/ /\ Answers(asked) /\ asked # primary
          /\ IF known \in {None, asked} THEN NextRound(asked)
             ELSE /\ pc' = "double_check" /\ named' = known
                  /\ UNCHANGED <<found, rounds, asked, refresh, choice>>
          /\ UNCHANGED <<master, holder>>
    /\ UNCHANGED <<members, prefs, call, result, history>>

(* Faulty variant: whatever the named member answers, it is the master. *)
DoubleCheckTrusts ==
    /\ pc = "double_check" /\ Contact(named)
    /\ \/ Answers(named) /\ Found(named)
       \/ ~Answers(named) /\ NextRound(named) /\ UNCHANGED <<master, holder>>
    /\ UNCHANGED <<members, prefs, call, result, history>>

(* The named member is asked itself; if it had a connection that fails it  *)
(* is the one to be asked in the next round.                               *)
DoubleCheck ==
    /\ pc = "double_check" /\ Contact(named)
    /\ \/ Answers(named) /\ named = primary /\ Found(named)
       \/ /\ ~(Answers(named) /\ named = primary)
          /\ NextRound(IF conn[named] = "dead" THEN named ELSE asked)
          /\ UNCHANGED <<master, holder>>
    /\ UNCHANGED <<members, prefs, call, result, history>>

NoMaster ==
    /\ pc = "get_master" /\ rounds = 0 /\ Return("no_master")
    /\ UNCHANGED <<members, conn, master, holder, prefs, call, history>>

-----------------------------------------------------------------------------
(* repin *)

CallRepin(where) ==
    pc' = "repin" /\ after' = where /\ UNCHANGED <<search, refresh, cands, tries>>

(* Faulty variant: repin does not know who called it. *)
PinNoReturn(h) == pinned' = h /\ pc' = after /\ Forget /\ UNCHANGED result

Pin(h) == /\ pinned' = h
          /\ IF after = "return" THEN Return("ok")
             ELSE pc' = after /\ Forget /\ UNCHANGED result

repin ==
    /\ pc = "repin"
    /\ \/ master = None /\ CallGetMaster(None, "repin")
       \/ /\ master # None
          /\ pc' = IF mode \in {"PRIMARY", "PRIMARY_PREFERRED"} THEN "check_primary" ELSE "narrow"
          /\ cands' = Hosts \ {master} /\ tries' = Retries
          /\ UNCHANGED <<search, refresh, after>>
    /\ UNCHANGED <<members, conn, master, holder, prefs, call, result, history>>

(* _check_ok of the primary, with retries *)
CheckPrimary ==
    /\ pc = "check_primary" /\ Contact(master)
    /\ \/ Answers(master) /\ Pin(master)
       \/ /\ ~Answers(master) /\ tries > 1
          /\ tries' = tries - 1
          /\ UNCHANGED <<search, refresh, after, cands, pc, pinned, result>>
       \/ /\ ~Answers(master) /\ tries = 1 /\ UNCHANGED pinned
          /\ IF mode = "PRIMARY_PREFERRED"
             THEN /\ pc' = "narrow" /\ tries' = Retries
                  /\ UNCHANGED <<search, refresh, after, cands, result>>
             ELSE Return("no_member")
    /\ UNCHANGED <<members, master, holder, mode, tagged, aged, call, history>>

(* Faulty variant: members that do not match are kept. *)
NarrowKeeps ==
    /\ pc = "narrow" /\ pc' = "choose"
    /\ UNCHANGED <<locals, members, conn, master, holder, prefs, call, result, history>>

(* _narrow_by_tagsets reads the configuration from some member and deletes *)
(* the ones whose tags do not match; a member without tags stays.          *)
Narrow ==
    /\ pc = "narrow"
    /\ \/ ~tagged /\ pc' = "choose" /\ UNCHANGED <<conn, locals, result>>
       \/ /\ tagged
          /\ \E h \in Hosts :
                /\ conn[h] # "off" \/ h \in up
                /\ Contact(h)
                /\ IF Answers(h)
                   THEN /\ pc' = "choose" /\ cands' = cands \ OtherTags
                        /\ UNCHANGED <<search, refresh, after, tries, result>>
                   ELSE Return("died")
       \/ /\ tagged /\ \A h \in Hosts : conn[h] = "off" /\ h \notin up
          /\ pc' = "choose" /\ cands' = {}
          /\ UNCHANGED <<search, refresh, after, tries, conn, result>>
    /\ UNCHANGED <<members, master, holder, prefs, call, history>>

(* Faulty variant: one secondary that fails ends the search. *)
ChooseOnce ==
    /\ pc = "choose"
    /\ \/ /\ tries > 0
          /\ \E h \in cands :
                /\ Contact(h)
                /\ IF Answers(h) THEN Pin(h)
                   ELSE /\ cands' = {} /\ tries' = 0
                        /\ UNCHANGED <<search, refresh, after, pc, pinned, result>>
       \/ /\ tries = 0 \/ cands = {}
          /\ IF mode = "SECONDARY_PREFERRED"
             THEN /\ pc' = "check_primary" /\ tries' = Retries
                  /\ UNCHANGED <<search, refresh, after, cands, result>>
             ELSE Return("no_member")
          /\ UNCHANGED <<conn, pinned>>
    /\ UNCHANGED <<members, master, holder, mode, tagged, aged, call, history>>

(* _choose_secondary: at random, a member that fails is out *)
Choose ==
    /\ pc = "choose"
    /\ \/ /\ tries > 0
          /\ \E h \in cands :
                /\ Contact(h)
                /\ IF Answers(h) THEN Pin(h)
                   ELSE /\ cands' = cands \ {h} /\ tries' = tries - 1
                        /\ UNCHANGED <<search, refresh, after, pc, pinned, result>>
       \/ /\ tries = 0 \/ cands = {}
          /\ IF mode = "SECONDARY_PREFERRED"
             THEN /\ pc' = "check_primary" /\ tries' = Retries
                  /\ UNCHANGED <<search, refresh, after, cands, result>>
             ELSE Return("no_member")
          /\ UNCHANGED <<conn, pinned>>
    /\ UNCHANGED <<members, master, holder, mode, tagged, aged, call, history>>

-----------------------------------------------------------------------------
(* rs_refresh *)

Ping(h) ==
    /\ pc = "refresh" /\ h \in todo
    /\ Contact(h)
    /\ todo' = todo \ {h}
    /\ changed' = IF Answers(h) <=> conn[h] # "off" THEN changed ELSE 1
    /\ asked' = IF asked = None /\ Answers(h) THEN h ELSE asked
    /\ UNCHANGED <<found, rounds, named, choice>>
    /\ UNCHANGED <<members, master, holder, prefs, call, pc, result, history>>

(* Faulty variant: the master is not looked for. *)
PingedOnly ==
    /\ pc = "refresh" /\ todo = {}
    /\ pc' = "refreshed" /\ UNCHANGED locals
    /\ UNCHANGED <<members, conn, master, holder, prefs, call, result, history>>

Pinged ==
    /\ pc = "refresh" /\ todo = {}
    /\ IF asked # None THEN CallGetMaster(asked, "refreshed")
       ELSE pc' = "refreshed" /\ UNCHANGED locals
    /\ UNCHANGED <<members, conn, master, holder, prefs, call, result, history>>

Refreshed ==
    /\ pc = "refreshed"
    /\ IF changed = 1 THEN CallRepin("stamp") ELSE pc' = "stamp" /\ UNCHANGED locals
    /\ UNCHANGED <<members, conn, master, holder, prefs, call, result, history>>

Stamp ==
    /\ pc = "stamp" /\ aged' = FALSE /\ pc' = "send" /\ Forget
    /\ UNCHANGED <<members, conn, master, holder, pinned, mode, tagged, call, result, history>>

-----------------------------------------------------------------------------
(* The calls of the program *)

Begin(c) ==
    /\ pc = "idle" /\ c \in Calls /\ call' = c
    /\ reigned' = {primary} \ {None}
    /\ failed' = {h \in Hosts : h \notin up \/ conn[h] = "dead"}
    /\ UNCHANGED <<members, conn, master, holder, pinned, aged>>

(* find and next: only a pinned client refreshes.  A command that is for   *)
(* the primary has no client if _master is empty.                          *)
Query(c) ==
    /\ c \in {"find", "command"} /\ Begin(c)
    /\ \/ c = "command" /\ pinned # None /\ master = None /\ Return("no_client")
       \/ /\ ~(c = "command" /\ pinned # None /\ master = None)
          /\ IF pinned # None /\ aged THEN pc' = "refresh" /\ todo' = Hosts
             ELSE pc' = "send" /\ UNCHANGED todo
          /\ UNCHANGED <<search, changed, choice>>
          /\ result' = "none"
    /\ UNCHANGED <<mode, tagged>>

(* A write with its getlasterror *)
Write == /\ Begin("write") /\ pc' = "send" /\ result' = "none"
         /\ UNCHANGED <<mode, tagged, locals>>

(* Tag sets, where they are given, are the same array every time. *)
ReadPreference(m, t) ==
    /\ Begin("read_preference") /\ ~(m = "PRIMARY" /\ t)
    /\ \/ m = mode /\ t /\ tagged /\ Return("unchanged") /\ UNCHANGED <<mode, tagged>>
       \/ /\ ~(m = mode /\ t /\ tagged)
          /\ mode' = m /\ tagged' = t /\ result' = "none"
          /\ CallRepin("return")

(* set_disconnected on the link of the client that was used *)
UsesHolder == call = "write" \/ pinned = None

Target == IF UsesHolder THEN holder ELSE IF call = "command" THEN master ELSE pinned

Cleared == IF pc = "send" /\ UsesHolder THEN master' = None /\ holder' = None
           ELSE UNCHANGED <<master, holder>>

(* A secondary refuses what is for the primary; for a query the driver     *)
(* then closes the connection.                                             *)
Reply(h) ==
    LET accepted == h = primary \/ (call = "find" /\ mode # "PRIMARY")
    IN  /\ Return(IF accepted THEN "ok" ELSE "refused")
        /\ IF accepted \/ call # "find"
           THEN Contact(h) /\ UNCHANGED <<master, holder>>
           ELSE conn' = [conn EXCEPT ![h] = "off"] /\ Cleared

(* perl_mongo_master: a holder that is not connected looks for the master. *)
FindMaster ==
    /\ pc = "send" /\ UsesHolder
    /\ IF holder = None THEN TRUE ELSE conn[holder] = "off"
    /\ holder' = None /\ CallGetMaster(None, "send")
    /\ UNCHANGED <<members, conn, master, prefs, call, result, history>>

Send ==
    /\ pc = "send"
    /\ UsesHolder => IF holder = None THEN FALSE ELSE conn[holder] # "off"
    /\ \/ Answers(Target) /\ Reply(Target)
       \/ /\ ~Answers(Target) /\ Contact(Target) /\ Cleared
          /\ IF UsesHolder THEN Return("died") ELSE CallRepin("resend") /\ UNCHANGED result
    /\ UNCHANGED <<members, prefs, call, history>>

(* Once more, to the member that is pinned now *)
Resend ==
    /\ pc = "resend"
    /\ \/ Answers(pinned) /\ Reply(pinned)
       \/ ~Answers(pinned) /\ Contact(pinned) /\ Return("died") /\ UNCHANGED <<master, holder>>
    /\ UNCHANGED <<members, prefs, call, history>>

-----------------------------------------------------------------------------
Members == StepDown \/ Heartbeat \/ \E h \in Hosts : Crash(h) \/ Restart(h) \/ Elect(h)

Program == \/ \E c \in Calls : Query(c)
           \/ Write
           \/ \E m \in Modes, t \in TagChoices : ReadPreference(m, t)

Driver == \/ GetAnyConnection \/ IsMaster \/ DoubleCheck \/ NoMaster
          \/ repin \/ CheckPrimary \/ Narrow \/ Choose
          \/ (\E h \in Hosts : Ping(h)) \/ Pinged \/ Refreshed \/ Stamp
          \/ FindMaster \/ Send \/ Resend

Next == Members \/ Elapse \/ Program \/ Driver

Spec == Init /\ [][Next]_vars

(* A call goes on once begun, a set of members that no more of them leave  *)
(* recovers, and the program reads again and again.                        *)
Fairness ==
    /\ WF_vars(Driver)
    /\ \A h \in Hosts : WF_vars(Restart(h))
    /\ WF_vars(\E h \in Hosts : Elect(h)) /\ WF_vars(Heartbeat)
    /\ SF_vars(Query("find"))

(* The program now and then calls nothing for five seconds. *)
FairSpec == Spec /\ Fairness /\ SF_vars(Elapse)

-----------------------------------------------------------------------------
(* Properties *)

(* get_master returns a member only if it was the primary at some time     *)
(* since the call began, whatever the others said of it.                   *)
MasterConfirmed == [][master' # master /\ master' # None => master' \in reigned']_vars

(* repin dies for want of a member only if each member that the mode       *)
(* allows was down, or its connection broken, at some time in the call     *)
(* (there are not more secondaries than retries).                          *)
NoMemberMeansFailed ==
    result = "no_member" /\ ~tagged =>
        LET allowed == CASE mode = "PRIMARY"   -> {master}
                         [] mode = "SECONDARY" -> Hosts \ {master}
                         [] OTHER              -> Hosts
        IN  allowed \subseteq failed

(* When read_preference has repinned, the pin is what the mode and the     *)
(* tag sets ask for, and the second choice only if the first had failed.   *)
PreferenceHonoured ==
    call = "read_preference" /\ result = "ok" =>
        /\ pinned = master =>
              \/ mode \in {"PRIMARY", "PRIMARY_PREFERRED"}
              \/ /\ mode = "SECONDARY_PREFERRED"
                 /\ Hosts \ {master} \subseteq failed \cup (IF tagged THEN OtherTags ELSE {})
        /\ pinned # master =>
              /\ mode # "PRIMARY"
              /\ mode = "PRIMARY_PREFERRED" => master \in failed
              /\ tagged => pinned \notin OtherTags

(* Every call ends, with or without a primary. *)
CallEnds == pc # "idle" ~> pc = "idle"

(* Once the set is at rest, queries are answered again and again: an       *)
(* election among members that can all be reached is noticed.              *)
ReadsRecover == []<>(pc = "idle" /\ call = "find" /\ result = "ok")
=============================================================================
