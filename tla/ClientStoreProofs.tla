------------------------- MODULE ClientStoreProofs -------------------------
(***************************************************************************)
(* Proofs about ClientStore: a user who is in the call ends up with what   *)
(* the server has (StoreInSync, StoreShowsRecording).                      *)
(*                                                                         *)
(* The two properties speak of the moment when nothing is in flight, so    *)
(* the invariant has to say what is in flight: handling the events that    *)
(* are on the wire, in their order, brings the store to the state of the   *)
(* server.  Chain names the stores on that way; the last state of the call *)
(* on the wire makes what was before it irrelevant.  A button the user has *)
(* pressed changes the store before the server knows: the flags Owed are   *)
(* those with an event on its way, and the store may be ahead in them      *)
(* until that event is handled.  While the state of the call is still to   *)
(* be asked for (Pending) nothing is claimed.                              *)
(***************************************************************************)
EXTENDS ClientStore, SequenceTheorems, TLAPS

-----------------------------------------------------------------------------
(* Types                                                                   *)

Tables(R) == UNION {[S -> R] : S \in SUBSET Sessions}
SessionTables == Tables(SUBSET Flags)
StoreTables == Tables(StoreSession)
Call == [id : Nat, ses : SessionTables, host : Users \cup {None},
         screen : Sessions \cup {None}, rec : BOOLEAN]
Store == [call : Nat, ses : {None} \cup StoreTables, host : Users \cup {None},
          screen : Sessions \cup {None}, rec : BOOLEAN]

FlagMessage == [t : {"flag"}, s : Sessions, f : Flags, on : BOOLEAN]
Event ==
    FlagMessage
    \cup [t : {"call_start"}, id : Nat, host : Users]
    \cup [t : {"call_state"}, call : Call]
    \cup [t : {"user_joined", "user_left", "voice", "screen_on"}, s : Sessions]
    \cup [t : {"screen_off"}, s : Sessions \cup {None}]
    \cup [t : {"host_changed"}, host : Users]
    \cup [t : {"job_state"}, job : BOOLEAN]
    \cup [t : {"call_end"}]
Request == FlagMessage \cup [t : {"join", "leave"}, s : Sessions]
Activation ==
    [at : {"off", "config", "asked", "done"}]
    \cup [at : {"sent"}, skip : BOOLEAN]
    \cup [at : {"got"}, skip : BOOLEAN, call : Call]

-----------------------------------------------------------------------------
(* Stores and tables                                                       *)

LEMMA NoneApart ==
    /\ None \notin Sessions /\ None \notin Users /\ None # TRUE /\ None # FALSE
    /\ None \notin StoreTables
<1>1. None \notin Sessions \cup Users \cup BOOLEAN /\ \A S \in SUBSET Sessions : None \notin [S -> StoreSession]
  BY StoreAssumption
<1> QED BY <1>1 DEF StoreTables, Tables

LEMMA UserOfSession == ASSUME NEW s \in Sessions PROVE UserOf[s] \in Users
BY DEF Users

LEMMA MeIsLocal == ASSUME NEW s \in Local PROVE s \in Sessions /\ UserOf[s] = Me
<1>1. (CHOOSE t \in Local : TRUE) \in Local
  BY StoreAssumption
<1> QED BY <1>1, StoreAssumption DEF Me

LEMMA TableFacts ==
    ASSUME NEW R, NEW tab \in Tables(R)
    PROVE  /\ DOMAIN tab \subseteq Sessions
           /\ tab = [s \in DOMAIN tab |-> tab[s]]
           /\ \A s \in DOMAIN tab : tab[s] \in R
BY DEF Tables

LEMMA OnlyTable ==
    ASSUME NEW R, NEW s \in Sessions, NEW v \in R
    PROVE  /\ Only(s, v) \in Tables(R)
           /\ DOMAIN Only(s, v) = {s} /\ Only(s, v)[s] = v
<1>1. Only(s, v) \in [{s} -> R]
  BY DEF Only
<1>2. {s} \in SUBSET Sessions
  OBVIOUS
<1>3. DOMAIN Only(s, v) = {s} /\ Only(s, v)[s] = v
  BY DEF Only
<1> QED BY <1>1, <1>2, <1>3 DEF Tables

LEMMA WithTable ==
    ASSUME NEW R, NEW tab \in Tables(R), NEW s \in Sessions, NEW v \in R
    PROVE  /\ With(tab, s, v) \in Tables(R)
           /\ DOMAIN With(tab, s, v) = DOMAIN tab \cup {s}
           /\ With(tab, s, v)[s] = v
           /\ \A u \in DOMAIN tab \ {s} : With(tab, s, v)[u] = tab[u]
<1>1. DOMAIN tab \subseteq Sessions /\ \A u \in DOMAIN tab : tab[u] \in R
  BY TableFacts
<1>2. With(tab, s, v) \in [DOMAIN tab \cup {s} -> R]
  BY <1>1 DEF With
<1>3. DOMAIN tab \cup {s} \in SUBSET Sessions
  BY <1>1
<1>4. /\ DOMAIN With(tab, s, v) = DOMAIN tab \cup {s}
      /\ With(tab, s, v)[s] = v
      /\ \A u \in DOMAIN tab \ {s} : With(tab, s, v)[u] = tab[u]
  BY DEF With
<1> QED BY <1>2, <1>3, <1>4 DEF Tables

LEMMA WithoutTable ==
    ASSUME NEW R, NEW tab \in Tables(R), NEW s
    PROVE  /\ Without(tab, s) \in Tables(R)
           /\ DOMAIN Without(tab, s) = DOMAIN tab \ {s}
           /\ \A u \in DOMAIN tab \ {s} : Without(tab, s)[u] = tab[u]
<1>1. DOMAIN tab \subseteq Sessions /\ \A u \in DOMAIN tab : tab[u] \in R
  BY TableFacts
<1>2. Without(tab, s) \in [DOMAIN tab \ {s} -> R]
  BY <1>1 DEF Without
<1>3. DOMAIN tab \ {s} \in SUBSET Sessions
  BY <1>1
<1>4. /\ DOMAIN Without(tab, s) = DOMAIN tab \ {s}
      /\ \A u \in DOMAIN tab \ {s} : Without(tab, s)[u] = tab[u]
  BY DEF Without
<1> QED BY <1>2, <1>3, <1>4 DEF Tables

-----------------------------------------------------------------------------
(* What each reducer does                                                  *)

LEMMA JobStateStore ==
    ASSUME NEW st \in Store, NEW job \in BOOLEAN \cup {None}
    PROVE  /\ JOB_STATE(st, job) \in Store
           /\ JOB_STATE(st, job).rec = IF job = None THEN st.rec ELSE job
           /\ JOB_STATE(st, job).call = st.call /\ JOB_STATE(st, job).ses = st.ses
           /\ JOB_STATE(st, job).host = st.host /\ JOB_STATE(st, job).screen = st.screen
BY DEF JOB_STATE, Store

LEMMA HostStore ==
    ASSUME NEW st \in Store, NEW u \in Users \cup {None}
    PROVE  /\ CALL_HOST(st, u) \in Store
           /\ CALL_HOST(st, u).host = u
           /\ CALL_HOST(st, u).call = st.call /\ CALL_HOST(st, u).ses = st.ses
           /\ CALL_HOST(st, u).rec = st.rec /\ CALL_HOST(st, u).screen = st.screen
BY DEF CALL_HOST, Store

LEMMA CallStore ==
    ASSUME NEW st \in Store, NEW id \in Nat
    PROVE  /\ CALL_STATE(st, id) \in Store
           /\ CALL_STATE(st, id).call = id
           /\ CALL_STATE(st, id).host = st.host /\ CALL_STATE(st, id).ses = st.ses
           /\ CALL_STATE(st, id).rec = st.rec /\ CALL_STATE(st, id).screen = st.screen
BY DEF CALL_STATE, Store

LEMMA ScreenOnStore ==
    ASSUME NEW st \in Store, NEW s \in Sessions \cup {None}
    PROVE  /\ USER_SCREEN_ON(st, s) \in Store
           /\ USER_SCREEN_ON(st, s).screen = s
           /\ USER_SCREEN_ON(st, s).host = st.host /\ USER_SCREEN_ON(st, s).ses = st.ses
           /\ USER_SCREEN_ON(st, s).rec = st.rec /\ USER_SCREEN_ON(st, s).call = st.call
BY DEF USER_SCREEN_ON, Store

LEMMA ScreenOffStore ==
    ASSUME NEW st \in Store, NEW s \in Sessions \cup {None}
    PROVE  /\ USER_SCREEN_OFF(st, s) \in Store
           /\ USER_SCREEN_OFF(st, s).screen = IF st.screen = s THEN None ELSE st.screen
           /\ USER_SCREEN_OFF(st, s).host = st.host /\ USER_SCREEN_OFF(st, s).ses = st.ses
           /\ USER_SCREEN_OFF(st, s).rec = st.rec /\ USER_SCREEN_OFF(st, s).call = st.call
BY DEF USER_SCREEN_OFF, Store

LEMMA UsersStatesStore ==
    ASSUME NEW st \in Store, NEW tab \in SessionTables
    PROVE  /\ USERS_STATES(st, tab) \in Store
           /\ USERS_STATES(st, tab).ses = [s \in DOMAIN tab |-> [user |-> UserOf[s], on |-> tab[s]]]
           /\ USERS_STATES(st, tab).ses \in StoreTables
           /\ USERS_STATES(st, tab).host = st.host /\ USERS_STATES(st, tab).screen = st.screen
           /\ USERS_STATES(st, tab).rec = st.rec /\ USERS_STATES(st, tab).call = st.call
<1> DEFINE new == [s \in DOMAIN tab |-> [user |-> UserOf[s], on |-> tab[s]]]
<1>1. DOMAIN tab \subseteq Sessions /\ \A s \in DOMAIN tab : tab[s] \in SUBSET Flags
  BY TableFacts DEF SessionTables
<1>2. new \in [DOMAIN tab -> StoreSession]
  BY <1>1, UserOfSession DEF StoreSession
<1>3. new \in StoreTables
  BY <1>1, <1>2 DEF StoreTables, Tables
<1> HIDE DEF new
<1>4. USERS_STATES(st, tab) = [st EXCEPT !.ses = new]
  BY DEF USERS_STATES, new
<1>5. /\ USERS_STATES(st, tab) \in Store
      /\ USERS_STATES(st, tab).ses = new
      /\ USERS_STATES(st, tab).host = st.host /\ USERS_STATES(st, tab).screen = st.screen
      /\ USERS_STATES(st, tab).rec = st.rec /\ USERS_STATES(st, tab).call = st.call
  BY <1>3, <1>4 DEF Store
<1> QED BY <1>3, <1>5 DEF new

LEMMA JoinedStore ==
    ASSUME NEW st \in Store, NEW s \in Sessions
    PROVE  /\ USER_JOINED(st, s) \in Store /\ USER_JOINED(st, s).ses \in StoreTables
           /\ USER_JOINED(st, s).host = st.host /\ USER_JOINED(st, s).screen = st.screen
           /\ USER_JOINED(st, s).rec = st.rec /\ USER_JOINED(st, s).call = st.call
           /\ USER_JOINED(st, s).ses[s] = [user |-> UserOf[s], on |-> {}]
           /\ st.ses # None =>
                 /\ DOMAIN USER_JOINED(st, s).ses = DOMAIN st.ses \cup {s}
                 /\ \A u \in DOMAIN st.ses \ {s} : USER_JOINED(st, s).ses[u] = st.ses[u]
<1> DEFINE new == [user |-> UserOf[s], on |-> {}]
           tab == IF st.ses = None THEN Only(s, new) ELSE With(st.ses, s, new)
<1>1. new \in StoreSession
  BY UserOfSession DEF StoreSession
<1>2. st.ses \in {None} \cup StoreTables
  BY DEF Store
<1> HIDE DEF new
<1>3. /\ tab \in StoreTables
      /\ tab[s] = new
      /\ st.ses # None =>
            /\ DOMAIN tab = DOMAIN st.ses \cup {s}
            /\ \A u \in DOMAIN st.ses \ {s} : tab[u] = st.ses[u]
  <2>1. CASE st.ses = None
    BY <2>1, <1>1, OnlyTable, NoneApart DEF StoreTables
  <2>2. CASE st.ses # None
    <3>1. st.ses \in Tables(StoreSession) /\ tab = With(st.ses, s, new)
      BY <2>2, <1>2 DEF StoreTables
    <3> HIDE DEF tab
    <3>3. /\ tab \in Tables(StoreSession)
          /\ DOMAIN tab = DOMAIN st.ses \cup {s}
          /\ tab[s] = new
          /\ \A u \in DOMAIN st.ses \ {s} : tab[u] = st.ses[u]
      <4>1. s \in Sessions /\ new \in StoreSession /\ st.ses \in Tables(StoreSession)
        BY <3>1, <1>1
      <4>2. With(st.ses, s, new) \in Tables(StoreSession)
        BY <4>1, WithTable
      <4>3. /\ DOMAIN With(st.ses, s, new) = DOMAIN st.ses \cup {s}
            /\ With(st.ses, s, new)[s] = new
            /\ \A u \in DOMAIN st.ses \ {s} : With(st.ses, s, new)[u] = st.ses[u]
        BY DEF With
      <4> QED BY <3>1, <4>2, <4>3
    <3> QED BY <3>3 DEF StoreTables
  <2> QED BY <2>1, <2>2
<1>4. USER_JOINED(st, s) = [st EXCEPT !.ses = tab]
  BY DEF USER_JOINED, new, tab
<1> HIDE DEF tab
<1>5. /\ USER_JOINED(st, s) \in Store /\ USER_JOINED(st, s).ses = tab
      /\ USER_JOINED(st, s).host = st.host /\ USER_JOINED(st, s).screen = st.screen
      /\ USER_JOINED(st, s).rec = st.rec /\ USER_JOINED(st, s).call = st.call
  BY <1>3, <1>4 DEF Store
<1> QED BY <1>3, <1>5 DEF new

LEMMA LeftStore ==
    ASSUME NEW st \in Store, NEW s \in Sessions
    PROVE  /\ USER_LEFT(st, s) \in Store
           /\ USER_LEFT(st, s).host = st.host
           /\ USER_LEFT(st, s).screen = IF st.screen = s THEN None ELSE st.screen
           /\ USER_LEFT(st, s).rec = st.rec /\ USER_LEFT(st, s).call = st.call
           /\ st.ses = None => USER_LEFT(st, s).ses = None
           /\ st.ses # None =>
                 /\ USER_LEFT(st, s).ses \in StoreTables
                 /\ DOMAIN USER_LEFT(st, s).ses = DOMAIN st.ses \ {s}
                 /\ \A u \in DOMAIN st.ses \ {s} : USER_LEFT(st, s).ses[u] = st.ses[u]
<1> DEFINE tab == IF st.ses = None THEN None ELSE Without(st.ses, s)
<1>2. st.ses \in {None} \cup StoreTables
  BY DEF Store
<1>3. /\ tab \in {None} \cup StoreTables
      /\ st.ses = None => tab = None
      /\ st.ses # None =>
            /\ tab \in StoreTables
            /\ DOMAIN tab = DOMAIN st.ses \ {s}
            /\ \A u \in DOMAIN st.ses \ {s} : tab[u] = st.ses[u]
  BY <1>2, WithoutTable DEF StoreTables
<1>4. USER_LEFT(st, s) = [st EXCEPT !.ses = tab, !.screen = IF @ = s THEN None ELSE @]
  BY DEF USER_LEFT, tab
<1> HIDE DEF tab
<1>5. /\ USER_LEFT(st, s) \in Store /\ USER_LEFT(st, s).ses = tab
      /\ USER_LEFT(st, s).host = st.host
      /\ USER_LEFT(st, s).screen = IF st.screen = s THEN None ELSE st.screen
      /\ USER_LEFT(st, s).rec = st.rec /\ USER_LEFT(st, s).call = st.call
  BY <1>3, <1>4 DEF Store
<1> QED BY <1>3, <1>5

LEMMA PutSessionStore ==
    ASSUME NEW st \in Store, NEW s \in Sessions, NEW on \in SUBSET Flags
    PROVE  /\ PutSession(st, s, on) \in Store /\ PutSession(st, s, on).ses \in StoreTables
           /\ PutSession(st, s, on).host = st.host /\ PutSession(st, s, on).screen = st.screen
           /\ PutSession(st, s, on).rec = st.rec /\ PutSession(st, s, on).call = st.call
           /\ PutSession(st, s, on).ses[s].on = on
           /\ st.ses # None =>
                 /\ DOMAIN PutSession(st, s, on).ses = DOMAIN st.ses \cup {s}
                 /\ PutSession(st, s, on).ses[s].user = IF s \in DOMAIN st.ses THEN st.ses[s].user ELSE None
                 /\ \A u \in DOMAIN st.ses \ {s} : PutSession(st, s, on).ses[u] = st.ses[u]
<1> DEFINE first == [user |-> UserOf[s], on |-> on]
           user == IF s \in DOMAIN st.ses THEN st.ses[s].user ELSE None
           new == [user |-> user, on |-> on]
           tab == IF st.ses = None THEN Only(s, first) ELSE With(st.ses, s, new)
<1>1. first \in StoreSession
  BY UserOfSession DEF StoreSession
<1>2. st.ses \in {None} \cup StoreTables
  BY DEF Store
<1>6. st.ses # None => user \in Users \cup {None}
  <2>1. CASE st.ses # None /\ s \in DOMAIN st.ses
    <3>1. st.ses[s] \in StoreSession
      BY <1>2, <2>1, TableFacts DEF StoreTables
    <3> QED BY <2>1, <3>1 DEF StoreSession
  <2>2. CASE s \notin DOMAIN st.ses
    BY <2>2
  <2> QED BY <2>1, <2>2
<1> HIDE DEF user
<1>7. st.ses # None => new \in StoreSession
  BY <1>6 DEF StoreSession
<1>8. new.user = user /\ new.on = on /\ first.on = on
  OBVIOUS
<1> HIDE DEF new, first
<1>3. /\ tab \in StoreTables
      /\ tab[s].on = on
      /\ st.ses # None =>
            /\ DOMAIN tab = DOMAIN st.ses \cup {s}
            /\ tab[s].user = user
            /\ \A u \in DOMAIN st.ses \ {s} : tab[u] = st.ses[u]
  <2>1. CASE st.ses = None
    BY <2>1, <1>1, <1>8, OnlyTable DEF StoreTables
  <2>2. CASE st.ses # None
    <3>1. st.ses \in Tables(StoreSession) /\ tab = With(st.ses, s, new)
      BY <2>2, <1>2 DEF StoreTables
    <3> HIDE DEF tab
    <3>2. new \in StoreSession
      BY <2>2, <1>7
    <3> HIDE DEF tab
    <3>3. /\ tab \in Tables(StoreSession)
          /\ DOMAIN tab = DOMAIN st.ses \cup {s}
          /\ tab[s] = new
          /\ \A u \in DOMAIN st.ses \ {s} : tab[u] = st.ses[u]
      <4>1. s \in Sessions /\ new \in StoreSession /\ st.ses \in Tables(StoreSession)
        BY <3>1, <3>2
      <4>2. With(st.ses, s, new) \in Tables(StoreSession)
        BY <4>1, WithTable
      <4>3. /\ DOMAIN With(st.ses, s, new) = DOMAIN st.ses \cup {s}
            /\ With(st.ses, s, new)[s] = new
            /\ \A u \in DOMAIN st.ses \ {s} : With(st.ses, s, new)[u] = st.ses[u]
        BY DEF With
      <4> QED BY <3>1, <4>2, <4>3
    <3> QED BY <3>3, <1>8 DEF StoreTables
  <2> QED BY <2>1, <2>2
<1>4. PutSession(st, s, on) = [st EXCEPT !.ses = tab]
  BY DEF PutSession, tab, new, first, user
<1> HIDE DEF tab
<1>5. /\ PutSession(st, s, on) \in Store /\ PutSession(st, s, on).ses = tab
      /\ PutSession(st, s, on).host = st.host /\ PutSession(st, s, on).screen = st.screen
      /\ PutSession(st, s, on).rec = st.rec /\ PutSession(st, s, on).call = st.call
  BY <1>3, <1>4 DEF Store
<1> QED BY <1>3, <1>5 DEF user

LEMMA FlagsOfSession ==
    ASSUME NEW st \in Store, NEW s, st.ses # None
    PROVE  /\ FlagsOf(st, s) \in SUBSET Flags
           /\ FlagsOf(st, s) = IF s \in DOMAIN st.ses THEN st.ses[s].on ELSE {}
<1>1. st.ses \in StoreTables
  BY DEF Store
<1>2. s \in DOMAIN st.ses => st.ses[s] \in StoreSession
  BY <1>1, TableFacts DEF StoreTables
<1> QED BY <1>2 DEF FlagsOf, Known, StoreSession

LEMMA FlagStore ==
    ASSUME NEW st \in Store, NEW s \in Sessions, NEW f \in Flags, NEW on \in BOOLEAN
    PROVE  /\ USER_FLAG(st, s, f, on) \in Store /\ USER_FLAG(st, s, f, on).ses # None
           /\ USER_FLAG(st, s, f, on).host = st.host /\ USER_FLAG(st, s, f, on).screen = st.screen
           /\ USER_FLAG(st, s, f, on).rec = st.rec /\ USER_FLAG(st, s, f, on).call = st.call
           /\ st.ses # None =>
                 /\ DOMAIN USER_FLAG(st, s, f, on).ses = DOMAIN st.ses \cup {s}
                 /\ USER_FLAG(st, s, f, on).ses[s].user = IF s \in DOMAIN st.ses THEN st.ses[s].user ELSE None
                 /\ \A g \in Flags : g \in USER_FLAG(st, s, f, on).ses[s].on <=>
                       IF g = f THEN on ELSE s \in DOMAIN st.ses /\ g \in st.ses[s].on
                 /\ \A u \in DOMAIN st.ses \ {s} : USER_FLAG(st, s, f, on).ses[u] = st.ses[u]
<1> DEFINE flags == IF st.ses = None THEN FirstFlags(f, on)
                    ELSE IF on THEN FlagsOf(st, s) \cup {f} ELSE FlagsOf(st, s) \ {f}
<1>1. flags \in SUBSET Flags
  BY FlagsOfSession DEF FirstFlags
<1>2. USER_FLAG(st, s, f, on) = PutSession(st, s, flags)
  BY DEF USER_FLAG
<1>3. st.ses # None =>
         \A g \in Flags : g \in flags <=> IF g = f THEN on ELSE s \in DOMAIN st.ses /\ g \in st.ses[s].on
  BY FlagsOfSession
<1> HIDE DEF flags
<1> QED BY <1>1, <1>2, <1>3, PutSessionStore, NoneApart

LEMMA VoiceStore ==
    ASSUME NEW st \in Store, NEW s \in Sessions
    PROVE  /\ USER_VOICE(st, s) \in Store /\ USER_VOICE(st, s).ses # None
           /\ USER_VOICE(st, s).host = st.host /\ USER_VOICE(st, s).screen = st.screen
           /\ USER_VOICE(st, s).rec = st.rec /\ USER_VOICE(st, s).call = st.call
           /\ st.ses # None =>
                 /\ DOMAIN USER_VOICE(st, s).ses = DOMAIN st.ses \cup {s}
                 /\ USER_VOICE(st, s).ses[s].user = IF s \in DOMAIN st.ses THEN st.ses[s].user ELSE None
                 /\ USER_VOICE(st, s).ses[s].on = IF s \in DOMAIN st.ses THEN st.ses[s].on ELSE {}
                 /\ \A u \in DOMAIN st.ses \ {s} : USER_VOICE(st, s).ses[u] = st.ses[u]
<1>1. FlagsOf(st, s) \in SUBSET Flags
  <2>1. CASE st.ses = None
    BY <2>1 DEF FlagsOf, Known
  <2>2. CASE st.ses # None
    BY <2>2, FlagsOfSession
  <2> QED BY <2>1, <2>2
<1>2. USER_VOICE(st, s) = PutSession(st, s, FlagsOf(st, s))
  BY DEF USER_VOICE
<1>3. st.ses # None => FlagsOf(st, s) = IF s \in DOMAIN st.ses THEN st.ses[s].on ELSE {}
  BY FlagsOfSession
<1> DEFINE flags == FlagsOf(st, s)
<1> HIDE DEF flags
<1>4. USER_VOICE(st, s) = PutSession(st, s, flags) /\ flags \in SUBSET Flags
  BY <1>1, <1>2 DEF flags
<1>5. st.ses # None => flags = IF s \in DOMAIN st.ses THEN st.ses[s].on ELSE {}
  BY <1>3 DEF flags
<1> DEFINE p == USER_VOICE(st, s)
<1>6. /\ p \in Store /\ p.ses \in StoreTables
      /\ p.host = st.host /\ p.screen = st.screen /\ p.rec = st.rec /\ p.call = st.call
      /\ p.ses[s].on = flags
      /\ st.ses # None =>
            /\ DOMAIN p.ses = DOMAIN st.ses \cup {s}
            /\ p.ses[s].user = IF s \in DOMAIN st.ses THEN st.ses[s].user ELSE None
            /\ \A u \in DOMAIN st.ses \ {s} : p.ses[u] = st.ses[u]
  BY <1>4, PutSessionStore
<1> HIDE DEF p
<1>7. p.ses # None
  BY <1>6, NoneApart
<1> QED BY <1>5, <1>6, <1>7 DEF p

LEMMA LoadStore ==
    ASSUME NEW st \in Store, NEW c \in Call
    PROVE  /\ loadCallState(st, c) \in Store /\ loadCallState(st, c).ses # None
           /\ loadCallState(st, c).call = c.id /\ loadCallState(st, c).host = c.host
           /\ loadCallState(st, c).screen = c.screen
           /\ loadCallState(st, c).rec = IF c.rec THEN TRUE ELSE st.rec
           /\ loadCallState(st, c).ses = [s \in DOMAIN c.ses |-> [user |-> UserOf[s], on |-> c.ses[s]]]
<1> DEFINE job == IF c.rec THEN TRUE ELSE None
           s1 == CALL_STATE(st, c.id)
           s2 == JOB_STATE(s1, job)
           s3 == USER_SCREEN_ON(s2, c.screen)
           s4 == CALL_HOST(s3, c.host)
           s5 == USERS_STATES(s4, c.ses)
<1>1. /\ c.id \in Nat /\ c.ses \in SessionTables /\ c.host \in Users \cup {None}
      /\ c.screen \in Sessions \cup {None} /\ c.rec \in BOOLEAN
  BY DEF Call
<1>2. s1 \in Store /\ s1.call = c.id /\ s1.rec = st.rec
  BY <1>1, CallStore
<1> HIDE DEF s1
<1>3. s2 \in Store /\ s2.call = c.id /\ s2.rec = IF c.rec THEN TRUE ELSE st.rec
  <2>1. job \in BOOLEAN \cup {None} /\ (job = None <=> ~c.rec) /\ (c.rec => job = TRUE)
    BY <1>1, NoneApart
  <2> HIDE DEF job
  <2> QED BY <1>1, <1>2, <2>1, JobStateStore
<1> HIDE DEF s2
<1>4. s3 \in Store /\ s3.call = c.id /\ s3.screen = c.screen /\ s3.rec = s2.rec
  BY <1>1, <1>3, ScreenOnStore
<1> HIDE DEF s3
<1>5. s4 \in Store /\ s4.call = c.id /\ s4.screen = c.screen /\ s4.rec = s2.rec /\ s4.host = c.host
  BY <1>1, <1>4, HostStore
<1> HIDE DEF s4
<1>6. /\ s5 \in Store /\ s5.call = c.id /\ s5.screen = c.screen /\ s5.rec = s2.rec /\ s5.host = c.host
      /\ s5.ses \in StoreTables
      /\ s5.ses = [s \in DOMAIN c.ses |-> [user |-> UserOf[s], on |-> c.ses[s]]]
  BY <1>1, <1>5, UsersStatesStore
<1> HIDE DEF s5
<1>7. loadCallState(st, c) = s5
  BY DEF loadCallState, s1, s2, s3, s4, s5
<1> QED BY <1>3, <1>6, <1>7, NoneApart

-----------------------------------------------------------------------------
(* What a handler does to the store: Apply.  A handler that ends the call  *)
(* closes the client too, which the invariant does not speak of.           *)

Apply(st, e) ==
    CASE e.t = "call_start" -> CALL_HOST(CALL_STATE(JOB_STATE(st, None), e.id), e.host)
      [] e.t = "call_state" -> loadCallState(st, e.call)
      [] e.t = "user_joined" -> USER_JOINED(st, e.s)
      [] e.t = "user_left" -> USER_LEFT(st, e.s)
      [] e.t = "call_end" -> st
      [] e.t = "flag" -> USER_FLAG(st, e.s, e.f, e.on)
      [] e.t = "voice" -> USER_VOICE(st, e.s)
      [] e.t = "screen_on" -> USER_SCREEN_ON(st, e.s)
      [] e.t = "screen_off" -> USER_SCREEN_OFF(st, e.s)
      [] e.t = "host_changed" -> CALL_HOST(st, e.host)
      [] e.t = "job_state" -> JOB_STATE(st, e.job)

LEMMA EventFields ==
    ASSUME NEW e \in Event
    PROVE  /\ e.t \in {"call_start", "call_state", "user_joined", "user_left", "call_end", "flag", "voice",
                       "screen_on", "screen_off", "host_changed", "job_state"}
           /\ e.t = "call_start" => e.id \in Nat /\ e.host \in Users
           /\ e.t = "call_state" => e.call \in Call
           /\ e.t \in {"user_joined", "user_left", "voice", "screen_on"} => e.s \in Sessions
           /\ e.t = "screen_off" => e.s \in Sessions \cup {None}
           /\ e.t = "flag" => e.s \in Sessions /\ e.f \in Flags /\ e.on \in BOOLEAN
           /\ e.t = "host_changed" => e.host \in Users
           /\ e.t = "job_state" => e.job \in BOOLEAN
BY DEF Event, FlagMessage

LEMMA ApplyStore ==
    ASSUME NEW st \in Store, NEW e \in Event
    PROVE  Apply(st, e) \in Store
<1>1. CASE e.t = "call_start"
  <2>1. JOB_STATE(st, None) \in Store
    BY JobStateStore
  <2>2. CALL_STATE(JOB_STATE(st, None), e.id) \in Store
    BY <1>1, <2>1, CallStore, EventFields
  <2> QED BY <1>1, <2>2, HostStore, EventFields DEF Apply
<1>2. CASE e.t = "call_state"
  BY <1>2, LoadStore, EventFields DEF Apply
<1>3. CASE e.t = "user_joined"
  BY <1>3, JoinedStore, EventFields DEF Apply
<1>4. CASE e.t = "user_left"
  BY <1>4, LeftStore, EventFields DEF Apply
<1>5. CASE e.t = "call_end"
  BY <1>5 DEF Apply
<1>6. CASE e.t = "flag"
  BY <1>6, FlagStore, EventFields DEF Apply
<1>7. CASE e.t = "voice"
  BY <1>7, VoiceStore, EventFields DEF Apply
<1>8. CASE e.t = "screen_on"
  BY <1>8, ScreenOnStore, EventFields DEF Apply
<1>9. CASE e.t = "screen_off"
  BY <1>9, ScreenOffStore, EventFields DEF Apply
<1>10. CASE e.t = "host_changed"
  BY <1>10, HostStore, EventFields DEF Apply
<1>11. CASE e.t = "job_state"
  BY <1>11, JobStateStore, EventFields DEF Apply
<1> QED BY <1>1, <1>2, <1>3, <1>4, <1>5, <1>6, <1>7, <1>8, <1>9, <1>10, <1>11, EventFields

LEMMA ApplyIs ==
    ASSUME NEW st, NEW e
    PROVE  /\ e.t = "call_start" =>
                 Apply(st, e) = CALL_HOST(CALL_STATE(JOB_STATE(st, None), e.id), e.host)
           /\ e.t = "call_state" => Apply(st, e) = loadCallState(st, e.call)
           /\ e.t = "user_joined" => Apply(st, e) = USER_JOINED(st, e.s)
           /\ e.t = "user_left" => Apply(st, e) = USER_LEFT(st, e.s)
           /\ e.t = "call_end" => Apply(st, e) = st
           /\ e.t = "flag" => Apply(st, e) = USER_FLAG(st, e.s, e.f, e.on)
           /\ e.t = "voice" => Apply(st, e) = USER_VOICE(st, e.s)
           /\ e.t = "screen_on" => Apply(st, e) = USER_SCREEN_ON(st, e.s)
           /\ e.t = "screen_off" => Apply(st, e) = USER_SCREEN_OFF(st, e.s)
           /\ e.t = "host_changed" => Apply(st, e) = CALL_HOST(st, e.host)
           /\ e.t = "job_state" => Apply(st, e) = JOB_STATE(st, e.job)
BY DEF Apply

-----------------------------------------------------------------------------
(* Two stores that differ in what the user of session c has pressed        *)

\* b has at least the recording of a, and a's call, host, sharer and sessions;
\* the flags F of session c may differ.
Near(F, c, a, b) ==
    /\ a.call = b.call /\ a.host = b.host /\ a.screen = b.screen /\ (a.rec => b.rec)
    /\ a.ses # None /\ b.ses # None /\ DOMAIN a.ses = DOMAIN b.ses
    /\ \A s \in DOMAIN a.ses : a.ses[s].user = b.ses[s].user
    /\ \A s \in DOMAIN a.ses, f \in Flags :
          (s = c /\ f \in F) \/ (f \in a.ses[s].on <=> f \in b.ses[s].on)

LEMMA NearWider ==
    ASSUME NEW F, NEW G, NEW c, NEW a, NEW b, Near(F, c, a, b), F \subseteq G
    PROVE  Near(G, c, a, b)
BY DEF Near

\* A press of the user of session c.
LEMMA NearPress ==
    ASSUME NEW F, NEW c \in Sessions, NEW a \in Store, NEW b \in Store, Near(F, c, a, b),
           c \in DOMAIN a.ses, NEW f \in Flags, NEW on \in BOOLEAN
    PROVE  Near(F \cup {f}, c, a, USER_FLAG(b, c, f, on))
<1> DEFINE d == USER_FLAG(b, c, f, on)
<1>1. b.ses # None /\ c \in DOMAIN b.ses /\ DOMAIN a.ses = DOMAIN b.ses
  BY DEF Near
<1>2. /\ d.host = b.host /\ d.screen = b.screen /\ d.rec = b.rec /\ d.call = b.call /\ d.ses # None
      /\ DOMAIN d.ses = DOMAIN b.ses
      /\ d.ses[c].user = b.ses[c].user
      /\ \A g \in Flags : g \in d.ses[c].on <=> IF g = f THEN on ELSE g \in b.ses[c].on
      /\ \A u \in DOMAIN b.ses \ {c} : d.ses[u] = b.ses[u]
  <2>1. /\ d.host = b.host /\ d.screen = b.screen /\ d.rec = b.rec /\ d.call = b.call /\ d.ses # None
        /\ DOMAIN d.ses = DOMAIN b.ses \cup {c}
        /\ d.ses[c].user = IF c \in DOMAIN b.ses THEN b.ses[c].user ELSE None
        /\ \A g \in Flags : g \in d.ses[c].on <=> IF g = f THEN on ELSE c \in DOMAIN b.ses /\ g \in b.ses[c].on
        /\ \A u \in DOMAIN b.ses \ {c} : d.ses[u] = b.ses[u]
    BY <1>1, FlagStore
  <2> QED BY <1>1, <2>1
<1> HIDE DEF d
<1>3. /\ a.call = d.call /\ a.host = d.host /\ a.screen = d.screen /\ (a.rec => d.rec)
      /\ a.ses # None /\ d.ses # None /\ DOMAIN a.ses = DOMAIN d.ses
  BY <1>1, <1>2 DEF Near
<1>4. ASSUME NEW s \in DOMAIN a.ses
      PROVE  /\ a.ses[s].user = d.ses[s].user
             /\ \A g \in Flags : (s = c /\ g \in F \cup {f}) \/ (g \in a.ses[s].on <=> g \in d.ses[s].on)
  <2>1. /\ a.ses[s].user = b.ses[s].user
        /\ \A g \in Flags : (s = c /\ g \in F) \/ (g \in a.ses[s].on <=> g \in b.ses[s].on)
    BY DEF Near
  <2>2. CASE s = c
    BY <1>2, <2>1, <2>2
  <2>3. CASE s # c
    BY <1>1, <1>2, <2>1, <2>3
  <2> QED BY <2>2, <2>3
<1> QED BY <1>3, <1>4 DEF Near, d

\* An event keeps two stores near; the flag that it sets is the same in both.
LEMMA NearApply ==
    ASSUME NEW F, NEW G, NEW c, NEW a \in Store, NEW b \in Store, Near(F, c, a, b),
           NEW e \in Event, e.t \notin {"call_start", "call_state"},
           \A f \in F \ G : e.t = "flag" /\ e.s = c /\ e.f = f
    PROVE  Near(G, c, Apply(a, e), Apply(b, e))
<1> DEFINE x == Apply(a, e)
           y == Apply(b, e)
<1> HIDE DEF x, y
<1>1. /\ a.call = b.call /\ a.host = b.host /\ a.screen = b.screen /\ (a.rec => b.rec)
      /\ a.ses # None /\ b.ses # None /\ DOMAIN a.ses = DOMAIN b.ses
      /\ \A s \in DOMAIN a.ses : a.ses[s].user = b.ses[s].user
      /\ \A s \in DOMAIN a.ses, f \in Flags :
            (s = c /\ f \in F) \/ (f \in a.ses[s].on <=> f \in b.ses[s].on)
  BY DEF Near
<1>2. CASE e.t = "user_joined"
  <2>1. e.s \in Sessions /\ F \subseteq G
    BY <1>2, EventFields
  <2>2. /\ x.ses # None /\ x.host = a.host /\ x.screen = a.screen /\ x.rec = a.rec /\ x.call = a.call
        /\ x.ses[e.s] = [user |-> UserOf[e.s], on |-> {}]
        /\ DOMAIN x.ses = DOMAIN a.ses \cup {e.s}
        /\ \A u \in DOMAIN a.ses \ {e.s} : x.ses[u] = a.ses[u]
    BY <1>1, <1>2, <2>1, JoinedStore, ApplyIs, NoneApart DEF x
  <2>3. /\ y.ses # None /\ y.host = b.host /\ y.screen = b.screen /\ y.rec = b.rec /\ y.call = b.call
        /\ y.ses[e.s] = [user |-> UserOf[e.s], on |-> {}]
        /\ DOMAIN y.ses = DOMAIN b.ses \cup {e.s}
        /\ \A u \in DOMAIN b.ses \ {e.s} : y.ses[u] = b.ses[u]
    BY <1>1, <1>2, <2>1, JoinedStore, ApplyIs, NoneApart DEF y
  <2>4. ASSUME NEW s \in DOMAIN x.ses
        PROVE  /\ x.ses[s].user = y.ses[s].user
               /\ \A f \in Flags : (s = c /\ f \in G) \/ (f \in x.ses[s].on <=> f \in y.ses[s].on)
    <3>1. CASE s = e.s
      BY <2>2, <2>3, <3>1
    <3>2. CASE s # e.s
      <4>1. s \in DOMAIN a.ses \ {e.s} /\ s \in DOMAIN b.ses \ {e.s}
        BY <1>1, <2>2, <3>2
      <4> QED BY <1>1, <2>1, <2>2, <2>3, <4>1
    <3> QED BY <3>1, <3>2
  <2> QED BY <1>1, <2>2, <2>3, <2>4 DEF Near, x, y
<1>3. CASE e.t = "user_left"
  <2>1. e.s \in Sessions /\ F \subseteq G
    BY <1>3, EventFields
  <2>2. /\ x.ses # None /\ x.host = a.host /\ x.rec = a.rec /\ x.call = a.call
        /\ x.screen = IF a.screen = e.s THEN None ELSE a.screen
        /\ DOMAIN x.ses = DOMAIN a.ses \ {e.s}
        /\ \A u \in DOMAIN a.ses \ {e.s} : x.ses[u] = a.ses[u]
    BY <1>1, <1>3, <2>1, LeftStore, ApplyIs, NoneApart DEF x
  <2>3. /\ y.ses # None /\ y.host = b.host /\ y.rec = b.rec /\ y.call = b.call
        /\ y.screen = IF b.screen = e.s THEN None ELSE b.screen
        /\ DOMAIN y.ses = DOMAIN b.ses \ {e.s}
        /\ \A u \in DOMAIN b.ses \ {e.s} : y.ses[u] = b.ses[u]
    BY <1>1, <1>3, <2>1, LeftStore, ApplyIs, NoneApart DEF y
  <2>4. ASSUME NEW s \in DOMAIN x.ses
        PROVE  /\ x.ses[s].user = y.ses[s].user
               /\ \A f \in Flags : (s = c /\ f \in G) \/ (f \in x.ses[s].on <=> f \in y.ses[s].on)
    <3>1. s \in DOMAIN a.ses \ {e.s} /\ s \in DOMAIN b.ses \ {e.s}
      BY <1>1, <2>2
    <3> QED BY <1>1, <2>1, <2>2, <2>3, <3>1
  <2> QED BY <1>1, <2>2, <2>3, <2>4 DEF Near, x, y
<1>4. CASE e.t = "flag"
  <2>1. e.s \in Sessions /\ e.f \in Flags /\ e.on \in BOOLEAN
    BY <1>4, EventFields
  <2>2. /\ x.ses # None /\ x.host = a.host /\ x.screen = a.screen /\ x.rec = a.rec /\ x.call = a.call
        /\ DOMAIN x.ses = DOMAIN a.ses \cup {e.s}
        /\ x.ses[e.s].user = IF e.s \in DOMAIN a.ses THEN a.ses[e.s].user ELSE None
        /\ \A g \in Flags : g \in x.ses[e.s].on <=>
              IF g = e.f THEN e.on ELSE e.s \in DOMAIN a.ses /\ g \in a.ses[e.s].on
        /\ \A u \in DOMAIN a.ses \ {e.s} : x.ses[u] = a.ses[u]
    BY <1>1, <1>4, <2>1, FlagStore, ApplyIs DEF x
  <2>3. /\ y.ses # None /\ y.host = b.host /\ y.screen = b.screen /\ y.rec = b.rec /\ y.call = b.call
        /\ DOMAIN y.ses = DOMAIN b.ses \cup {e.s}
        /\ y.ses[e.s].user = IF e.s \in DOMAIN b.ses THEN b.ses[e.s].user ELSE None
        /\ \A g \in Flags : g \in y.ses[e.s].on <=>
              IF g = e.f THEN e.on ELSE e.s \in DOMAIN b.ses /\ g \in b.ses[e.s].on
        /\ \A u \in DOMAIN b.ses \ {e.s} : y.ses[u] = b.ses[u]
    BY <1>1, <1>4, <2>1, FlagStore, ApplyIs DEF y
  <2>4. ASSUME NEW s \in DOMAIN x.ses
        PROVE  /\ x.ses[s].user = y.ses[s].user
               /\ \A f \in Flags : (s = c /\ f \in G) \/ (f \in x.ses[s].on <=> f \in y.ses[s].on)
    <3>1. CASE s = e.s
      <4>1. x.ses[s].user = y.ses[s].user
        BY <1>1, <2>2, <2>3, <3>1
      <4>2. ASSUME NEW g \in Flags
            PROVE  (s = c /\ g \in G) \/ (g \in x.ses[s].on <=> g \in y.ses[s].on)
        <5>1. CASE g = e.f
          BY <2>2, <2>3, <3>1, <5>1
        <5>2. CASE g # e.f
          <6>1. g \in F => g \in G
            BY <5>2
          <6>2. /\ g \in x.ses[s].on <=> s \in DOMAIN a.ses /\ g \in a.ses[s].on
                /\ g \in y.ses[s].on <=> s \in DOMAIN b.ses /\ g \in b.ses[s].on
            BY <2>2, <2>3, <3>1, <5>2
          <6> QED BY <1>1, <6>1, <6>2
        <5> QED BY <5>1, <5>2
      <4> QED BY <4>1, <4>2
    <3>2. CASE s # e.s
      <4>1. s \in DOMAIN a.ses \ {e.s} /\ s \in DOMAIN b.ses \ {e.s}
        BY <1>1, <2>2, <3>2
      <4>2. s = c => F \subseteq G
        BY <3>2
      <4> QED BY <1>1, <2>2, <2>3, <4>1, <4>2
    <3> QED BY <3>1, <3>2
  <2> QED BY <1>1, <2>2, <2>3, <2>4 DEF Near, x, y
<1>5. CASE e.t = "voice"
  <2>1. e.s \in Sessions /\ F \subseteq G
    BY <1>5, EventFields
  <2>2. /\ x.ses # None /\ x.host = a.host /\ x.screen = a.screen /\ x.rec = a.rec /\ x.call = a.call
        /\ DOMAIN x.ses = DOMAIN a.ses \cup {e.s}
        /\ x.ses[e.s].user = IF e.s \in DOMAIN a.ses THEN a.ses[e.s].user ELSE None
        /\ x.ses[e.s].on = IF e.s \in DOMAIN a.ses THEN a.ses[e.s].on ELSE {}
        /\ \A u \in DOMAIN a.ses \ {e.s} : x.ses[u] = a.ses[u]
    BY <1>1, <1>5, <2>1, VoiceStore, ApplyIs DEF x
  <2>3. /\ y.ses # None /\ y.host = b.host /\ y.screen = b.screen /\ y.rec = b.rec /\ y.call = b.call
        /\ DOMAIN y.ses = DOMAIN b.ses \cup {e.s}
        /\ y.ses[e.s].user = IF e.s \in DOMAIN b.ses THEN b.ses[e.s].user ELSE None
        /\ y.ses[e.s].on = IF e.s \in DOMAIN b.ses THEN b.ses[e.s].on ELSE {}
        /\ \A u \in DOMAIN b.ses \ {e.s} : y.ses[u] = b.ses[u]
    BY <1>1, <1>5, <2>1, VoiceStore, ApplyIs DEF y
  <2>4. ASSUME NEW s \in DOMAIN x.ses
        PROVE  /\ x.ses[s].user = y.ses[s].user
               /\ \A f \in Flags : (s = c /\ f \in G) \/ (f \in x.ses[s].on <=> f \in y.ses[s].on)
    <3>1. CASE s = e.s
      BY <1>1, <2>1, <2>2, <2>3, <3>1
    <3>2. CASE s # e.s
      <4>1. s \in DOMAIN a.ses \ {e.s} /\ s \in DOMAIN b.ses \ {e.s}
        BY <1>1, <2>2, <3>2
      <4> QED BY <1>1, <2>1, <2>2, <2>3, <4>1
    <3> QED BY <3>1, <3>2
  <2> QED BY <1>1, <2>2, <2>3, <2>4 DEF Near, x, y
<1>6. CASE e.t \in {"call_end", "screen_on", "screen_off", "host_changed", "job_state"}
  <2>1. F \subseteq G
    BY <1>6
  <2>2. x.ses = a.ses /\ y.ses = b.ses /\ x.call = a.call /\ y.call = b.call
    BY <1>6, ApplyIs, EventFields, ScreenOnStore, ScreenOffStore, HostStore, JobStateStore DEF x, y
  <2>3. x.host = y.host /\ x.screen = y.screen
    BY <1>1, <1>6, ApplyIs, EventFields, ScreenOnStore, ScreenOffStore, HostStore, JobStateStore DEF x, y
  <2>4. x.rec => y.rec
    BY <1>1, <1>6, ApplyIs, EventFields, ScreenOnStore, ScreenOffStore, HostStore, JobStateStore DEF x, y
  <2> QED BY <1>1, <2>1, <2>2, <2>3, <2>4 DEF Near, x, y
<1> QED BY <1>2, <1>3, <1>4, <1>5, <1>6, EventFields

-----------------------------------------------------------------------------
(* The store once the events on the wire are handled                       *)

\* The stores h that the events of w lead through from the store st: h[j] after
\* event j.  The last state of the call on the wire, at k, makes what was
\* before it irrelevant.  In all of them the session c is in the call id.
Chain(w, F, c, id, st, k, h) ==
    /\ k \in 0 .. Len(w)
    /\ h \in [k .. Len(w) -> Store]
    /\ \A j \in k + 1 .. Len(w) : w[j].t \notin {"call_state", "call_start"} /\ h[j] = Apply(h[j - 1], w[j])
    /\ \A j \in k .. Len(w) : h[j].call = id /\ h[j].ses # None /\ c \in DOMAIN h[j].ses
    /\ k > 0 => w[k].t = "call_state" /\ h[k] = loadCallState(EmptyStore, w[k].call)
    /\ k = 0 => Near(F, c, h[0], st)

Tracked(w, F, c, id, st, T) == \E k, h : Chain(w, F, c, id, st, k, h) /\ h[Len(w)] = T

LEMMA EmptyIsStore == EmptyStore \in Store
BY DEF EmptyStore, Store

\* The server publishes an event.
LEMMA TrackAppend ==
    ASSUME NEW w \in Seq(Event), NEW F, NEW c, NEW id, NEW st, NEW T, Tracked(w, F, c, id, st, T),
           NEW e \in Event, e.t \notin {"call_state", "call_start"},
           Apply(T, e).call = id, Apply(T, e).ses # None, c \in DOMAIN Apply(T, e).ses
    PROVE  Tracked(Append(w, e), F, c, id, st, Apply(T, e))
<1>1. PICK k, h : Chain(w, F, c, id, st, k, h) /\ h[Len(w)] = T
  BY DEF Tracked
<1> DEFINE n == Len(w)
           v == Append(w, e)
           g == [j \in k .. n + 1 |-> IF j = n + 1 THEN Apply(T, e) ELSE h[j]]
<1>2. n \in Nat /\ v \in Seq(Event) /\ Len(v) = n + 1 /\ v[n + 1] = e /\ \A j \in 1 .. n : v[j] = w[j]
  OBVIOUS
<1>3. k \in 0 .. n /\ h \in [k .. n -> Store]
  BY <1>1 DEF Chain
<1>4. T \in Store
  BY <1>1, <1>2, <1>3
<1>5. Apply(T, e) \in Store
  BY <1>4, ApplyStore
<1>6. g \in [k .. n + 1 -> Store]
  BY <1>2, <1>3, <1>5
<1>7. /\ \A j \in k .. n : g[j] = h[j]
      /\ g[n + 1] = Apply(T, e)
  BY <1>2, <1>3
<1> HIDE DEF g, v
<1>8. ASSUME NEW j \in k + 1 .. n + 1
      PROVE  v[j].t \notin {"call_state", "call_start"} /\ g[j] = Apply(g[j - 1], v[j])
  <2>1. CASE j = n + 1
    <3>1. g[j - 1] = T
      BY <1>1, <1>2, <1>3, <1>7, <2>1
    <3> QED BY <1>2, <1>7, <2>1, <3>1
  <2>2. CASE j # n + 1
    <3>1. j \in k + 1 .. n /\ j \in 1 .. n /\ j - 1 \in k .. n
      BY <1>2, <1>3, <2>2
    <3>2. w[j].t \notin {"call_state", "call_start"} /\ h[j] = Apply(h[j - 1], w[j])
      BY <1>1, <3>1 DEF Chain
    <3>3. v[j] = w[j] /\ g[j] = h[j] /\ g[j - 1] = h[j - 1]
      BY <1>2, <1>3, <1>7, <3>1
    <3> QED BY <3>2, <3>3
  <2> QED BY <2>1, <2>2
<1>9. \A j \in k .. n + 1 : g[j].call = id /\ g[j].ses # None /\ c \in DOMAIN g[j].ses
  <2>1. \A j \in k .. n : h[j].call = id /\ h[j].ses # None /\ c \in DOMAIN h[j].ses
    BY <1>1 DEF Chain
  <2>2. \A j \in k .. n + 1 : j \in k .. n \/ j = n + 1
    BY <1>2, <1>3
  <2> QED BY <1>7, <2>1, <2>2
<1>10. k > 0 => v[k].t = "call_state" /\ g[k] = loadCallState(EmptyStore, v[k].call)
  BY <1>1, <1>2, <1>3, <1>7 DEF Chain
<1>11. k = 0 => Near(F, c, g[0], st)
  BY <1>1, <1>2, <1>3, <1>7 DEF Chain
<1>12. Chain(v, F, c, id, st, k, g)
  BY <1>2, <1>3, <1>6, <1>8, <1>9, <1>10, <1>11 DEF Chain
<1>13. g[Len(v)] = Apply(T, e)
  BY <1>2, <1>7
<1> QED BY <1>12, <1>13 DEF Tracked, v

\* The server publishes the state of the call.
LEMMA TrackState ==
    ASSUME NEW w \in Seq(Event), NEW F, NEW c, NEW st, NEW v \in Call, c \in DOMAIN v.ses
    PROVE  Tracked(Append(w, StateEvent(v)), F, c, v.id, st, loadCallState(EmptyStore, v))
<1> DEFINE n == Len(w)
           T == loadCallState(EmptyStore, v)
           x == Append(w, StateEvent(v))
           h == [j \in n + 1 .. n + 1 |-> T]
<1>1. StateEvent(v) \in Event /\ StateEvent(v).t = "call_state" /\ StateEvent(v).call = v
  BY DEF StateEvent, Event
<1>2. n \in Nat /\ x \in Seq(Event) /\ Len(x) = n + 1 /\ x[n + 1] = StateEvent(v)
  BY <1>1
<1>3. T \in Store /\ T.ses # None /\ T.call = v.id /\ DOMAIN T.ses = DOMAIN v.ses
  BY LoadStore, EmptyIsStore
<1> HIDE DEF T, x
<1>4. n + 1 \in n + 1 .. n + 1 /\ \A j \in n + 1 .. n + 1 : j = n + 1
  BY <1>2
<1>5. h \in [n + 1 .. n + 1 -> Store] /\ h[n + 1] = T
  BY <1>3, <1>4
<1> HIDE DEF h
<1>6. Chain(x, F, c, v.id, st, n + 1, h)
  <2>1. n + 1 \in 0 .. Len(x) /\ n + 1 > 0 /\ (n + 1) + 1 .. Len(x) = {}
    BY <1>2
  <2>2. \A j \in n + 1 .. Len(x) : h[j].call = v.id /\ h[j].ses # None /\ c \in DOMAIN h[j].ses
    BY <1>2, <1>3, <1>4, <1>5
  <2>3. x[n + 1].t = "call_state" /\ h[n + 1] = loadCallState(EmptyStore, x[n + 1].call)
    BY <1>1, <1>2, <1>5 DEF T
  <2> QED BY <1>2, <1>5, <2>1, <2>2, <2>3 DEF Chain
<1> QED BY <1>2, <1>5, <1>6 DEF Tracked, T, x

\* The web app handles the first event.
LEMMA TrackHandled ==
    ASSUME NEW w \in Seq(Event), w # <<>>, NEW F, NEW G, NEW c, NEW id, NEW st \in Store, NEW T,
           Tracked(w, F, c, id, st, T),
           \A f \in F \ G : Head(w).t = "flag" /\ Head(w).s = c /\ Head(w).f = f
    PROVE  Tracked(Tail(w), G, c, id, Apply(st, Head(w)), T)
<1>1. PICK k, h : Chain(w, F, c, id, st, k, h) /\ h[Len(w)] = T
  BY DEF Tracked
<1> DEFINE n == Len(w)
           v == Tail(w)
           m == IF k = 0 THEN 0 ELSE k - 1
           g == [j \in m .. n - 1 |-> h[j + 1]]
           e == Head(w)
<1>2. n \in Nat /\ n > 0 /\ v \in Seq(Event) /\ Len(v) = n - 1 /\ e \in Event /\ w[1] = e
      /\ \A j \in 1 .. n - 1 : v[j] = w[j + 1]
  OBVIOUS
<1>3. k \in 0 .. n /\ h \in [k .. n -> Store]
  BY <1>1 DEF Chain
<1>4. m \in 0 .. n - 1 /\ \A j \in m .. n - 1 : j + 1 \in k .. n
  BY <1>2, <1>3
<1>5. g \in [m .. n - 1 -> Store] /\ \A j \in m .. n - 1 : g[j] = h[j + 1]
  BY <1>3, <1>4
<1> HIDE DEF g, v, e
<1>6. ASSUME NEW j \in m + 1 .. n - 1
      PROVE  v[j].t \notin {"call_state", "call_start"} /\ g[j] = Apply(g[j - 1], v[j])
  <2>1. j + 1 \in k + 1 .. n /\ j \in 1 .. n - 1 /\ j - 1 \in m .. n - 1 /\ j \in m .. n - 1 /\ (j + 1) - 1 = j
    BY <1>2, <1>3, <1>4
  <2>2. w[j + 1].t \notin {"call_state", "call_start"} /\ h[j + 1] = Apply(h[(j + 1) - 1], w[j + 1])
    BY <1>1, <2>1 DEF Chain
  <2>3. v[j] = w[j + 1] /\ g[j] = h[j + 1] /\ g[j - 1] = h[j]
    BY <1>2, <1>5, <2>1
  <2> QED BY <2>1, <2>2, <2>3
<1>7. \A j \in m .. n - 1 : g[j].call = id /\ g[j].ses # None /\ c \in DOMAIN g[j].ses
  <2>1. \A j \in k .. n : h[j].call = id /\ h[j].ses # None /\ c \in DOMAIN h[j].ses
    BY <1>1 DEF Chain
  <2> QED BY <1>4, <1>5, <2>1
<1>8. m > 0 => v[m].t = "call_state" /\ g[m] = loadCallState(EmptyStore, v[m].call)
  <2>1. SUFFICES ASSUME m > 0 PROVE v[m].t = "call_state" /\ g[m] = loadCallState(EmptyStore, v[m].call)
    OBVIOUS
  <2>2. k > 0 /\ m \in 1 .. n - 1 /\ m + 1 = k
    BY <1>3, <1>4, <2>1
  <2>3. v[m] = w[k] /\ g[m] = h[k]
    BY <1>2, <1>5, <2>2
  <2> QED BY <1>1, <2>2, <2>3 DEF Chain
<1>9. m = 0 => Near(G, c, g[0], Apply(st, e))
  <2>1. SUFFICES ASSUME m = 0 PROVE Near(G, c, g[0], Apply(st, e))
    OBVIOUS
  <2>2. g[0] = h[1]
    BY <1>2, <1>5, <2>1
  <2>3. CASE k = 0
    <3>1. Near(F, c, h[0], st) /\ h[0] \in Store
      BY <1>1, <1>2, <1>3, <2>3 DEF Chain
    <3>2. 1 \in k + 1 .. n /\ 1 - 1 = 0
      BY <1>2, <2>3
    <3>3. w[1].t \notin {"call_state", "call_start"} /\ h[1] = Apply(h[1 - 1], w[1])
      BY <1>1, <3>2 DEF Chain
    <3>4. e.t \notin {"call_state", "call_start"} /\ h[1] = Apply(h[0], e)
      BY <1>2, <3>2, <3>3
    <3>5. \A f \in F \ G : e.t = "flag" /\ e.s = c /\ e.f = f
      BY DEF e
    <3> QED BY <1>2, <2>2, <3>1, <3>4, <3>5, NearApply
  <2>4. CASE k = 1
    <3>1. e.t = "call_state" /\ h[1] = loadCallState(EmptyStore, e.call)
      BY <1>1, <1>2, <2>4 DEF Chain
    <3>2. Apply(st, e) = loadCallState(st, e.call) /\ e.call \in Call
      BY <1>2, <3>1, ApplyIs, EventFields
    <3> DEFINE a == loadCallState(EmptyStore, e.call)
               b == loadCallState(st, e.call)
    <3>3. /\ a.ses # None /\ a.call = e.call.id /\ a.host = e.call.host /\ a.screen = e.call.screen
          /\ a.rec = (IF e.call.rec THEN TRUE ELSE EmptyStore.rec)
          /\ a.ses = [s \in DOMAIN e.call.ses |-> [user |-> UserOf[s], on |-> e.call.ses[s]]]
      BY <3>2, LoadStore, EmptyIsStore
    <3>4. /\ b.ses # None /\ b.call = e.call.id /\ b.host = e.call.host /\ b.screen = e.call.screen
          /\ b.rec = (IF e.call.rec THEN TRUE ELSE st.rec)
          /\ b.ses = [s \in DOMAIN e.call.ses |-> [user |-> UserOf[s], on |-> e.call.ses[s]]]
      BY <3>2, LoadStore
    <3>5. EmptyStore.rec = FALSE
      BY DEF EmptyStore
    <3> HIDE DEF a, b
    <3>6. a.ses = b.ses /\ (a.rec => b.rec)
      BY <3>3, <3>4, <3>5
    <3>7. Near(G, c, a, b)
      BY <3>3, <3>4, <3>6 DEF Near
    <3> QED BY <2>2, <3>1, <3>2, <3>7 DEF a, b
  <2> QED BY <1>3, <2>1, <2>3, <2>4
<1>10. Chain(v, G, c, id, Apply(st, e), m, g)
  BY <1>2, <1>4, <1>5, <1>6, <1>7, <1>8, <1>9 DEF Chain
<1>11. g[Len(v)] = T
  BY <1>1, <1>2, <1>4, <1>5
<1> QED BY <1>10, <1>11 DEF Tracked, v, e

\* The user of session c presses a button: the flag is on its way to the server.
LEMMA TrackPress ==
    ASSUME NEW w \in Seq(Event), NEW F, NEW c \in Sessions, NEW id, NEW st \in Store, NEW T,
           Tracked(w, F, c, id, st, T), NEW f \in Flags, NEW on \in BOOLEAN
    PROVE  Tracked(w, F \cup {f}, c, id, USER_FLAG(st, c, f, on), T)
<1>1. PICK k, h : Chain(w, F, c, id, st, k, h) /\ h[Len(w)] = T
  BY DEF Tracked
<1>2. k = 0 => Near(F \cup {f}, c, h[0], USER_FLAG(st, c, f, on))
  <2>1. SUFFICES ASSUME k = 0 PROVE Near(F \cup {f}, c, h[0], USER_FLAG(st, c, f, on))
    OBVIOUS
  <2>2. Near(F, c, h[0], st) /\ h[0] \in Store /\ c \in DOMAIN h[0].ses
    BY <1>1, <2>1 DEF Chain
  <2> QED BY <2>2, NearPress
<1>3. Chain(w, F \cup {f}, c, id, USER_FLAG(st, c, f, on), k, h)
  BY <1>1, <1>2 DEF Chain
<1> QED BY <1>1, <1>3 DEF Tracked

LEMMA TrackWider ==
    ASSUME NEW w, NEW F, NEW G, NEW c, NEW id, NEW st, NEW T, Tracked(w, F, c, id, st, T), F \subseteq G
    PROVE  Tracked(w, G, c, id, st, T)
<1>1. PICK k, h : Chain(w, F, c, id, st, k, h) /\ h[Len(w)] = T
  BY DEF Tracked
<1>2. k = 0 => Near(G, c, h[0], st)
  BY <1>1, NearWider DEF Chain
<1>3. Chain(w, G, c, id, st, k, h)
  BY <1>1, <1>2 DEF Chain
<1> QED BY <1>1, <1>3 DEF Tracked

LEMMA TrackFacts ==
    ASSUME NEW w \in Seq(Event), NEW F, NEW c, NEW id, NEW st, NEW T, Tracked(w, F, c, id, st, T)
    PROVE  /\ T \in Store /\ T.call = id /\ T.ses # None /\ c \in DOMAIN T.ses
           /\ w = <<>> => Near(F, c, T, st)
<1>1. PICK k, h : Chain(w, F, c, id, st, k, h) /\ h[Len(w)] = T
  BY DEF Tracked
<1>2. k \in 0 .. Len(w) /\ Len(w) \in k .. Len(w)
  BY <1>1 DEF Chain
<1>3. T \in Store /\ T.call = id /\ T.ses # None /\ c \in DOMAIN T.ses
  BY <1>1, <1>2 DEF Chain
<1>4. w = <<>> => Near(F, c, T, st)
  BY <1>1, <1>2 DEF Chain
<1> QED BY <1>3, <1>4

\* A store that does not have the call yet is of no importance.
LEMMA TrackOther ==
    ASSUME NEW w \in Seq(Event), NEW F, NEW c, NEW id, NEW st, NEW st2, NEW T, Tracked(w, F, c, id, st, T),
           st.call # id
    PROVE  Tracked(w, F, c, id, st2, T)
<1>1. PICK k, h : Chain(w, F, c, id, st, k, h) /\ h[Len(w)] = T
  BY DEF Tracked
<1>2. k \in 0 .. Len(w) /\ Len(w) \in Nat
  BY <1>1 DEF Chain
<1>3. k # 0
  <2>1. SUFFICES ASSUME k = 0 PROVE FALSE
    OBVIOUS
  <2>2. 0 \in k .. Len(w) /\ h[0].call = st.call
    BY <1>1, <1>2, <2>1 DEF Chain, Near
  <2> QED BY <1>1, <2>2 DEF Chain
<1>4. Chain(w, F, c, id, st2, k, h)
  BY <1>1, <1>3 DEF Chain
<1> QED BY <1>1, <1>4 DEF Tracked

-----------------------------------------------------------------------------
(* A store that shows what the server has                                  *)

Agree(T, v) ==
    /\ T.call = v.id /\ T.host = v.host /\ T.screen = v.screen /\ (v.rec => T.rec)
    /\ T.ses # None /\ DOMAIN v.ses \subseteq DOMAIN T.ses
    /\ \A s \in DOMAIN v.ses :
          T.ses[s].user = UserOf[s] /\ \A f \in Flags : f \in T.ses[s].on <=> f \in v.ses[s]
    /\ \A s \in DOMAIN T.ses \ DOMAIN v.ses : T.ses[s].user = None

\* The calls v and w are the same but for what is named.
SameBut(v, w, names) ==
    /\ w.id = v.id
    /\ "ses" \in names \/ w.ses = v.ses
    /\ "host" \in names \/ w.host = v.host
    /\ "screen" \in names \/ w.screen = v.screen
    /\ "rec" \in names \/ w.rec = v.rec

LEMMA AgreeLoaded ==
    ASSUME NEW v \in Call
    PROVE  Agree(loadCallState(EmptyStore, v), v)
<1> DEFINE T == loadCallState(EmptyStore, v)
<1>1. /\ T.ses # None /\ T.call = v.id /\ T.host = v.host /\ T.screen = v.screen
      /\ T.rec = (IF v.rec THEN TRUE ELSE EmptyStore.rec)
      /\ T.ses = [s \in DOMAIN v.ses |-> [user |-> UserOf[s], on |-> v.ses[s]]]
  BY LoadStore, EmptyIsStore
<1> HIDE DEF T
<1> QED BY <1>1 DEF Agree, T

LEMMA AgreeJoined ==
    ASSUME NEW T \in Store, NEW v, NEW w, Agree(T, v), NEW s \in Sessions,
           SameBut(v, w, {"ses"}), w.ses = With(v.ses, s, {})
    PROVE  Agree(USER_JOINED(T, s), w)
<1> DEFINE U == USER_JOINED(T, s)
<1>1. /\ U.ses # None /\ U.host = T.host /\ U.screen = T.screen /\ U.rec = T.rec /\ U.call = T.call
      /\ U.ses[s] = [user |-> UserOf[s], on |-> {}]
      /\ DOMAIN U.ses = DOMAIN T.ses \cup {s}
      /\ \A u \in DOMAIN T.ses \ {s} : U.ses[u] = T.ses[u]
  BY JoinedStore, NoneApart DEF Agree
<1> HIDE DEF U
<1>2. /\ DOMAIN w.ses = DOMAIN v.ses \cup {s} /\ w.ses[s] = {}
      /\ \A u \in DOMAIN v.ses \ {s} : w.ses[u] = v.ses[u]
  BY DEF With
<1>3. U.call = w.id /\ U.host = w.host /\ U.screen = w.screen /\ (w.rec => U.rec)
  BY <1>1 DEF Agree, SameBut
<1>4. ASSUME NEW u \in DOMAIN w.ses
      PROVE  U.ses[u].user = UserOf[u] /\ \A f \in Flags : f \in U.ses[u].on <=> f \in w.ses[u]
  <2>1. CASE u = s
    BY <1>1, <1>2, <2>1
  <2>2. CASE u # s
    <3>1. u \in DOMAIN v.ses \ {s} /\ u \in DOMAIN T.ses \ {s}
      BY <1>2, <2>2 DEF Agree
    <3> QED BY <1>1, <1>2, <3>1 DEF Agree
  <2> QED BY <2>1, <2>2
<1>5. ASSUME NEW u \in DOMAIN U.ses \ DOMAIN w.ses
      PROVE  U.ses[u].user = None
  <2>1. u \in DOMAIN T.ses \ {s} /\ u \in DOMAIN T.ses \ DOMAIN v.ses
    BY <1>1, <1>2
  <2> QED BY <1>1, <2>1 DEF Agree
<1>6. DOMAIN w.ses \subseteq DOMAIN U.ses
  BY <1>1, <1>2 DEF Agree
<1> QED BY <1>1, <1>3, <1>4, <1>5, <1>6 DEF Agree, U

LEMMA AgreeLeft ==
    ASSUME NEW T \in Store, NEW v, NEW w, Agree(T, v), NEW s \in Sessions,
           SameBut(v, w, {"ses", "screen"}), w.ses = Without(v.ses, s),
           w.screen = IF v.screen = s THEN None ELSE v.screen
    PROVE  Agree(USER_LEFT(T, s), w)
<1> DEFINE U == USER_LEFT(T, s)
<1>1. /\ U.ses # None /\ U.host = T.host /\ U.rec = T.rec /\ U.call = T.call
      /\ U.screen = IF T.screen = s THEN None ELSE T.screen
      /\ DOMAIN U.ses = DOMAIN T.ses \ {s}
      /\ \A u \in DOMAIN T.ses \ {s} : U.ses[u] = T.ses[u]
  BY LeftStore, NoneApart DEF Agree
<1> HIDE DEF U
<1>2. /\ DOMAIN w.ses = DOMAIN v.ses \ {s}
      /\ \A u \in DOMAIN v.ses \ {s} : w.ses[u] = v.ses[u]
  BY DEF Without
<1>3. U.call = w.id /\ U.host = w.host /\ U.screen = w.screen /\ (w.rec => U.rec)
  BY <1>1 DEF Agree, SameBut
<1>4. ASSUME NEW u \in DOMAIN w.ses
      PROVE  U.ses[u].user = UserOf[u] /\ \A f \in Flags : f \in U.ses[u].on <=> f \in w.ses[u]
  <2>1. u \in DOMAIN v.ses \ {s} /\ u \in DOMAIN T.ses \ {s}
    BY <1>2 DEF Agree
  <2> QED BY <1>1, <1>2, <2>1 DEF Agree
<1>5. ASSUME NEW u \in DOMAIN U.ses \ DOMAIN w.ses
      PROVE  U.ses[u].user = None
  <2>1. u \in DOMAIN T.ses \ {s} /\ u \in DOMAIN T.ses \ DOMAIN v.ses
    BY <1>1, <1>2
  <2> QED BY <1>1, <2>1 DEF Agree
<1>6. DOMAIN w.ses \subseteq DOMAIN U.ses
  BY <1>1, <1>2 DEF Agree
<1> QED BY <1>1, <1>3, <1>4, <1>5, <1>6 DEF Agree, U

LEMMA AgreeFlag ==
    ASSUME NEW T \in Store, NEW v, NEW w, Agree(T, v), NEW s \in Sessions, NEW f \in Flags, NEW on \in BOOLEAN,
           s \in DOMAIN v.ses, SameBut(v, w, {"ses"}), DOMAIN w.ses = DOMAIN v.ses,
           \A g \in Flags : g \in w.ses[s] <=> IF g = f THEN on ELSE g \in v.ses[s],
           \A u \in DOMAIN v.ses \ {s} : w.ses[u] = v.ses[u]
    PROVE  Agree(USER_FLAG(T, s, f, on), w)
<1> DEFINE U == USER_FLAG(T, s, f, on)
<1>1. s \in DOMAIN T.ses /\ DOMAIN T.ses \cup {s} = DOMAIN T.ses /\ T.ses # None
  BY DEF Agree
<1>2. /\ U.ses # None /\ U.host = T.host /\ U.screen = T.screen /\ U.rec = T.rec /\ U.call = T.call
      /\ DOMAIN U.ses = DOMAIN T.ses \cup {s}
      /\ U.ses[s].user = IF s \in DOMAIN T.ses THEN T.ses[s].user ELSE None
      /\ \A g \in Flags : g \in U.ses[s].on <=> IF g = f THEN on ELSE s \in DOMAIN T.ses /\ g \in T.ses[s].on
      /\ \A u \in DOMAIN T.ses \ {s} : U.ses[u] = T.ses[u]
  BY <1>1, FlagStore
<1> HIDE DEF U
<1>3. U.call = w.id /\ U.host = w.host /\ U.screen = w.screen /\ (w.rec => U.rec)
  BY <1>2 DEF Agree, SameBut
<1>4. ASSUME NEW u \in DOMAIN w.ses
      PROVE  U.ses[u].user = UserOf[u] /\ \A g \in Flags : g \in U.ses[u].on <=> g \in w.ses[u]
  <2>1. CASE u = s
    BY <1>1, <1>2, <2>1 DEF Agree
  <2>2. CASE u # s
    <3>1. u \in DOMAIN v.ses \ {s} /\ u \in DOMAIN T.ses \ {s}
      BY <2>2 DEF Agree
    <3> QED BY <1>2, <3>1 DEF Agree
  <2> QED BY <2>1, <2>2
<1>5. ASSUME NEW u \in DOMAIN U.ses \ DOMAIN w.ses
      PROVE  U.ses[u].user = None
  <2>1. u \in DOMAIN T.ses \ {s} /\ u \in DOMAIN T.ses \ DOMAIN v.ses
    BY <1>1, <1>2
  <2> QED BY <1>2, <2>1 DEF Agree
<1>6. DOMAIN w.ses \subseteq DOMAIN U.ses
  BY <1>1, <1>2 DEF Agree
<1> QED BY <1>2, <1>3, <1>4, <1>5, <1>6 DEF Agree, U

LEMMA AgreeVoice ==
    ASSUME NEW T \in Store, NEW v, Agree(T, v), NEW s \in Sessions
    PROVE  Agree(USER_VOICE(T, s), v)
<1> DEFINE U == USER_VOICE(T, s)
<1>1. T.ses # None
  BY DEF Agree
<1>2. /\ U.ses # None /\ U.host = T.host /\ U.screen = T.screen /\ U.rec = T.rec /\ U.call = T.call
      /\ DOMAIN U.ses = DOMAIN T.ses \cup {s}
      /\ U.ses[s].user = IF s \in DOMAIN T.ses THEN T.ses[s].user ELSE None
      /\ U.ses[s].on = IF s \in DOMAIN T.ses THEN T.ses[s].on ELSE {}
      /\ \A u \in DOMAIN T.ses \ {s} : U.ses[u] = T.ses[u]
  BY <1>1, VoiceStore
<1> HIDE DEF U
<1>3. U.call = v.id /\ U.host = v.host /\ U.screen = v.screen /\ (v.rec => U.rec)
  BY <1>2 DEF Agree
<1>4. ASSUME NEW u \in DOMAIN v.ses
      PROVE  U.ses[u].user = UserOf[u] /\ \A g \in Flags : g \in U.ses[u].on <=> g \in v.ses[u]
  <2>1. CASE u = s
    BY <1>2, <2>1 DEF Agree
  <2>2. CASE u # s
    <3>1. u \in DOMAIN T.ses \ {s}
      BY <2>2 DEF Agree
    <3> QED BY <1>2, <3>1 DEF Agree
  <2> QED BY <2>1, <2>2
<1>5. ASSUME NEW u \in DOMAIN U.ses \ DOMAIN v.ses
      PROVE  U.ses[u].user = None
  <2>1. CASE u = s
    BY <1>2, <2>1 DEF Agree
  <2>2. CASE u # s
    <3>1. u \in DOMAIN T.ses \ {s} /\ u \in DOMAIN T.ses \ DOMAIN v.ses
      BY <1>2, <2>2
    <3> QED BY <1>2, <3>1 DEF Agree
  <2> QED BY <2>1, <2>2
<1>6. DOMAIN v.ses \subseteq DOMAIN U.ses
  BY <1>2 DEF Agree
<1> QED BY <1>2, <1>3, <1>4, <1>5, <1>6 DEF Agree, U

LEMMA AgreeHost ==
    ASSUME NEW T \in Store, NEW v, NEW w, Agree(T, v), NEW u \in Users, SameBut(v, w, {"host"}), w.host = u
    PROVE  Agree(CALL_HOST(T, u), w)
<1> DEFINE U == CALL_HOST(T, u)
<1>1. U.host = u /\ U.screen = T.screen /\ U.rec = T.rec /\ U.call = T.call /\ U.ses = T.ses
  BY HostStore
<1> HIDE DEF U
<1> QED BY <1>1 DEF Agree, SameBut, U

LEMMA AgreeScreenOn ==
    ASSUME NEW T \in Store, NEW v, NEW w, Agree(T, v), NEW s \in Sessions, SameBut(v, w, {"screen"}), w.screen = s
    PROVE  Agree(USER_SCREEN_ON(T, s), w)
<1> DEFINE U == USER_SCREEN_ON(T, s)
<1>1. U.host = T.host /\ U.screen = s /\ U.rec = T.rec /\ U.call = T.call /\ U.ses = T.ses
  BY ScreenOnStore
<1> HIDE DEF U
<1> QED BY <1>1 DEF Agree, SameBut, U

LEMMA AgreeScreenOff ==
    ASSUME NEW T \in Store, NEW v, NEW w, Agree(T, v), NEW s \in Sessions \cup {None}, SameBut(v, w, {"screen"}),
           w.screen = IF v.screen = s THEN None ELSE v.screen
    PROVE  Agree(USER_SCREEN_OFF(T, s), w)
<1> DEFINE U == USER_SCREEN_OFF(T, s)
<1>1. /\ U.host = T.host /\ U.rec = T.rec /\ U.call = T.call /\ U.ses = T.ses
      /\ U.screen = IF T.screen = s THEN None ELSE T.screen
  BY ScreenOffStore
<1> HIDE DEF U
<1> QED BY <1>1 DEF Agree, SameBut, U

LEMMA AgreeJob ==
    ASSUME NEW T \in Store, NEW v, NEW w, Agree(T, v), NEW job \in BOOLEAN, SameBut(v, w, {"rec"}), w.rec = job
    PROVE  Agree(JOB_STATE(T, job), w)
<1> DEFINE U == JOB_STATE(T, job)
<1>1. /\ U.host = T.host /\ U.screen = T.screen /\ U.call = T.call /\ U.ses = T.ses
      /\ U.rec = IF job = None THEN T.rec ELSE job
  BY JobStateStore
<1>2. job # None
  BY NoneApart
<1> HIDE DEF U
<1> QED BY <1>1, <1>2 DEF Agree, SameBut, U


-----------------------------------------------------------------------------
(* What is on the wire brings the store to the state of the server         *)

\* The flags of session c that are on their way to the server or back.
FlagOf(m, c, f) == m.t = "flag" /\ m.s = c /\ m.f = f
Owed(w, r, c) ==
    {f \in Flags : \/ \E i \in 1 .. Len(w) : FlagOf(w[i], c, f)
                   \/ \E i \in 1 .. Len(r) : FlagOf(r[i], c, f)}

SyncedAt(w, F, c, v, st) == \E T : Tracked(w, F, c, v.id, st, T) /\ Agree(T, v)

LEMMA SyncedWider ==
    ASSUME NEW w, NEW F, NEW G, NEW c, NEW v, NEW st, SyncedAt(w, F, c, v, st), F \subseteq G
    PROVE  SyncedAt(w, G, c, v, st)
BY TrackWider DEF SyncedAt

LEMMA SyncedState ==
    ASSUME NEW w \in Seq(Event), NEW F, NEW c, NEW st, NEW v \in Call, c \in DOMAIN v.ses
    PROVE  SyncedAt(Append(w, StateEvent(v)), F, c, v, st)
BY TrackState, AgreeLoaded DEF SyncedAt

\* The event e is published with the change from v to x.
LEMMA SyncedAppend ==
    ASSUME NEW w \in Seq(Event), NEW F, NEW c, NEW st, NEW v, NEW x, SyncedAt(w, F, c, v, st),
           x.id = v.id, c \in DOMAIN x.ses,
           NEW e \in Event, e.t \notin {"call_state", "call_start"},
           \A T \in Store : Agree(T, v) => Agree(Apply(T, e), x)
    PROVE  SyncedAt(Append(w, e), F, c, x, st)
<1>1. PICK T : Tracked(w, F, c, v.id, st, T) /\ Agree(T, v)
  BY DEF SyncedAt
<1>2. T \in Store
  BY <1>1, TrackFacts
<1>3. Agree(Apply(T, e), x)
  BY <1>1, <1>2
<1>4. Apply(T, e).call = v.id /\ Apply(T, e).ses # None /\ c \in DOMAIN Apply(T, e).ses
  BY <1>3 DEF Agree
<1>5. Tracked(Append(w, e), F, c, v.id, st, Apply(T, e))
  BY <1>1, <1>4, TrackAppend
<1> QED BY <1>3, <1>5 DEF SyncedAt

LEMMA ConcatOne ==
    ASSUME NEW S, NEW w \in Seq(S), NEW e \in S
    PROVE  w \o <<e>> = Append(w, e) /\ w \o <<>> = w /\ <<e>> \in Seq(S) /\ <<>> \in Seq(S)
<1>1. <<e>> \in Seq(S) /\ <<>> \in Seq(S)
  OBVIOUS
<1>2. w \o <<>> = w
  BY <1>1, ConcatEmptySeq
<1>3. w \o <<e>> \in Seq(S) /\ Append(w, e) \in Seq(S)
  BY <1>1
<1>4. Len(w \o <<e>>) = Len(w) + 1 /\ Len(Append(w, e)) = Len(w) + 1
  BY <1>1
<1>5. ASSUME NEW i \in 1 .. Len(w) + 1
      PROVE  (w \o <<e>>)[i] = Append(w, e)[i]
  BY <1>1, <1>4
<1>6. w \o <<e>> = Append(w, e)
  BY <1>3, <1>4, <1>5, SeqEqual
<1> QED BY <1>1, <1>2, <1>6

LEMMA OwedMore ==
    ASSUME NEW w \in Seq(Event), NEW q \in Seq(Event), NEW r, NEW c
    PROVE  Owed(w, r, c) \subseteq Owed(w \o q, r, c)
<1>1. Len(w \o q) = Len(w) + Len(q) /\ \A i \in 1 .. Len(w) : (w \o q)[i] = w[i]
  OBVIOUS
<1>2. \A i \in 1 .. Len(w) : i \in 1 .. Len(w \o q)
  BY <1>1
<1> QED BY <1>1, <1>2 DEF Owed

-----------------------------------------------------------------------------
(* What the server publishes                                               *)

ServerTypes ==
    /\ srv \in Call /\ (srv.id = 0 => DOMAIN srv.ses = {})
    /\ calls \in Nat /\ used \in SUBSET Sessions /\ DOMAIN srv.ses \subseteq used
    /\ wire \in Seq(Event)

\* A step of the server is published: if the wire brought the store to the
\* server's state before, it does so after.
Served ==
    /\ ServerTypes'
    /\ up => \E q \in Seq(Event) : wire' = wire \o q
    /\ \A c \in Local, F \in SUBSET Flags :
          up /\ c \in DOMAIN srv'.ses /\ (c \in DOMAIN srv.ses => SyncedAt(wire, F, c, srv, store))
          => SyncedAt(wire', F, c, srv', store)

LEMMA SendTypes ==
    ASSUME ServerTypes, NEW evs \in Seq(Event), Send(evs)
    PROVE  wire' \in Seq(Event) /\ (up => wire' = wire \o evs) /\ (~up => wire' = wire)
BY ConcatProperties DEF Send, ServerTypes

\* The participants of a call that the client is in are told.
LEMMA ClientIsTold ==
    ASSUME NEW c \in Local, NEW ses, c \in DOMAIN ses, NEW evs
    PROVE  Participants(ses, evs) = evs
BY MeIsLocal DEF Participants, UsersIn

LEMMA EventKinds ==
    /\ \A s \in Sessions, f \in Flags, on \in BOOLEAN : [t |-> "flag", s |-> s, f |-> f, on |-> on] \in Event
    /\ \A n \in Nat, u \in Users : [t |-> "call_start", id |-> n, host |-> u] \in Event
    /\ \A v \in Call : StateEvent(v) \in Event
    /\ \A s \in Sessions : [t |-> "user_joined", s |-> s] \in Event
    /\ \A s \in Sessions : [t |-> "user_left", s |-> s] \in Event
    /\ \A s \in Sessions : [t |-> "voice", s |-> s] \in Event
    /\ \A s \in Sessions : [t |-> "screen_on", s |-> s] \in Event
    /\ \A s \in Sessions \cup {None} : [t |-> "screen_off", s |-> s] \in Event
    /\ \A u \in Users : [t |-> "host_changed", host |-> u] \in Event
    /\ \A b \in BOOLEAN : [t |-> "job_state", job |-> b] \in Event
    /\ [t |-> "call_end"] \in Event
<1>1. \A s \in Sessions, f \in Flags, on \in BOOLEAN : [t |-> "flag", s |-> s, f |-> f, on |-> on] \in Event
  BY DEF Event, FlagMessage
<1>2. \A n \in Nat, u \in Users : [t |-> "call_start", id |-> n, host |-> u] \in Event
  BY DEF Event
<1>3. \A v \in Call : StateEvent(v) \in Event
  BY DEF Event, StateEvent
<1>4. \A s \in Sessions : [t |-> "user_joined", s |-> s] \in Event
  BY DEF Event
<1>5. \A s \in Sessions : [t |-> "user_left", s |-> s] \in Event
  BY DEF Event
<1>6. \A s \in Sessions : [t |-> "voice", s |-> s] \in Event
  BY DEF Event
<1>7. \A s \in Sessions : [t |-> "screen_on", s |-> s] \in Event
  BY DEF Event
<1>8. \A s \in Sessions \cup {None} : [t |-> "screen_off", s |-> s] \in Event
  BY DEF Event
<1>9. \A u \in Users : [t |-> "host_changed", host |-> u] \in Event
  BY DEF Event
<1>10. \A b \in BOOLEAN : [t |-> "job_state", job |-> b] \in Event
  BY DEF Event
<1>11. [t |-> "call_end"] \in Event
  BY DEF Event
<1> QED BY <1>1, <1>2, <1>3, <1>4, <1>5, <1>6, <1>7, <1>8, <1>9, <1>10, <1>11

\* One event, for the participants or for everybody.
LEMMA PublishServed ==
    ASSUME ServerTypes, srv' \in Call, srv'.id = srv.id, DOMAIN srv'.ses = DOMAIN srv.ses,
           UNCHANGED <<calls, used>>,
           NEW e \in Event, e.t \notin {"call_state", "call_start"},
           NEW evs \in {<<>>, <<e>>}, Send(evs),
           \A c \in Local : c \in DOMAIN srv.ses => evs = <<e>>,
           \A T \in Store : Agree(T, srv) => Agree(Apply(T, e), srv')
    PROVE  Served
<1>1. evs \in Seq(Event) /\ wire \in Seq(Event)
  <2>1. wire \in Seq(Event) /\ (evs = <<>> \/ evs = <<e>>)
    BY DEF ServerTypes
  <2> QED BY <2>1, ConcatOne
<1>2. wire' \in Seq(Event) /\ (up => wire' = wire \o evs)
  BY <1>1, SendTypes
<1>3. ServerTypes'
  BY <1>2 DEF ServerTypes
<1>4. ASSUME NEW c \in Local, NEW F \in SUBSET Flags, up, c \in DOMAIN srv'.ses, SyncedAt(wire, F, c, srv, store)
      PROVE  SyncedAt(wire', F, c, srv', store)
  <2>1. wire' = Append(wire, e)
    BY <1>1, <1>2, <1>4, ConcatOne
  <2>2. SyncedAt(Append(wire, e), F, c, srv', store)
    BY <1>1, <1>4, SyncedAppend
  <2> QED BY <2>1, <2>2
<1> QED BY <1>1, <1>2, <1>3, <1>4 DEF Served

\* Another participant changes something.
LEMMA ChangeServed ==
    ASSUME ServerTypes, NEW sv \in Call, sv.id = srv.id, DOMAIN sv.ses = DOMAIN srv.ses,
           NEW e \in Event, e.t \notin {"call_state", "call_start"},
           \A T \in Store : Agree(T, srv) => Agree(Apply(T, e), sv),
           Change(sv, e)
    PROVE  Served
<1>1. srv' = sv /\ Send(Participants(sv.ses, <<e>>)) /\ UNCHANGED <<calls, used>>
  BY DEF Change
<1>2. Participants(sv.ses, <<e>>) \in {<<>>, <<e>>}
  BY DEF Participants
<1>3. \A c \in Local : c \in DOMAIN srv.ses => Participants(sv.ses, <<e>>) = <<e>>
  BY ClientIsTold
<1> QED BY <1>1, <1>2, <1>3, PublishServed

\* The flags of a session change.
LEMMA FlagChange ==
    ASSUME ServerTypes, NEW s \in DOMAIN srv.ses, NEW f \in Flags, NEW on \in BOOLEAN, NEW sv,
           sv = [srv EXCEPT !.ses[s] = IF on THEN @ \cup {f} ELSE @ \ {f}]
    PROVE  /\ s \in Sessions
           /\ sv \in Call /\ SameBut(srv, sv, {"ses"}) /\ DOMAIN sv.ses = DOMAIN srv.ses
           /\ \A g \in Flags : g \in sv.ses[s] <=> IF g = f THEN on ELSE g \in srv.ses[s]
           /\ \A u \in DOMAIN srv.ses \ {s} : sv.ses[u] = srv.ses[u]
<1> DEFINE D == DOMAIN srv.ses
           new == IF on THEN srv.ses[s] \cup {f} ELSE srv.ses[s] \ {f}
           tab == [srv.ses EXCEPT ![s] = new]
<1>1. srv \in Call /\ srv.ses \in SessionTables
  BY DEF ServerTypes, Call
<1>2. D \subseteq Sessions /\ srv.ses = [u \in D |-> srv.ses[u]] /\ \A u \in D : srv.ses[u] \in SUBSET Flags
  BY <1>1, TableFacts DEF SessionTables
<1>3. new \in SUBSET Flags
  BY <1>2
<1>4. \A g \in Flags : g \in new <=> IF g = f THEN on ELSE g \in srv.ses[s]
  OBVIOUS
<1>5. sv = [srv EXCEPT !.ses = tab]
  OBVIOUS
<1> HIDE DEF new
<1>6. DOMAIN tab = D /\ tab[s] = new /\ \A u \in D \ {s} : tab[u] = srv.ses[u]
  BY <1>2
<1>7. tab \in [D -> SUBSET Flags]
  BY <1>2, <1>3
<1>8. tab \in SessionTables
  BY <1>2, <1>7 DEF SessionTables, Tables
<1> HIDE DEF tab
<1>9. sv \in Call /\ sv.ses = tab /\ SameBut(srv, sv, {"ses"})
  BY <1>1, <1>5, <1>8 DEF Call, SameBut
<1> QED BY <1>2, <1>4, <1>6, <1>9

LEMMA RemoteFlagServed ==
    ASSUME ServerTypes, NEW s, NEW f \in Flags, RemoteFlag(s, f)
    PROVE  Served
<1> DEFINE on == f \notin srv.ses[s]
           sv == [srv EXCEPT !.ses[s] = IF on THEN @ \cup {f} ELSE @ \ {f}]
           e == [t |-> "flag", s |-> s, f |-> f, on |-> on]
<1>1. s \in DOMAIN srv.ses /\ Change(sv, e) /\ on \in BOOLEAN
  BY DEF RemoteFlag
<1>2. /\ s \in Sessions
      /\ sv \in Call /\ SameBut(srv, sv, {"ses"}) /\ DOMAIN sv.ses = DOMAIN srv.ses
      /\ \A g \in Flags : g \in sv.ses[s] <=> IF g = f THEN on ELSE g \in srv.ses[s]
      /\ \A u \in DOMAIN srv.ses \ {s} : sv.ses[u] = srv.ses[u]
  <2> HIDE DEF on
  <2> QED BY <1>1, FlagChange
<1>3. e \in Event /\ e.t = "flag" /\ e.s = s /\ e.f = f /\ e.on = on
  BY <1>1, <1>2, EventKinds
<1> HIDE DEF sv, e, on
<1>4. ASSUME NEW T \in Store, Agree(T, srv)
      PROVE  Agree(Apply(T, e), sv)
  <2>1. Agree(USER_FLAG(T, s, f, on), sv)
    BY <1>1, <1>2, <1>4, AgreeFlag
  <2> QED BY <1>3, <2>1, ApplyIs
<1>5. sv.id = srv.id
  BY <1>2 DEF SameBut
<1> QED BY <1>1, <1>2, <1>3, <1>4, <1>5, ChangeServed

LEMMA RemoteScreenServed ==
    ASSUME ServerTypes, NEW s, RemoteScreen(s)
    PROVE  Served
<1>1. s \in DOMAIN srv.ses /\ s \in Sessions /\ srv \in Call
  BY TableFacts DEF RemoteScreen, ServerTypes, Call, SessionTables
<1>2. s # None
  BY <1>1, NoneApart
<1>3. CASE srv.screen = None /\ Change([srv EXCEPT !.screen = s], [t |-> "screen_on", s |-> s])
  <2> DEFINE sv == [srv EXCEPT !.screen = s]
             e == [t |-> "screen_on", s |-> s]
  <2>1. sv \in Call /\ SameBut(srv, sv, {"screen"}) /\ sv.screen = s /\ sv.id = srv.id /\ sv.ses = srv.ses
    BY <1>1 DEF Call, SameBut
  <2>2. e \in Event /\ e.t = "screen_on" /\ e.s = s
    BY <1>1, EventKinds
  <2>3. Change(sv, e)
    BY <1>3
  <2> HIDE DEF sv, e
  <2>4. ASSUME NEW T \in Store, Agree(T, srv)
        PROVE  Agree(Apply(T, e), sv)
    BY <1>1, <2>1, <2>2, <2>4, AgreeScreenOn, ApplyIs
  <2> QED BY <2>1, <2>2, <2>3, <2>4, ChangeServed
<1>4. CASE srv.screen = s /\ Change([srv EXCEPT !.screen = None], [t |-> "screen_off", s |-> s])
  <2> DEFINE sv == [srv EXCEPT !.screen = None]
             e == [t |-> "screen_off", s |-> s]
  <2>1. sv \in Call /\ SameBut(srv, sv, {"screen"}) /\ sv.screen = None /\ sv.id = srv.id /\ sv.ses = srv.ses
    BY <1>1 DEF Call, SameBut
  <2>2. e \in Event /\ e.t = "screen_off" /\ e.s = s
    BY <1>1, EventKinds
  <2>3. Change(sv, e)
    BY <1>4
  <2>4. sv.screen = IF srv.screen = s THEN None ELSE srv.screen
    BY <1>4, <2>1
  <2> HIDE DEF sv, e
  <2>5. ASSUME NEW T \in Store, Agree(T, srv)
        PROVE  Agree(Apply(T, e), sv)
    BY <1>1, <2>1, <2>2, <2>4, <2>5, AgreeScreenOff, ApplyIs
  <2> QED BY <2>1, <2>2, <2>3, <2>5, ChangeServed
<1> QED BY <1>3, <1>4 DEF RemoteScreen

LEMMA HostMakeServed ==
    ASSUME ServerTypes, NEW u \in Users, HostMake(u)
    PROVE  Served
<1> DEFINE sv == [srv EXCEPT !.host = u]
           e == [t |-> "host_changed", host |-> u]
<1>1. srv \in Call /\ Change(sv, e)
  BY DEF HostMake, ServerTypes
<1>2. sv \in Call /\ SameBut(srv, sv, {"host"}) /\ sv.host = u /\ sv.id = srv.id /\ sv.ses = srv.ses
  BY <1>1 DEF Call, SameBut
<1>3. e \in Event /\ e.t = "host_changed" /\ e.host = u
  BY EventKinds
<1> HIDE DEF sv, e
<1>4. ASSUME NEW T \in Store, Agree(T, srv)
      PROVE  Agree(Apply(T, e), sv)
  BY <1>2, <1>3, <1>4, AgreeHost, ApplyIs
<1> QED BY <1>1, <1>2, <1>3, <1>4, ChangeServed

LEMMA RecordingServed ==
    ASSUME ServerTypes, Recording
    PROVE  Served
<1> DEFINE sv == [srv EXCEPT !.rec = ~@]
           e == [t |-> "job_state", job |-> ~srv.rec]
<1>1. srv \in Call /\ Change(sv, e)
  BY DEF Recording, ServerTypes
<1>2. srv.rec \in BOOLEAN
  BY <1>1 DEF Call
<1>3. sv \in Call /\ SameBut(srv, sv, {"rec"}) /\ sv.rec = (~srv.rec) /\ sv.id = srv.id /\ sv.ses = srv.ses
  BY <1>1, <1>2 DEF Call, SameBut
<1>4. e \in Event /\ e.t = "job_state" /\ e.job = (~srv.rec) /\ e.job \in BOOLEAN
  BY <1>2, EventKinds
<1> HIDE DEF sv, e
<1>5. ASSUME NEW T \in Store, Agree(T, srv)
      PROVE  Agree(Apply(T, e), sv)
  <2>1. sv.rec = e.job
    BY <1>3, <1>4
  <2>2. Agree(JOB_STATE(T, e.job), sv)
    BY <1>3, <1>4, <1>5, <2>1, AgreeJob
  <2> QED BY <1>4, <2>2, ApplyIs
<1> QED BY <1>1, <1>3, <1>4, <1>5, ChangeServed

LEMMA HostEndServed ==
    ASSUME ServerTypes, HostEnd
    PROVE  Served
<1> DEFINE e == [t |-> "call_end"]
<1>1. Send(<<e>>) /\ UNCHANGED <<srv, calls, used>> /\ srv \in Call
  BY DEF HostEnd, ServerTypes
<1>2. e \in Event /\ e.t = "call_end" /\ <<e>> \in {<<>>, <<e>>}
  BY EventKinds
<1> HIDE DEF e
<1>3. ASSUME NEW T \in Store, Agree(T, srv)
      PROVE  Agree(Apply(T, e), srv')
  BY <1>1, <1>2, <1>3, ApplyIs
<1> QED BY <1>1, <1>2, <1>3, PublishServed

LEMMA VoiceServed ==
    ASSUME ServerTypes, NEW s \in Sessions, Voice(s)
    PROVE  Served
<1> DEFINE e == [t |-> "voice", s |-> s]
<1>1. Send(Participants(srv.ses, <<e>>)) /\ UNCHANGED <<srv, calls, used>> /\ srv \in Call
  BY DEF Voice, ServerTypes
<1>2. e \in Event /\ e.t = "voice" /\ e.s = s
  BY EventKinds
<1> HIDE DEF e
<1>3. ASSUME NEW T \in Store, Agree(T, srv)
      PROVE  Agree(Apply(T, e), srv')
  BY <1>1, <1>2, <1>3, AgreeVoice, ApplyIs
<1>4. Participants(srv.ses, <<e>>) \in {<<>>, <<e>>}
  BY DEF Participants
<1>5. \A c \in Local : c \in DOMAIN srv.ses => Participants(srv.ses, <<e>>) = <<e>>
  BY ClientIsTold
<1> QED BY <1>1, <1>2, <1>3, <1>4, <1>5, PublishServed

LEMMA NoCallIsCall == NoCall \in Call /\ NoCall.id = 0 /\ DOMAIN NoCall.ses = {}
<1>1. <<>> \in Seq(SUBSET Flags) /\ Len(<<>>) = 0
  OBVIOUS
<1>2. <<>> \in [1 .. Len(<<>>) -> SUBSET Flags]
  BY <1>1, LenProperties
<1>3. <<>> \in [{} -> SUBSET Flags]
  BY <1>1, <1>2
<1>4. <<>> \in SessionTables /\ DOMAIN <<>> = {}
  BY <1>3 DEF SessionTables, Tables
<1> QED BY <1>4 DEF NoCall, Call

LEMMA JoinedServed ==
    ASSUME ServerTypes, NEW s \in Sessions, Joined(s)
    PROVE  Served
<1> DEFINE first == srv.id = 0
           new == [NoCall EXCEPT !.id = calls + 1, !.host = UserOf[s], !.ses = Only(s, {})]
           old == [srv EXCEPT !.ses = With(@, s, {})]
           now == IF first THEN new ELSE old
           A == IF first THEN <<[t |-> "call_start", id |-> now.id, host |-> now.host]>> ELSE <<>>
           e == [t |-> "user_joined", s |-> s]
           B == IF UserOf[s] = Me THEN <<StateEvent(now)>> ELSE <<>>
<1>1. /\ srv' = now /\ used' = used \cup {s} /\ calls' = IF first THEN calls + 1 ELSE calls
      /\ Send((A \o <<e>>) \o B)
  BY DEF Joined
<1>2. srv \in Call /\ srv.ses \in SessionTables /\ calls \in Nat /\ wire \in Seq(Event) /\ UserOf[s] \in Users
      /\ used \in SUBSET Sessions /\ DOMAIN srv.ses \subseteq used /\ (srv.id = 0 => DOMAIN srv.ses = {})
  BY UserOfSession DEF ServerTypes, Call
<1>3. /\ new \in Call /\ new.id = calls + 1 /\ new.host = UserOf[s] /\ DOMAIN new.ses = {s}
  <2> DEFINE tab == Only(s, {})
  <2>1. {} \in SUBSET Flags
    OBVIOUS
  <2>2. tab \in SessionTables /\ DOMAIN tab = {s}
    BY <2>1, OnlyTable DEF SessionTables
  <2>3. new = [NoCall EXCEPT !.id = calls + 1, !.host = UserOf[s], !.ses = tab]
    OBVIOUS
  <2> HIDE DEF tab, new
  <2>4. new \in Call /\ new.id = calls + 1 /\ new.host = UserOf[s] /\ new.ses = tab
    <3>1. new = [id |-> calls + 1, ses |-> tab, host |-> UserOf[s], screen |-> None, rec |-> FALSE]
      BY <2>3 DEF NoCall
    <3>2. calls + 1 \in Nat /\ UserOf[s] \in Users \cup {None}
      BY <1>2
    <3> QED BY <2>2, <3>1, <3>2 DEF Call
  <2> QED BY <2>2, <2>4
<1>4. /\ old \in Call /\ SameBut(srv, old, {"ses"}) /\ old.ses = With(srv.ses, s, {})
      /\ DOMAIN old.ses = DOMAIN srv.ses \cup {s} /\ old.id = srv.id
  <2> DEFINE tab == With(srv.ses, s, {})
  <2>1. /\ DOMAIN srv.ses \in SUBSET Sessions
        /\ \A u \in DOMAIN srv.ses : srv.ses[u] \in SUBSET Flags
    BY <1>2, TableFacts DEF SessionTables
  <2>2. tab \in SessionTables /\ DOMAIN tab = DOMAIN srv.ses \cup {s}
    <3>1. tab \in [DOMAIN srv.ses \cup {s} -> SUBSET Flags]
      BY <2>1 DEF With
    <3>2. DOMAIN srv.ses \cup {s} \in SUBSET Sessions
      BY <2>1
    <3> QED BY <3>1, <3>2 DEF SessionTables, Tables
  <2>3. old = [srv EXCEPT !.ses = tab]
    OBVIOUS
  <2> HIDE DEF tab, old
  <2>4. old \in Call /\ old.ses = tab /\ SameBut(srv, old, {"ses"}) /\ old.id = srv.id
    BY <1>2, <2>2, <2>3 DEF Call, SameBut
  <2> QED BY <2>2, <2>4 DEF tab
<1> HIDE DEF new, old
<1>5. now \in Call /\ now.id # 0 /\ s \in DOMAIN now.ses
  BY <1>2, <1>3, <1>4
<1>6. A \in Seq(Event)
  <2>1. CASE first
    <3>1. now.id \in Nat /\ now.host \in Users
      BY <1>2, <1>3, <2>1
    <3> HIDE DEF now
    <3>2. [t |-> "call_start", id |-> now.id, host |-> now.host] \in Event
      BY <3>1, EventKinds
    <3> QED BY <2>1, <3>2
  <2>2. CASE ~first
    BY <2>2
  <2> QED BY <2>1, <2>2
<1>7. B \in Seq(Event)
  <2>1. StateEvent(now) \in Event
    BY <1>5, EventKinds
  <2> QED BY <2>1
<1>8. e \in Event /\ <<e>> \in Seq(Event) /\ e.t = "user_joined" /\ e.s = s
  <2>1. e \in Event /\ e.t = "user_joined" /\ e.s = s
    BY EventKinds
  <2> HIDE DEF e
  <2> QED BY <2>1
<1> HIDE DEF e
<1>9. A \o <<e>> \in Seq(Event) /\ (A \o <<e>>) \o B \in Seq(Event)
  <2> HIDE DEF A, B
  <2> QED BY <1>6, <1>7, <1>8, ConcatProperties
<1>10. wire' \in Seq(Event) /\ (up => wire' = wire \o ((A \o <<e>>) \o B))
  BY <1>1, <1>9, SendTypes
<1>11. ServerTypes'
  <2>1. srv' \in Call /\ srv'.id # 0
    BY <1>1, <1>5
  <2>2. calls' \in Nat /\ used' \in SUBSET Sessions
    BY <1>1, <1>2
  <2>3. DOMAIN srv'.ses \subseteq used'
    BY <1>1, <1>2, <1>3, <1>4
  <2> QED BY <1>10, <2>1, <2>2, <2>3 DEF ServerTypes
<1>12. ASSUME NEW c \in Local, NEW F \in SUBSET Flags, up, c \in DOMAIN srv'.ses,
              c \in DOMAIN srv.ses => SyncedAt(wire, F, c, srv, store)
       PROVE  SyncedAt(wire', F, c, srv', store)
  <2>1. CASE UserOf[s] = Me
    <3> DEFINE w == wire \o (A \o <<e>>)
    <3>1. w \in Seq(Event) /\ wire' = w \o <<StateEvent(now)>>
      <4>1. B = <<StateEvent(now)>>
        BY <2>1
      <4> DEFINE P == A \o <<e>>
      <4>2. P \in Seq(Event) /\ wire' = wire \o (P \o B) /\ w = wire \o P
        BY <1>9, <1>10, <1>12
      <4> HIDE DEF A, B, P, w
      <4>3. wire \o P \in Seq(Event) /\ wire \o (P \o B) = (wire \o P) \o B
        BY <1>2, <1>7, <4>2, ConcatAssociative, ConcatProperties
      <4> QED BY <4>1, <4>2, <4>3
    <3>2. wire' = Append(w, StateEvent(now))
      <4>1. StateEvent(now) \in Event
        BY <1>5, EventKinds
      <4> HIDE DEF w
      <4> QED BY <3>1, <4>1, ConcatOne
    <3>3. c \in DOMAIN now.ses
      BY <1>1, <1>12
    <3> HIDE DEF w, now
    <3>4. SyncedAt(Append(w, StateEvent(now)), F, c, now, store)
      BY <1>5, <3>1, <3>3, SyncedState
    <3> QED BY <1>1, <3>2, <3>4
  <2>2. CASE UserOf[s] # Me
    <3>1. c # s /\ UserOf[c] = Me
      BY <2>2, MeIsLocal
    <3>2. ~first /\ c \in DOMAIN srv.ses
      <4>1. CASE first
        BY <1>1, <1>3, <1>12, <3>1, <4>1
      <4>2. CASE ~first
        BY <1>1, <1>4, <1>12, <3>1, <4>2
      <4> QED BY <4>1, <4>2
    <3>3. A = <<>> /\ B = <<>> /\ srv' = old
      BY <1>1, <2>2, <3>2
    <3>4. (A \o <<e>>) \o B = <<e>>
      BY <1>8, <3>3, ConcatEmptySeq
    <3>5. wire' = Append(wire, e)
      BY <1>2, <1>8, <1>10, <1>12, <3>4, ConcatOne
    <3>6. ASSUME NEW T \in Store, Agree(T, srv)
          PROVE  Agree(Apply(T, e), old)
      BY <1>4, <1>8, <3>6, AgreeJoined, ApplyIs
    <3>7. c \in DOMAIN old.ses /\ SyncedAt(wire, F, c, srv, store)
      BY <1>12, <3>2, <3>3
    <3>8. SyncedAt(Append(wire, e), F, c, old, store)
      BY <1>2, <1>4, <1>8, <3>6, <3>7, SyncedAppend
    <3> QED BY <3>3, <3>5, <3>8
  <2> QED BY <2>1, <2>2
<1> QED BY <1>9, <1>10, <1>11, <1>12 DEF Served

\* An event that is published in some cases only.
LEMMA SyncedOptional ==
    ASSUME NEW w \in Seq(Event), NEW F, NEW c, NEW st, NEW v, NEW x, SyncedAt(w, F, c, v, st),
           x.id = v.id, c \in DOMAIN x.ses,
           NEW e \in Event, e.t \notin {"call_state", "call_start"}, NEW q \in {<<>>, <<e>>},
           q = <<>> => x = v,
           q = <<e>> => \A T \in Store : Agree(T, v) => Agree(Apply(T, e), x)
    PROVE  w \o q \in Seq(Event) /\ SyncedAt(w \o q, F, c, x, st)
<1>1. CASE q = <<>>
  BY <1>1, ConcatOne
<1>2. CASE q = <<e>>
  <2>1. w \o q = Append(w, e)
    BY <1>2, ConcatOne
  <2>2. SyncedAt(Append(w, e), F, c, x, st)
    BY <1>2, SyncedAppend
  <2> QED BY <2>1, <2>2
<1> QED BY <1>1, <1>2

LEMMA OptionalInSeq ==
    ASSUME NEW S, NEW e \in S, NEW q \in {<<>>, <<e>>}
    PROVE  q \in Seq(S)
<1>1. <<e>> \in Seq(S) /\ <<>> \in Seq(S)
  OBVIOUS
<1> QED BY <1>1

LEMMA ConcatThree ==
    ASSUME NEW S, NEW x \in Seq(S), NEW y \in Seq(S), NEW z \in Seq(S)
    PROVE  (x \o y) \o z = x \o (y \o z) /\ x \o y \in Seq(S) /\ y \o z \in Seq(S)
<1>1. (x \o y) \o z = x \o (y \o z)
  BY ConcatAssociative
<1>2. x \o y \in Seq(S) /\ y \o z \in Seq(S)
  BY ConcatProperties
<1> QED BY <1>1, <1>2

Cat(x, y) == x \o y

LEMMA CatThree ==
    ASSUME NEW S, NEW x \in Seq(S), NEW y \in Seq(S), NEW z \in Seq(S)
    PROVE  Cat(Cat(x, y), z) = Cat(x, Cat(y, z)) /\ Cat(x, y) \in Seq(S)
BY ConcatThree DEF Cat

LEMMA CatFour ==
    ASSUME NEW S, NEW w \in Seq(S), NEW a \in Seq(S), NEW b \in Seq(S), NEW u \in Seq(S), NEW h \in Seq(S)
    PROVE  Cat(w, Cat(Cat(Cat(a, b), u), h)) = Cat(Cat(Cat(Cat(w, a), b), u), h)
BY CatThree

LEMMA LeftServed ==
    ASSUME ServerTypes, NEW s \in DOMAIN srv.ses, Left(s)
    PROVE  Served
<1> DEFINE ses == Without(srv.ses, s)
           so == [t |-> "screen_off", s |-> None]
           vo == [t |-> "flag", s |-> s, f |-> "video", on |-> FALSE]
           ul == [t |-> "user_left", s |-> s]
           hc(h) == [t |-> "host_changed", host |-> h]
           A == IF srv.screen = s THEN <<so>> ELSE <<>>
           B == IF "video" \in srv.ses[s] THEN <<vo>> ELSE <<>>
           P == Participants(ses, A \o B)
           H(h) == IF h # srv.host THEN Participants(ses, <<hc(h)>>) ELSE <<>>
           events(h) == (P \o <<ul>>) \o H(h)
<1>1. /\ srv \in Call /\ srv.ses \in SessionTables /\ wire \in Seq(Event) /\ used \in SUBSET Sessions
      /\ DOMAIN srv.ses \subseteq Sessions /\ s \in Sessions /\ srv.ses[s] \in SUBSET Flags
  BY TableFacts DEF ServerTypes, Call, SessionTables
<1>2. ses \in SessionTables /\ DOMAIN ses = DOMAIN srv.ses \ {s}
  BY <1>1, WithoutTable DEF SessionTables
<1>3. so \in Event /\ ul \in Event
  BY <1>1, EventKinds
<1>4. A \in Seq(Event) /\ B \in Seq(Event)
  <2>1. A \in Seq(Event)
    <3> HIDE DEF so
    <3> QED BY <1>3
  <2>2. CASE "video" \in srv.ses[s]
    <3>1. vo \in Event /\ B = <<vo>>
      BY <1>1, <2>2, EventKinds
    <3> HIDE DEF vo
    <3>2. B \in Seq(Event)
      BY <3>1
    <3> QED BY <2>1, <3>2
  <2>3. CASE "video" \notin srv.ses[s]
    BY <2>1, <2>3
  <2> QED BY <2>2, <2>3
<1>5. P \in Seq(Event) /\ <<ul>> \in Seq(Event)
  <2>1. <<ul>> \in Seq(Event)
    <3> HIDE DEF ul
    <3> QED BY <1>3
  <2>2. P \in {A \o B, <<>>}
    BY DEF Participants
  <2>3. A \o B \in Seq(Event) /\ <<>> \in Seq(Event)
    <3> HIDE DEF A, B
    <3>1. A \o B \in Seq(Event)
      BY <1>4, ConcatProperties
    <3> QED BY <3>1, EmptySeq
  <2> DEFINE AB == A \o B
  <2> HIDE DEF AB, P
  <2>4. P \in Seq(Event)
    BY <2>2, <2>3 DEF AB
  <2> QED BY <2>1, <2>4
<1>6. ASSUME NEW h
      PROVE  (h = srv.host \/ h \in Users) => H(h) \in Seq(Event) /\ events(h) \in Seq(Event)
  <2>1. SUFFICES ASSUME h = srv.host \/ h \in Users PROVE H(h) \in Seq(Event) /\ events(h) \in Seq(Event)
    OBVIOUS
  <2>2. CASE h = srv.host
    <3>1. H(h) = <<>>
      BY <2>2
    <3> HIDE DEF H, P, ul
    <3> QED BY <1>5, <3>1, ConcatProperties
  <2>3. CASE h \in Users /\ h # srv.host
    <3>1. hc(h) \in Event
      BY <2>3, EventKinds
    <3>2. H(h) \in {<<>>, <<hc(h)>>}
      BY DEF Participants
    <3> HIDE DEF H, hc, P, ul
    <3>3. H(h) \in Seq(Event)
      BY <3>1, <3>2, OptionalInSeq
    <3> QED BY <1>5, <3>3, ConcatProperties
  <2> QED BY <2>1, <2>2, <2>3
<1>7. CASE DOMAIN ses = {}
  <2>1. srv' = NoCall /\ Send(events(srv.host)) /\ UNCHANGED <<calls, used>>
    BY <1>7 DEF Left
  <2>2. events(srv.host) \in Seq(Event)
    BY <1>6
  <2> HIDE DEF events
  <2>3. wire' \in Seq(Event) /\ (up => wire' = wire \o events(srv.host))
    BY <2>1, <2>2, SendTypes
  <2>4. ServerTypes' /\ DOMAIN srv'.ses = {}
    BY <2>1, <2>3, NoCallIsCall DEF ServerTypes
  <2> QED BY <2>2, <2>3, <2>4 DEF Served
<1>8. CASE DOMAIN ses # {}
  <2>1. PICK h \in IF srv.host \in UsersIn(ses) THEN {srv.host} ELSE UsersIn(ses) :
           /\ srv' = [srv EXCEPT !.ses = ses, !.host = h, !.screen = IF @ = s THEN None ELSE @]
           /\ Send(events(h)) /\ UNCHANGED <<calls, used>>
    BY <1>8 DEF Left
  <2>2. h \in Users
    BY <1>1, <1>2, <2>1 DEF UsersIn, Users
  <2>3. events(h) \in Seq(Event) /\ H(h) \in Seq(Event)
    BY <1>6, <2>2
  <2>4. wire' \in Seq(Event) /\ (up => wire' = wire \o events(h))
    <3> HIDE DEF events
    <3> QED BY <2>1, <2>3, SendTypes
  <2> DEFINE gone == IF srv.screen = s THEN None ELSE srv.screen
             v3 == [srv EXCEPT !.ses = ses, !.screen = gone]
  <2>5. /\ srv' \in Call /\ srv'.ses = ses /\ srv'.id = srv.id
        /\ v3.id = srv.id /\ v3.ses = ses /\ v3.screen = gone
        /\ SameBut(srv, v3, {"ses", "screen"}) /\ SameBut(v3, srv', {"host"}) /\ srv'.host = h /\ v3.host = srv.host
        /\ h = srv.host => srv' = v3
    <3> HIDE DEF ses
    <3> QED BY <1>1, <1>2, <2>1, <2>2 DEF Call, SameBut
  <2>6. ServerTypes'
    BY <1>1, <1>2, <2>1, <2>4, <2>5 DEF ServerTypes
  <2>7. ASSUME NEW c \in Local, NEW F \in SUBSET Flags, up, c \in DOMAIN srv'.ses, SyncedAt(wire, F, c, srv, store)
        PROVE  SyncedAt(wire', F, c, srv', store)
    <3>1. c \in DOMAIN ses /\ c # s /\ c \in DOMAIN srv.ses
      BY <1>2, <2>5, <2>7
    <3>2. P = A \o B /\ (H(h) = IF h # srv.host THEN <<hc(h)>> ELSE <<>>)
      BY <3>1, ClientIsTold
    \* the sharer's event names no session, and changes nothing
    <3>3. wire \o A \in Seq(Event) /\ SyncedAt(wire \o A, F, c, srv, store)
      <4>1. so.t = "screen_off" /\ so.s = None /\ A \in {<<>>, <<so>>}
        OBVIOUS
      <4> HIDE DEF so, A
      <4>2. ASSUME NEW T \in Store, Agree(T, srv)
            PROVE  Agree(Apply(T, so), srv)
        <5>1. SameBut(srv, srv, {"screen"})
          BY DEF SameBut
        <5>2. None \in Sessions \cup {None} /\ srv.screen = IF srv.screen = None THEN None ELSE srv.screen
          OBVIOUS
        <5>3. Agree(USER_SCREEN_OFF(T, None), srv)
          BY <4>2, <5>1, <5>2, AgreeScreenOff
        <5> QED BY <4>1, <5>3, ApplyIs
      <4> QED BY <1>1, <1>3, <2>7, <3>1, <4>1, <4>2, SyncedOptional
    <3> DEFINE w1 == wire \o A
               w2 == w1 \o B
               w3 == w2 \o <<ul>>
               v2 == IF "video" \in srv.ses[s] THEN [srv EXCEPT !.ses[s] = @ \ {"video"}] ELSE srv
    \* the video of the session is turned off
    <3>4. /\ v2.id = srv.id /\ DOMAIN v2.ses = DOMAIN srv.ses /\ SameBut(srv, v2, {"ses"})
          /\ \A u \in DOMAIN srv.ses \ {s} : v2.ses[u] = srv.ses[u]
          /\ w2 \in Seq(Event) /\ SyncedAt(w2, F, c, v2, store)
      <4>1. CASE "video" \notin srv.ses[s]
        <5>1. v2 = srv /\ B = <<>>
          BY <4>1
        <5> HIDE DEF v2, B, A
        <5>2. w2 = w1
          BY <3>3, <5>1, ConcatEmptySeq
        <5> QED BY <3>3, <5>1, <5>2 DEF SameBut
      <4>2. CASE "video" \in srv.ses[s]
        <5> DEFINE off == FALSE
        <5>1. v2 = [srv EXCEPT !.ses[s] = IF off THEN @ \cup {"video"} ELSE @ \ {"video"}] /\ B = <<vo>>
          BY <4>2
        <5>2. "video" \in Flags /\ off \in BOOLEAN
          BY <1>1, <4>2
        <5>3. vo \in Event /\ vo.t = "flag" /\ vo.s = s /\ vo.f = "video" /\ vo.on = off
          BY <1>1, <5>2, EventKinds
        <5> HIDE DEF v2, vo, off
        <5>4. /\ SameBut(srv, v2, {"ses"}) /\ DOMAIN v2.ses = DOMAIN srv.ses
              /\ \A g \in Flags : g \in v2.ses[s] <=> IF g = "video" THEN off ELSE g \in srv.ses[s]
              /\ \A u \in DOMAIN srv.ses \ {s} : v2.ses[u] = srv.ses[u]
          BY <5>1, <5>2, FlagChange
        <5>5. v2.id = srv.id
          BY <5>4 DEF SameBut
        <5>6. ASSUME NEW T \in Store, Agree(T, srv)
              PROVE  Agree(Apply(T, vo), v2)
          <6>1. Agree(USER_FLAG(T, s, "video", off), v2)
            BY <1>1, <5>2, <5>4, <5>6, AgreeFlag
          <6> QED BY <5>3, <6>1, ApplyIs
        <5>7. <<vo>> \in {<<>>, <<vo>>} /\ <<vo>> # <<>>
          OBVIOUS
        <5>w. w1 \in Seq(Event) /\ SyncedAt(w1, F, c, srv, store) /\ w2 = w1 \o <<vo>>
          BY <3>3, <5>1
        <5> HIDE DEF w1, w2
        <5>8. w2 = Append(w1, vo)
          BY <5>w, <5>3, ConcatOne
        <5>9. SyncedAt(Append(w1, vo), F, c, v2, store)
          BY <3>1, <5>w, <5>3, <5>4, <5>5, <5>6, SyncedAppend
        <5>10. Append(w1, vo) \in Seq(Event)
          BY <5>w, <5>3
        <5> QED BY <5>4, <5>5, <5>8, <5>9, <5>10
      <4> QED BY <4>1, <4>2
    <3> HIDE DEF v2
    \* the session leaves
    <3>5. w3 \in Seq(Event) /\ SyncedAt(w3, F, c, v3, store)
      <4>1. ul \in Event /\ ul.t = "user_left" /\ ul.s = s
        BY <1>3
      <4>2. v3.ses = Without(v2.ses, s)
        BY <2>5, <3>4 DEF Without
      <4>3. /\ SameBut(v2, v3, {"ses", "screen"}) /\ v3.id = v2.id
            /\ v3.screen = IF v2.screen = s THEN None ELSE v2.screen
        BY <2>5, <3>4 DEF SameBut
      <4>4. c \in DOMAIN v3.ses
        BY <2>5, <3>1
      <4> HIDE DEF ul, w2, v3
      <4>5. ASSUME NEW T \in Store, Agree(T, v2)
            PROVE  Agree(Apply(T, ul), v3)
        <5>1. Agree(USER_LEFT(T, s), v3)
          BY <1>1, <4>2, <4>3, <4>5, AgreeLeft
        <5> QED BY <4>1, <5>1, ApplyIs
      <4>6. w3 = Append(w2, ul) /\ Append(w2, ul) \in Seq(Event)
        BY <3>4, <4>1, ConcatOne
      <4>7. SyncedAt(Append(w2, ul), F, c, v3, store)
        BY <3>4, <4>1, <4>3, <4>4, <4>5, SyncedAppend
      <4> QED BY <4>6, <4>7
    \* another user becomes the host
    <3>6. SyncedAt(w3 \o H(h), F, c, srv', store)
      <4>1. hc(h) \in Event /\ hc(h).t = "host_changed" /\ hc(h).host = h
        BY <2>2, EventKinds
      <4>2. H(h) \in {<<>>, <<hc(h)>>} /\ (H(h) = <<>> => h = srv.host)
        <5> HIDE DEF H, hc
        <5>1. <<hc(h)>> # <<>>
          OBVIOUS
        <5> QED BY <3>2, <5>1
      <4> HIDE DEF H, hc, w3, v3, ses
      <4>3. ASSUME NEW T \in Store, Agree(T, v3)
            PROVE  Agree(Apply(T, hc(h)), srv')
        <5>1. Agree(CALL_HOST(T, h), srv')
          BY <2>2, <2>5, <4>3, AgreeHost
        <5> QED BY <4>1, <5>1, ApplyIs
      <4>4. srv'.id = v3.id /\ (H(h) = <<>> => srv' = v3)
        BY <2>5, <4>2
      <4> QED BY <2>7, <3>5, <4>1, <4>2, <4>3, <4>4, SyncedOptional
    <3>7. wire' = w3 \o H(h)
      <4>1. wire' = wire \o (((A \o B) \o <<ul>>) \o H(h))
        BY <2>4, <2>7, <3>2
      <4> DEFINE HH == H(h)
                 U == <<ul>>
      <4>2. HH \in Seq(Event) /\ U \in Seq(Event) /\ wire' = wire \o (((A \o B) \o U) \o HH)
        BY <1>5, <2>3, <4>1
      <4> HIDE DEF H, A, B, ul, HH, U
      <4>3. wire \in Seq(Event) /\ A \in Seq(Event) /\ B \in Seq(Event)
        BY <1>1, <1>4
      <4>4. Cat(wire, Cat(Cat(Cat(A, B), U), HH)) = Cat(Cat(Cat(Cat(wire, A), B), U), HH)
        BY <4>2, <4>3, CatFour
      <4>5. wire \o (((A \o B) \o U) \o HH) = (((wire \o A) \o B) \o U) \o HH
        BY <4>4, Zenon DEF Cat
      <4>6. w3 \o H(h) = (((wire \o A) \o B) \o U) \o HH
        BY Zenon DEF HH, U
      <4> QED BY <4>2, <4>5, <4>6, Zenon
    <3> QED BY <3>6, <3>7
  <2> HIDE DEF events
  <2>8. \A c \in Local : c \in DOMAIN srv'.ses => c \in DOMAIN srv.ses
    BY <1>2, <2>5
  <2> QED BY <2>3, <2>4, <2>6, <2>7, <2>8 DEF Served
<1> QED BY <1>7, <1>8

-----------------------------------------------------------------------------
(* The inductive invariant                                                 *)

StoreTypes ==
    /\ ServerTypes
    /\ up \in BOOLEAN /\ store \in Store /\ client \in Local \cup {None}
    /\ req \in Seq(Request) /\ act \in [Activations -> Activation]

\* The state of the call will still be asked for, by a reconnection: the
\* activation at page load (1) does not ask for it.
Asking(a) == a.at \in {"config", "asked"} \/ (a.at \in {"sent", "got"} /\ a.skip)
Pending == ~up \/ \E i \in Activations \ {1} : Asking(act[i])

Synced == SyncedAt(wire, Owed(wire, req, client), client, srv, store)

StoreInv == StoreTypes /\ (InCall => Pending \/ Synced)

-----------------------------------------------------------------------------
(* Steps of the server                                                     *)

\* A published step keeps the invariant when no flag of the client is lost.
LEMMA ServedKeeps ==
    ASSUME StoreInv, Served, UNCHANGED <<up, store, client, act>>, req' \in Seq(Request),
           InCall' /\ up => Owed(wire, req, client) \subseteq Owed(wire', req', client)
    PROVE  StoreInv'
<1>1. StoreTypes'
  BY DEF StoreInv, StoreTypes, Served
<1>2. ASSUME InCall' PROVE (Pending \/ Synced)'
  <2>1. CASE Pending
    BY <2>1 DEF Pending
  <2>2. CASE ~Pending
    <3>1. up /\ (InCall => Synced)
      BY <2>2 DEF Pending, StoreInv
    <3>2. client \in Local /\ client \in DOMAIN srv'.ses
      BY <1>2 DEF InCall, StoreInv, StoreTypes
    <3>3. client \in DOMAIN srv.ses => SyncedAt(wire, Owed(wire, req, client), client, srv, store)
      BY <1>2, <3>1 DEF InCall, Synced
    <3>4. Owed(wire, req, client) \in SUBSET Flags
      BY DEF Owed
    <3>5. SyncedAt(wire', Owed(wire, req, client), client, srv', store)
      BY <3>1, <3>2, <3>3, <3>4 DEF Served
    <3>6. SyncedAt(wire', Owed(wire', req', client), client, srv', store)
      BY <1>2, <3>1, <3>5, SyncedWider
    <3> QED BY <3>6 DEF Synced
  <2> QED BY <2>1, <2>2
<1> QED BY <1>1, <1>2 DEF StoreInv

LEMMA ServedMore ==
    ASSUME StoreInv, Served, UNCHANGED <<up, store, client, act, req>>
    PROVE  StoreInv'
<1>1. ASSUME up PROVE Owed(wire, req, client) \subseteq Owed(wire', req, client)
  <2>1. PICK q \in Seq(Event) : wire' = wire \o q
    BY <1>1 DEF Served
  <2>2. wire \in Seq(Event)
    BY DEF StoreInv, StoreTypes, ServerTypes
  <2> QED BY <2>1, <2>2, OwedMore
<1> QED BY <1>1, ServedKeeps DEF StoreInv, StoreTypes

LEMMA RequestKeeps ==
    ASSUME StoreInv, HandleRequest
    PROVE  StoreInv'
<1> DEFINE m == Head(req)
<1>1. /\ ServerTypes /\ srv \in Call /\ srv.ses \in SessionTables /\ wire \in Seq(Event)
      /\ req \in Seq(Request) /\ req # <<>> /\ req' = Tail(req)
      /\ UNCHANGED <<up, store, client, act>>
  BY DEF StoreInv, StoreTypes, ServerTypes, Call, HandleRequest
<1>2. /\ m \in Request /\ req' \in Seq(Request) /\ Len(req') = Len(req) - 1 /\ Len(req) \in Nat /\ req[1] = m
      /\ \A i \in 2 .. Len(req) : i - 1 \in 1 .. Len(req') /\ req'[i - 1] = req[i]
  BY <1>1
<1> HIDE DEF m
<1>3. m.s \in Sessions
  BY <1>2 DEF Request, FlagMessage
\* what is owed to the client stays owed, but for the message that is handled
<1>4. ASSUME NEW w, NEW f \in Owed(wire, req, client), Len(w) \in Nat,
             \A i \in 1 .. Len(wire) : i \in 1 .. Len(w) /\ w[i] = wire[i]
      PROVE  f \in Owed(w, req', client) \/ FlagOf(m, client, f)
  <2>1. CASE \E i \in 1 .. Len(wire) : FlagOf(wire[i], client, f)
    BY <1>4, <2>1 DEF Owed
  <2>2. CASE \E i \in 1 .. Len(req) : FlagOf(req[i], client, f)
    <3>1. PICK i \in 1 .. Len(req) : FlagOf(req[i], client, f)
      BY <2>2
    <3>2. CASE i = 1
      BY <1>2, <3>1, <3>2
    <3>3. CASE i # 1
      <4>1. i - 1 \in 1 .. Len(req') /\ req'[i - 1] = req[i]
        BY <1>2, <3>3
      <4> QED BY <1>4, <3>1, <4>1 DEF Owed
    <3> QED BY <3>2, <3>3
  <2> QED BY <1>4, <2>1, <2>2 DEF Owed
<1>5. ASSUME Served, \A f \in Flags : FlagOf(m, client, f) => ~InCall'
      PROVE  StoreInv'
  <2>1. ASSUME InCall', up PROVE Owed(wire, req, client) \subseteq Owed(wire', req', client)
    <3>1. PICK q \in Seq(Event) : wire' = wire \o q
      BY <1>5, <2>1 DEF Served
    <3>2. Len(wire') \in Nat /\ \A i \in 1 .. Len(wire) : i \in 1 .. Len(wire') /\ wire'[i] = wire[i]
      BY <1>1, <3>1
    <3>3. ASSUME NEW f \in Owed(wire, req, client) PROVE f \in Owed(wire', req', client)
      <4>1. f \in Flags
        BY DEF Owed
      <4> QED BY <1>4, <1>5, <2>1, <3>2, <4>1
    <3> QED BY <3>3
  <2> QED BY <1>1, <1>2, <1>5, <2>1, ServedKeeps
<1>6. CASE m.t = "join" /\ Joined(m.s)
  <2>1. Served
    BY <1>1, <1>3, <1>6, JoinedServed
  <2>2. \A f \in Flags : ~FlagOf(m, client, f)
    BY <1>6 DEF FlagOf
  <2> QED BY <1>5, <2>1, <2>2
<1>7. CASE m.t = "leave" /\ m.s \in DOMAIN srv.ses /\ Left(m.s)
  <2>1. Served
    BY <1>1, <1>7, LeftServed
  <2>2. \A f \in Flags : ~FlagOf(m, client, f)
    BY <1>7 DEF FlagOf
  <2> QED BY <1>5, <2>1, <2>2
<1>8. CASE /\ m.t = "flag" /\ m.s \in DOMAIN srv.ses
           /\ srv' = [srv EXCEPT !.ses[m.s] = IF m.on THEN @ \cup {m.f} ELSE @ \ {m.f}]
           /\ Send(Participants(srv.ses, <<m>>))
           /\ UNCHANGED <<calls, used>>
  <2>1. m \in FlagMessage
    BY <1>2, <1>8 DEF Request
  <2>2. m \in Event /\ m.f \in Flags /\ m.on \in BOOLEAN /\ m.t \notin {"call_state", "call_start"}
    BY <1>8, <2>1 DEF Event, FlagMessage
  <2>3. /\ srv' \in Call /\ SameBut(srv, srv', {"ses"}) /\ DOMAIN srv'.ses = DOMAIN srv.ses
        /\ \A g \in Flags : g \in srv'.ses[m.s] <=> IF g = m.f THEN m.on ELSE g \in srv.ses[m.s]
        /\ \A u \in DOMAIN srv.ses \ {m.s} : srv'.ses[u] = srv.ses[u]
    <3> DEFINE s == m.s
               f == m.f
               on == m.on
               sv == srv'
    <3>1. /\ s \in DOMAIN srv.ses /\ f \in Flags /\ on \in BOOLEAN
          /\ sv = [srv EXCEPT !.ses[s] = IF on THEN @ \cup {f} ELSE @ \ {f}]
      BY <1>8, <2>2
    <3> HIDE DEF s, f, on, sv
    <3>2. /\ sv \in Call /\ SameBut(srv, sv, {"ses"}) /\ DOMAIN sv.ses = DOMAIN srv.ses
          /\ \A g \in Flags : g \in sv.ses[s] <=> IF g = f THEN on ELSE g \in srv.ses[s]
          /\ \A u \in DOMAIN srv.ses \ {s} : sv.ses[u] = srv.ses[u]
      BY <1>1, <3>1, FlagChange
    <3> QED BY <3>2 DEF s, f, on, sv
  <2>4. srv'.id = srv.id
    BY <2>3 DEF SameBut
  <2>5. ASSUME NEW T \in Store, Agree(T, srv) PROVE Agree(Apply(T, m), srv')
    <3> DEFINE s == m.s
               f == m.f
               on == m.on
               sv == srv'
    <3>0. /\ s \in Sessions /\ f \in Flags /\ on \in BOOLEAN /\ s \in DOMAIN srv.ses
          /\ SameBut(srv, sv, {"ses"}) /\ DOMAIN sv.ses = DOMAIN srv.ses
          /\ \A g \in Flags : g \in sv.ses[s] <=> IF g = f THEN on ELSE g \in srv.ses[s]
          /\ \A u \in DOMAIN srv.ses \ {s} : sv.ses[u] = srv.ses[u]
      BY <1>3, <1>8, <2>2, <2>3
    <3> HIDE DEF s, f, on, sv
    <3>1. Agree(USER_FLAG(T, s, f, on), sv)
      BY <2>5, <3>0, AgreeFlag
    <3> QED BY <1>8, <3>1, ApplyIs DEF s, f, on, sv
  <2>6. Participants(srv.ses, <<m>>) \in {<<>>, <<m>>}
    BY DEF Participants
  <2>7. \A c \in Local : c \in DOMAIN srv.ses => Participants(srv.ses, <<m>>) = <<m>>
    BY ClientIsTold
  <2>8. Served
    BY <1>1, <1>8, <2>2, <2>3, <2>4, <2>5, <2>6, <2>7, PublishServed
  <2>9. ASSUME InCall', up PROVE Owed(wire, req, client) \subseteq Owed(wire', req', client)
    <3>1. client \in Local /\ client \in DOMAIN srv.ses
      BY <1>1, <2>3, <2>9 DEF InCall, StoreInv, StoreTypes
    <3>2. wire' = wire \o <<m>>
      BY <1>8, <2>7, <2>9, <3>1 DEF Send
    <3>3. wire' = Append(wire, m)
      BY <1>1, <2>2, <3>2, ConcatOne
    <3>4. /\ Len(wire') = Len(wire) + 1 /\ Len(wire) \in Nat /\ wire'[Len(wire) + 1] = m
          /\ \A i \in 1 .. Len(wire) : i \in 1 .. Len(wire') /\ wire'[i] = wire[i]
      BY <1>1, <2>2, <3>3
    <3>5. ASSUME NEW f \in Owed(wire, req, client) PROVE f \in Owed(wire', req', client)
      <4>1. Len(wire') \in Nat /\ Len(wire) + 1 \in 1 .. Len(wire') /\ f \in Flags
        BY <3>4 DEF Owed
      <4>2. CASE FlagOf(m, client, f)
        BY <3>4, <4>1, <4>2 DEF Owed
      <4>3. CASE ~FlagOf(m, client, f)
        BY <1>4, <3>4, <4>1, <4>3
      <4> QED BY <4>2, <4>3
    <3> QED BY <3>5
  <2> QED BY <1>1, <1>2, <2>8, <2>9, ServedKeeps
<1>9. CASE m.t # "join" /\ m.s \notin DOMAIN srv.ses /\ UNCHANGED <<srv, calls, used, wire>>
  <2>1. ServerTypes'
    BY <1>1, <1>9 DEF ServerTypes
  <2>2. wire' = wire \o <<>> /\ <<>> \in Seq(Event)
    BY <1>1, <1>9, ConcatEmptySeq
  <2>3. Served
    BY <1>9, <2>1, <2>2 DEF Served
  <2>4. \A f \in Flags : FlagOf(m, client, f) => ~InCall'
    BY <1>1, <1>9 DEF FlagOf, InCall
  <2> QED BY <1>5, <2>3, <2>4
<1> QED BY <1>6, <1>7, <1>8, <1>9 DEF HandleRequest, m

LEMMA ServerKeeps ==
    ASSUME StoreInv, ServerStep
    PROVE  StoreInv'
<1>1. ServerTypes
  BY DEF StoreInv, StoreTypes
<1>2. ASSUME NEW s \in Sessions, RemoteJoin(s) PROVE StoreInv'
  BY <1>1, <1>2, JoinedServed, ServedMore DEF RemoteJoin
<1>3. ASSUME NEW s \in Sessions, RemoteLeave(s) PROVE StoreInv'
  BY <1>1, <1>3, LeftServed, ServedMore DEF RemoteLeave
<1>4. ASSUME NEW s \in Sessions, RemoteScreen(s) PROVE StoreInv'
  <2>1. UNCHANGED <<up, store, client, act, req>>
    BY <1>4 DEF RemoteScreen, Change
  <2> QED BY <1>1, <1>4, <2>1, RemoteScreenServed, ServedMore
<1>5. ASSUME NEW s \in Sessions, Voice(s) PROVE StoreInv'
  <2>1. UNCHANGED <<up, store, client, act, req>>
    BY <1>5 DEF Voice
  <2> QED BY <1>1, <1>5, <2>1, VoiceServed, ServedMore
<1>6. ASSUME NEW s \in Sessions, NEW f \in Flags, RemoteFlag(s, f) PROVE StoreInv'
  <2>1. UNCHANGED <<up, store, client, act, req>>
    BY <1>6 DEF RemoteFlag, Change
  <2> QED BY <1>1, <1>6, <2>1, RemoteFlagServed, ServedMore
<1>7. ASSUME NEW u \in Users, HostMake(u) PROVE StoreInv'
  <2>1. UNCHANGED <<up, store, client, act, req>>
    BY <1>7 DEF HostMake, Change
  <2> QED BY <1>1, <1>7, <2>1, HostMakeServed, ServedMore
<1>8. CASE Recording
  <2>1. UNCHANGED <<up, store, client, act, req>>
    BY <1>8 DEF Recording, Change
  <2> QED BY <1>1, <1>8, <2>1, RecordingServed, ServedMore
<1>9. CASE HostEnd
  <2>1. UNCHANGED <<up, store, client, act, req>>
    BY <1>9 DEF HostEnd
  <2> QED BY <1>1, <1>9, <2>1, HostEndServed, ServedMore
<1> QED BY <1>2, <1>3, <1>4, <1>5, <1>6, <1>7, <1>8, <1>9, RequestKeeps DEF ServerStep

-----------------------------------------------------------------------------
(* Steps of the web app                                                    *)

LEMMA ClosedTypes ==
    ASSUME StoreTypes, NEW st \in Store
    PROVE  Closed(st) \in Store /\ CALL_END(Closed(st)) \in Store /\ LeaveRequest \in Seq(Request)
<1>1. Closed(st) \in Store
  BY DEF Closed, LOCAL_SESSION_CLOSE, Store
<1>2. CALL_END(Closed(st)) \in Store
  BY <1>1 DEF CALL_END, Store
<1>3. LeaveRequest \in Seq(Request)
  <2>1. CASE client = None
    BY <2>1 DEF LeaveRequest, StoreTypes
  <2>2. CASE client # None
    <3>1. client \in Sessions
      BY <2>2, MeIsLocal DEF StoreTypes
    <3>2. [t |-> "leave", s |-> client] \in Request
      BY <3>1 DEF Request
    <3> QED BY <2>2, <3>2 DEF LeaveRequest, StoreTypes
  <2> QED BY <2>1, <2>2
<1> QED BY <1>1, <1>2, <1>3

LEMMA ClientKeeps ==
    ASSUME StoreInv, ClientStep
    PROVE  StoreInv'
<1>1. StoreTypes
  BY DEF StoreInv
<1>2. ASSUME NEW s \in Local, connectCall(s) PROVE StoreInv'
  <2>1. s \in Sessions /\ s # None
    BY MeIsLocal, NoneApart
  <2>2. [t |-> "join", s |-> s] \in Request
    BY <2>1 DEF Request
  <2>3. req' \in Seq(Request) /\ client' \in Local \cup {None}
    BY <1>1, <1>2, <2>2 DEF connectCall, StoreTypes
  <2>4. StoreTypes'
    BY <1>1, <1>2, <2>3 DEF connectCall, env, StoreTypes, ServerTypes
  <2>5. ~InCall'
    BY <1>1, <1>2 DEF connectCall, env, InCall, StoreTypes, ServerTypes
  <2> QED BY <2>4, <2>5 DEF StoreInv
<1>3. ASSUME NEW f \in Flags, ClientFlag(f) PROVE StoreInv'
  <2> DEFINE on == f \notin FlagsOf(store, client)
             m == [t |-> "flag", s |-> client, f |-> f, on |-> on]
  <2>1. /\ client \in Local /\ client \in Sessions /\ store \in Store /\ on \in BOOLEAN
        /\ store' = USER_FLAG(store, client, f, on) /\ req' = Append(req, m)
        /\ UNCHANGED <<srv, calls, used, wire, up, client, act>>
        /\ req \in Seq(Request) /\ wire \in Seq(Event)
    BY <1>1, <1>3, MeIsLocal DEF ClientFlag, StoreTypes, ServerTypes
  <2>2. m \in Request /\ FlagOf(m, client, f)
    BY <2>1 DEF Request, FlagMessage, FlagOf
  <2> HIDE DEF m, on
  <2>3. store' \in Store
    <3>1. CASE store.ses = None
      BY <2>1, FlagStore
    <3>2. CASE store.ses # None
      BY <2>1, <3>2, FlagStore
    <3> QED BY <3>1, <3>2
  <2>4. req' \in Seq(Request) /\ Len(req') = Len(req) + 1 /\ Len(req) \in Nat /\ req'[Len(req) + 1] = m
        /\ \A i \in 1 .. Len(req) : req'[i] = req[i]
    BY <2>1, <2>2
  <2>5. StoreTypes'
    BY <1>1, <2>1, <2>3, <2>4 DEF StoreTypes, ServerTypes
  <2>6. Owed(wire, req, client) \cup {f} \subseteq Owed(wire, req', client)
    <3>1. Len(req) + 1 \in 1 .. Len(req') /\ \A i \in 1 .. Len(req) : i \in 1 .. Len(req')
      BY <2>4
    <3> QED BY <2>2, <2>4, <3>1 DEF Owed
  <2>7. ASSUME Synced PROVE Synced'
    <3>1. PICK T : Tracked(wire, Owed(wire, req, client), client, srv.id, store, T) /\ Agree(T, srv)
      BY <2>7 DEF Synced, SyncedAt
    <3>2. Tracked(wire, Owed(wire, req, client) \cup {f}, client, srv.id, store', T)
      BY <2>1, <3>1, TrackPress
    <3>3. Tracked(wire, Owed(wire, req', client), client, srv.id, store', T)
      BY <2>6, <3>2, TrackWider
    <3> QED BY <2>1, <3>1, <3>3 DEF Synced, SyncedAt
  <2>8. (InCall' => InCall) /\ (Pending => Pending')
    BY <2>1 DEF InCall, Pending
  <2> QED BY <2>5, <2>7, <2>8 DEF StoreInv
<1>4. ASSUME disconnect PROVE StoreInv'
  <2>1. store \in Store
    BY <1>1 DEF StoreTypes
  <2>2. store' \in Store /\ req' \in Seq(Request)
    BY <1>1, <1>4, <2>1, ClosedTypes DEF disconnect
  <2>3. StoreTypes'
    BY <1>1, <1>4, <2>2 DEF disconnect, env, StoreTypes, ServerTypes
  <2> QED BY <1>4, <2>3 DEF disconnect, InCall, StoreInv
<1> QED BY <1>2, <1>3, <1>4 DEF ClientStep

\* What every handler does.
LEMMA HandlerShape ==
    ASSUME StoreTypes, HandlerStep
    PROVE  /\ wire # <<>> /\ wire' = Tail(wire) /\ UNCHANGED <<srv, calls, used, up, act>>
           /\ store' \in Store /\ req' \in Seq(Request) /\ client' \in {client, None}
           /\ client' # None => client' = client /\ req' = req /\ store' = Apply(store, Head(wire))
<1>1. wire \in Seq(Event) /\ store \in Store /\ req \in Seq(Request)
  BY DEF StoreTypes, ServerTypes
<1>2. ASSUME wire # <<>> PROVE Ev \in Event /\ Ev = Head(wire) /\ Apply(store, Ev) \in Store
  <2>1. Head(wire) \in Event
    BY <1>1, <1>2
  <2> QED BY <1>1, <2>1, ApplyStore DEF Ev
<1>3. ASSUME NEW k, Next1(k) PROVE wire # <<>> /\ Ev.t = k /\ wire' = Tail(wire)
  BY <1>3 DEF Next1, Ev
<1>4. ASSUME NEW k, Next1(k), Handled(Apply(store, Ev))
      PROVE  /\ wire # <<>> /\ wire' = Tail(wire) /\ UNCHANGED <<srv, calls, used, up, act>>
             /\ store' \in Store /\ req' \in Seq(Request) /\ client' = client
             /\ req' = req /\ store' = Apply(store, Head(wire))
  BY <1>1, <1>2, <1>3, <1>4 DEF Handled, env
<1>5. ASSUME NEW k, Next1(k), NEW st \in Store, callEnd(st)
      PROVE  /\ wire # <<>> /\ wire' = Tail(wire) /\ UNCHANGED <<srv, calls, used, up, act>>
             /\ store' \in Store /\ req' \in Seq(Request) /\ client' = None
  BY <1>3, <1>5, ClosedTypes DEF callEnd, env
<1>6. CASE handleUserLeft
  <2>1. Next1("user_left") /\ Ev.t = "user_left"
    BY <1>3, <1>6 DEF handleUserLeft
  <2>2. Apply(store, Ev) = USER_LEFT(store, Ev.s) /\ Apply(store, Ev) \in Store
    BY <1>2, <1>3, <2>1, ApplyIs
  <2> DEFINE st == USER_LEFT(store, Ev.s)
  <2>3. Handled(st) \/ callEnd(st)
    BY <1>6 DEF handleUserLeft
  <2> HIDE DEF st
  <2>4. st = Apply(store, Ev) /\ st \in Store
    BY <2>2 DEF st
  <2>5. CASE Handled(st)
    BY <1>4, <2>1, <2>4, <2>5
  <2>6. CASE callEnd(st)
    BY <1>5, <2>1, <2>4, <2>6
  <2> QED BY <2>3, <2>5, <2>6
<1>7. CASE handleCallEnd
  BY <1>1, <1>5, <1>7 DEF handleCallEnd
<1>8. CASE handleCallStart
  BY <1>3, <1>4, <1>8, ApplyIs DEF handleCallStart
<1>9. CASE handleUserJoined
  BY <1>3, <1>4, <1>9, ApplyIs DEF handleUserJoined
<1>10. CASE handleCallState
  BY <1>3, <1>4, <1>10, ApplyIs DEF handleCallState
<1>11. CASE handleFlag
  BY <1>3, <1>4, <1>11, ApplyIs DEF handleFlag
<1>12. CASE handleVoice
  BY <1>3, <1>4, <1>12, ApplyIs DEF handleVoice
<1>13. CASE handleUserScreenOn
  BY <1>3, <1>4, <1>13, ApplyIs DEF handleUserScreenOn
<1>14. CASE handleUserScreenOff
  BY <1>3, <1>4, <1>14, ApplyIs DEF handleUserScreenOff
<1>15. CASE handleCallHostChanged
  BY <1>3, <1>4, <1>15, ApplyIs DEF handleCallHostChanged
<1>16. CASE handleCallJobState
  BY <1>3, <1>4, <1>16, ApplyIs DEF handleCallJobState
<1> QED BY <1>6, <1>7, <1>8, <1>9, <1>10, <1>11, <1>12, <1>13, <1>14, <1>15, <1>16 DEF HandlerStep

LEMMA HandlerKeeps ==
    ASSUME StoreInv, HandlerStep
    PROVE  StoreInv'
<1>1. StoreTypes /\ wire \in Seq(Event) /\ store \in Store
  BY DEF StoreInv, StoreTypes, ServerTypes
<1>2. /\ wire # <<>> /\ wire' = Tail(wire) /\ UNCHANGED <<srv, calls, used, up, act>>
      /\ store' \in Store /\ req' \in Seq(Request) /\ client' \in {client, None}
      /\ client' # None => client' = client /\ req' = req /\ store' = Apply(store, Head(wire))
  BY <1>1, HandlerShape
<1>3. /\ Tail(wire) \in Seq(Event) /\ Len(Tail(wire)) = Len(wire) - 1 /\ wire[1] = Head(wire) /\ Len(wire) \in Nat
      /\ \A i \in 2 .. Len(wire) : i - 1 \in 1 .. Len(Tail(wire)) /\ Tail(wire)[i - 1] = wire[i]
  BY <1>1, <1>2
<1>4. StoreTypes'
  BY <1>1, <1>2, <1>3 DEF StoreTypes, ServerTypes
<1>5. ASSUME InCall', Synced PROVE Synced'
  <2>1. client' # None /\ client' = client /\ req' = req /\ store' = Apply(store, Head(wire))
    BY <1>2, <1>5 DEF InCall
  <2>2. PICK T : Tracked(wire, Owed(wire, req, client), client, srv.id, store, T) /\ Agree(T, srv)
    BY <1>5 DEF Synced, SyncedAt
  <2>3. ASSUME NEW f \in Owed(wire, req, client) \ Owed(Tail(wire), req, client)
        PROVE  Head(wire).t = "flag" /\ Head(wire).s = client /\ Head(wire).f = f
    <3>1. PICK i \in 1 .. Len(wire) : FlagOf(wire[i], client, f)
      BY <2>3 DEF Owed
    <3>2. i = 1
      <4>1. SUFFICES ASSUME i # 1 PROVE FALSE
        OBVIOUS
      <4>2. i \in 2 .. Len(wire)
        BY <1>3, <3>1, <4>1
      <4>3. i - 1 \in 1 .. Len(Tail(wire)) /\ FlagOf(Tail(wire)[i - 1], client, f) /\ f \in Flags
        BY <1>3, <2>3, <3>1, <4>2 DEF Owed
      <4> QED BY <2>3, <4>3 DEF Owed
    <3> QED BY <1>3, <3>1, <3>2 DEF FlagOf
  <2>4. Tracked(Tail(wire), Owed(Tail(wire), req, client), client, srv.id, Apply(store, Head(wire)), T)
    BY <1>1, <1>2, <2>2, <2>3, TrackHandled
  <2> QED BY <1>2, <2>1, <2>2, <2>4 DEF Synced, SyncedAt
<1>6. (InCall' => InCall) /\ (Pending => Pending')
  BY <1>2 DEF InCall, Pending
<1> QED BY <1>4, <1>5, <1>6 DEF StoreInv

-----------------------------------------------------------------------------
(* Activation                                                              *)

LEMMA FetchedTypes ==
    ASSUME StoreTypes, NEW i \in Activations, act[i].at = "got"
    PROVE  /\ fetchChannels(i) \in Store
           /\ act[i].skip => fetchChannels(i) = store
           /\ store.call # 0 => fetchChannels(i) = store
<1> DEFINE c == act[i].call
<1>1. act[i] \in Activation
  BY DEF StoreTypes
<1>2. c \in Call /\ c.id \in Nat /\ c.ses \in SessionTables
  BY <1>1 DEF Activation, Call
<1>3. store \in Store
  BY DEF StoreTypes
<1> HIDE DEF c
<1>4. CALL_STATE(store, c.id) \in Store
  BY <1>2, <1>3, CallStore
<1>5. USERS_STATES(CALL_STATE(store, c.id), c.ses) \in Store
  BY <1>2, <1>4, UsersStatesStore
<1> QED BY <1>3, <1>5 DEF fetchChannels, c

LEMMA ActivationKeeps ==
    ASSUME StoreInv, ActivationStep
    PROVE  StoreInv'
<1>1. /\ StoreTypes /\ ServerTypes /\ wire \in Seq(Event) /\ store \in Store /\ srv \in Call
      /\ act \in [Activations -> Activation]
  BY DEF StoreInv, StoreTypes, ServerTypes
<1>2. ASSUME Drop PROVE StoreInv'
  <2>1. <<>> \in Seq(Event) /\ Done \in Activation
    BY DEF Done, Activation
  <2>2. act' \in [Activations -> Activation]
    BY <1>1, <1>2, <2>1 DEF Drop
  <2>3. StoreTypes' /\ ~up'
    BY <1>1, <1>2, <2>1, <2>2 DEF Drop, env, StoreTypes, ServerTypes
  <2> QED BY <2>3 DEF StoreInv, Pending
<1>3. ASSUME NEW i \in Activations, Reconnect(i) PROVE StoreInv'
  <2>1. [at |-> "config"] \in Activation
    BY DEF Activation
  <2>2. act' \in [Activations -> Activation] /\ act'[i].at = "config"
    BY <1>1, <1>3, <2>1 DEF Reconnect
  <2>3. store' \in Store /\ up' \in BOOLEAN
    BY <1>1, <1>3, EmptyIsStore DEF Reconnect, UNINIT
  <2>4. StoreTypes'
    BY <1>1, <1>3, <2>2, <2>3 DEF Reconnect, env, StoreTypes, ServerTypes
  <2>5. i \in Activations \ {1}
    BY <1>3 DEF Reconnect
  <2>6. Pending'
    BY <2>2, <2>5 DEF Pending, Asking
  <2> QED BY <2>4, <2>6 DEF StoreInv
<1>4. ASSUME NEW i \in Activations, ConfigReceived(i) PROVE StoreInv'
  <2> DEFINE skip == client # None
  <2>1. skip \in BOOLEAN
    OBVIOUS
  <2>2. act' = [act EXCEPT ![i] = [at |-> "sent", skip |-> skip]]
    BY <1>4 DEF ConfigReceived
  <2> HIDE DEF skip
  <2>3. [at |-> "sent", skip |-> skip] \in Activation
    BY <2>1 DEF Activation
  <2>4. act' \in [Activations -> Activation] /\ act'[i] = [at |-> "sent", skip |-> skip]
    BY <1>1, <2>2, <2>3
  <2>5. StoreTypes'
    BY <1>1, <1>4, <2>4 DEF ConfigReceived, env, StoreTypes, ServerTypes
  <2>6. \A j \in Activations \ {i} : act'[j] = act[j]
    BY <1>1, <2>2, <2>3
  <2>7. CASE i = 1
    <3>1. Pending => Pending'
      BY <1>4, <2>6, <2>7 DEF ConfigReceived, Pending
    <3>2. (InCall' => InCall) /\ (Synced => Synced')
      BY <1>4 DEF ConfigReceived, env, InCall, Synced
    <3> QED BY <2>5, <3>1, <3>2 DEF StoreInv
  <2>8. CASE i # 1
    <3>1. InCall' => Pending'
      BY <1>4, <2>4, <2>8 DEF ConfigReceived, InCall, Pending, Asking, skip
    <3> QED BY <2>5, <3>1 DEF StoreInv
  <2> QED BY <2>7, <2>8
<1>5. ASSUME NEW i \in Activations, ChannelsRead(i) PROVE StoreInv'
  <2>1. PICK v \in {srv, NoCall} : act' = [act EXCEPT ![i] = [at |-> "got", skip |-> act[i].skip, call |-> v]]
    BY <1>5 DEF ChannelsRead
  <2>2. v \in Call /\ act[i].skip \in BOOLEAN
    <3>1. act[i] \in Activation /\ act[i].at = "sent"
      BY <1>1, <1>5 DEF ChannelsRead
    <3> QED BY <1>1, <3>1, NoCallIsCall DEF Activation
  <2>3. [at |-> "got", skip |-> act[i].skip, call |-> v] \in Activation
    BY <2>2 DEF Activation
  <2>4. /\ act' \in [Activations -> Activation]
        /\ act'[i].at = "got" /\ act'[i].skip = act[i].skip
        /\ \A j \in Activations \ {i} : act'[j] = act[j]
    BY <1>1, <2>1, <2>3
  <2>5. StoreTypes'
    BY <1>1, <1>5, <2>4 DEF ChannelsRead, env, StoreTypes, ServerTypes
  <2>6. Pending => Pending'
    <3>1. act[i].at = "sent" /\ up' = up
      BY <1>5 DEF ChannelsRead
    <3>2. \A j \in Activations : Asking(act[j]) => Asking(act'[j])
      BY <2>4, <3>1 DEF Asking
    <3> QED BY <3>1, <3>2 DEF Pending
  <2>7. (InCall' => InCall) /\ (Synced => Synced')
    BY <1>5 DEF ChannelsRead, env, InCall, Synced
  <2> QED BY <2>5, <2>6, <2>7 DEF StoreInv
<1>6. ASSUME NEW i \in Activations, ChannelsReceived(i) PROVE StoreInv'
  <2>1. /\ act[i].at = "got" /\ store' = fetchChannels(i)
        /\ act' = [act EXCEPT ![i] = IF act[i].skip /\ up /\ i > 1 THEN [at |-> "asked"] ELSE Done]
        /\ UNCHANGED <<srv, env, wire, up, client, req>>
    BY <1>6 DEF ChannelsReceived
  <2>2. /\ store' \in Store /\ (act[i].skip => store' = store) /\ (store.call # 0 => store' = store)
    BY <1>1, <2>1, FetchedTypes
  <2>3. [at |-> "asked"] \in Activation /\ Done \in Activation
    BY DEF Activation, Done
  <2>4. /\ act' \in [Activations -> Activation]
        /\ act'[i] = IF act[i].skip /\ up /\ i > 1 THEN [at |-> "asked"] ELSE Done
        /\ \A j \in Activations \ {i} : act'[j] = act[j]
    BY <1>1, <2>1, <2>3
  <2>5. StoreTypes'
    BY <1>1, <2>1, <2>2, <2>4 DEF env, StoreTypes, ServerTypes
  <2>6. Pending => Pending'
    <3>1. CASE ~up
      BY <2>1, <3>1 DEF Pending
    <3>2. CASE up /\ \E j \in Activations \ {1} : Asking(act[j])
      <4>1. PICK j \in Activations \ {1} : Asking(act[j])
        BY <3>2
      <4>2. CASE j = i
        <5>1. i > 1
          BY <4>1, <4>2 DEF Activations
        <5> QED BY <2>1, <2>4, <3>2, <4>1, <4>2, <5>1 DEF Pending, Asking
      <4>3. CASE j # i
        BY <2>4, <4>1, <4>3 DEF Pending
      <4> QED BY <4>2, <4>3
    <3> QED BY <3>1, <3>2 DEF Pending
  <2>7. ASSUME InCall, Synced PROVE Synced'
    <3>1. PICK T : Tracked(wire, Owed(wire, req, client), client, srv.id, store, T) /\ Agree(T, srv)
      BY <2>7 DEF Synced, SyncedAt
    <3>2. Tracked(wire, Owed(wire, req, client), client, srv.id, store', T)
      <4>1. CASE store.call # 0
        BY <2>2, <3>1, <4>1
      <4>2. CASE store.call = 0
        <5>1. srv.id # 0
          BY <1>1, <2>7 DEF InCall, ServerTypes
        <5> QED BY <1>1, <3>1, <4>2, <5>1, TrackOther
      <4> QED BY <4>1, <4>2
    <3> QED BY <2>1, <3>1, <3>2 DEF env, Synced, SyncedAt
  <2>8. InCall' => InCall
    BY <2>1 DEF InCall
  <2> QED BY <2>5, <2>6, <2>7, <2>8 DEF StoreInv
<1>7. ASSUME NEW i \in Activations, StateRequested(i) PROVE StoreInv'
  <2> DEFINE evs == IF srv.id # 0 THEN <<StateEvent(srv)>> ELSE <<>>
  <2>1. /\ act' = [act EXCEPT ![i] = Done] /\ Send(evs) /\ UNCHANGED <<srv, env, up, store, client, req>>
    BY <1>7 DEF StateRequested
  <2>2. evs \in Seq(Event) /\ StateEvent(srv) \in Event
    <3>1. StateEvent(srv) \in Event
      BY <1>1, EventKinds
    <3> QED BY <3>1
  <2>3. Done \in Activation
    BY DEF Done, Activation
  <2>4. act' \in [Activations -> Activation]
    BY <1>1, <2>1, <2>3
  <2>5. wire' \in Seq(Event) /\ (up => wire' = wire \o evs)
    <3> HIDE DEF evs
    <3> QED BY <1>1, <2>1, <2>2, SendTypes
  <2>6. StoreTypes'
    BY <1>1, <2>1, <2>4, <2>5 DEF env, StoreTypes, ServerTypes
  <2>7. ASSUME InCall', up PROVE Synced'
    <3>1. client \in DOMAIN srv.ses /\ srv.id # 0
      BY <1>1, <2>1, <2>7 DEF InCall, ServerTypes
    <3>2. wire' = Append(wire, StateEvent(srv))
      BY <1>1, <2>2, <2>5, <2>7, <3>1, ConcatOne
    <3>3. SyncedAt(Append(wire, StateEvent(srv)), Owed(wire', req, client), client, srv, store)
      BY <1>1, <3>1, SyncedState
    <3> QED BY <2>1, <3>2, <3>3 DEF Synced
  <2>8. ~up => Pending'
    BY <2>1 DEF Pending
  <2> QED BY <2>6, <2>7, <2>8 DEF StoreInv
<1> QED BY <1>2, <1>3, <1>4, <1>5, <1>6, <1>7 DEF ActivationStep

-----------------------------------------------------------------------------
(* Theorems                                                                *)

LEMMA InitStoreInv == Init => StoreInv
<1>1. SUFFICES ASSUME Init PROVE StoreInv
  OBVIOUS
<1>2. [at |-> "config"] \in Activation /\ Off \in Activation
  BY DEF Off, Activation
<1>3. act \in [Activations -> Activation]
  BY <1>1, <1>2 DEF Init
<1>4. wire \in Seq(Event) /\ req \in Seq(Request)
  BY <1>1 DEF Init
<1>5. StoreTypes
  BY <1>1, <1>3, <1>4, NoCallIsCall, EmptyIsStore DEF Init, StoreTypes, ServerTypes
<1>6. ~InCall
  BY <1>1 DEF Init, InCall
<1> QED BY <1>5, <1>6 DEF StoreInv

LEMMA StutterKeeps == StoreInv /\ UNCHANGED vars => StoreInv'
<1>1. SUFFICES ASSUME StoreInv, UNCHANGED vars PROVE StoreInv'
  OBVIOUS
<1>2. UNCHANGED <<srv, calls, used, wire, up, store, client, req, act>>
  BY <1>1 DEF vars
<1> QED BY <1>1, <1>2 DEF StoreInv, StoreTypes, ServerTypes, InCall, Pending, Synced

LEMMA StoreInvariant == Spec => []StoreInv
<1>1. StoreInv /\ [Next]_vars => StoreInv'
  BY ServerKeeps, ClientKeeps, HandlerKeeps, ActivationKeeps, StutterKeeps DEF Next
<1> QED BY <1>1, InitStoreInv, PTL DEF Spec

\* When everything has arrived the store agrees with the server.
LEMMA QuietAgrees ==
    ASSUME StoreInv, Quiet, InCall
    PROVE  /\ store.call = srv.id /\ store.host = srv.host /\ store.screen = srv.screen
           /\ srv.rec => store.rec
           /\ SessionsAgree
<1>1. ~Pending
  BY DEF Quiet, Pending, Asking
<1>2. PICK T : Tracked(wire, Owed(wire, req, client), client, srv.id, store, T) /\ Agree(T, srv)
  BY <1>1 DEF StoreInv, Synced, SyncedAt
<1>3. wire = <<>> /\ req = <<>> /\ wire \in Seq(Event)
  BY DEF Quiet, StoreInv, StoreTypes, ServerTypes
<1>4. Owed(wire, req, client) = {}
  BY <1>3 DEF Owed
<1>5. Near({}, client, T, store) /\ T \in Store
  <2>1. Near(Owed(wire, req, client), client, T, store) /\ T \in Store
    <3> DEFINE F == Owed(wire, req, client)
               w == wire
    <3>1. Tracked(w, F, client, srv.id, store, T) /\ w \in Seq(Event) /\ w = <<>>
      BY <1>2, <1>3
    <3> HIDE DEF F, w
    <3>2. Near(F, client, T, store) /\ T \in Store
      BY <3>1, TrackFacts
    <3> QED BY <3>2 DEF F
  <2> QED BY <1>4, <2>1
<1>6. store \in Store /\ store.ses # None /\ store.ses \in StoreTables /\ srv \in Call /\ srv.ses \in SessionTables
  BY <1>5 DEF Near, Store, StoreInv, StoreTypes, ServerTypes, Call
<1>7. store.call = srv.id /\ store.host = srv.host /\ store.screen = srv.screen /\ (srv.rec => store.rec)
  BY <1>2, <1>5 DEF Near, Agree
<1>8. DOMAIN store.ses = DOMAIN T.ses
  BY <1>5 DEF Near
<1>9. ASSUME NEW s \in DOMAIN srv.ses
      PROVE  s \in DOMAIN store.ses /\ store.ses[s] = [user |-> UserOf[s], on |-> srv.ses[s]]
  <2>1. s \in DOMAIN T.ses /\ s \in DOMAIN store.ses
    BY <1>2, <1>8 DEF Agree
  <2>2. store.ses[s] \in StoreSession /\ srv.ses[s] \in SUBSET Flags
    BY <1>6, <2>1, TableFacts DEF StoreTables, SessionTables
  <2>3. store.ses[s].user = UserOf[s]
    BY <1>2, <1>5, <2>1 DEF Near, Agree
  <2>4. \A f \in Flags : f \in store.ses[s].on <=> f \in srv.ses[s]
    BY <1>2, <1>5, <2>1 DEF Near, Agree
  <2>5. store.ses[s].on = srv.ses[s]
    BY <2>2, <2>4 DEF StoreSession
  <2> QED BY <2>1, <2>2, <2>3, <2>5 DEF StoreSession
<1>10. ASSUME NEW s \in DOMAIN store.ses \ DOMAIN srv.ses
       PROVE  store.ses[s].user = None
  BY <1>2, <1>5, <1>8 DEF Near, Agree
<1> QED BY <1>6, <1>7, <1>9, <1>10 DEF SessionsAgree

\* Once everything in flight has arrived, a user who is in the call sees what
\* the server has: the call, its participants with their flags, the host and
\* the sharer (websocket_handlers.ts, reducers.ts, index.tsx onActivate).
THEOREM StoreInSync == Spec => []InSync
<1>1. StoreInv => InSync
  BY QuietAgrees DEF InSync
<1> QED BY <1>1, StoreInvariant, PTL

\* Once everything in flight has arrived, a user who is in a recorded call is
\* told so (reducers.ts, recordings; actions.ts, loadCallState).
THEOREM StoreShowsRecording == Spec => []RecordingShown
<1>1. StoreInv => RecordingShown
  BY QuietAgrees DEF RecordingShown
<1> QED BY <1>1, StoreInvariant, PTL

=============================================================================
