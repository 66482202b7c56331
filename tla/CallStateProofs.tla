--------------------------- MODULE CallStateProofs ---------------------------
(***************************************************************************)
(* Proofs about the call state, for any users, connections, limit and      *)
(* number of calls.  The first part holds with failing stores and with the *)
(* operations that do not respect the lock.  The second, from NoFaults on, *)
(* is about what the handlers keep when the store answers and every writer *)
(* holds the lock.                                                         *)
(***************************************************************************)
EXTENDS CallState, FiniteSetTheorems, SequenceTheorems, TLAPS

(* Facts about the helpers *)

LEMMA RowTypes ==
    /\ NewCall \in CallRow
    /\ NoSession \in SessionRow
    /\ NilState \in [id : 0..MaxCalls, call : CallRow, sess : [Conns -> SessionRow]]
    /\ Idle \in Cleaner
<1>1. NewCall \in CallRow
  BY DEF NewCall, CallRow
<1>2. NoSession \in SessionRow
  BY DEF NoSession, SessionRow
<1>3. 0 \in 0..MaxCalls
  BY ConfigAssumption
<1> QED BY <1>1, <1>2, <1>3 DEF NilState, Idle, Cleaner

\* The next host is a person or nobody: the bot is never elected.
LEMMA HostIDsType ==
    ASSUME NEW call \in CallRow, NEW s, NEW h \in HostIDs(call, s)
    PROVE  h \in Users \cup {None}
  BY IDAssumption DEF HostIDs, Present, UsersIn, CallRow

LEMMA SetCallEndedType ==
    ASSUME NEW call \in CallRow
    PROVE  SetCallEnded(call) \in CallRow /\ SetCallEnded(call).ended
  BY DEF SetCallEnded, CallRow

\* A copy of a call with other media is the same call for its participants.
LEMMA WithoutMediaType ==
    ASSUME NEW call \in CallRow, NEW c \in Conns
    PROVE  /\ WithoutMedia(call, c) \in CallRow
           /\ WithoutMedia(call, c).ended = call.ended
           /\ WithoutMedia(call, c).parts = call.parts
  BY DEF WithoutMedia, CallRow

LEMMA AfterLeaveType ==
    ASSUME NEW call \in CallRow, NEW s, NEW c \in Conns, NEW after \in AfterLeave(call, s, c)
    PROVE  /\ after \in CallRow
           /\ after.ended \/ (after.ended = call.ended /\ after.parts = call.parts)
<1>1. CASE Present(s) = {}
  <2>1. [call EXCEPT !.video = {}] \in CallRow
    BY DEF CallRow
  <2>2. after = SetCallEnded([call EXCEPT !.video = {}])
    BY <1>1 DEF AfterLeave
  <2> QED BY <2>1, <2>2, SetCallEndedType
<1>2. CASE Present(s) # {} /\ call.host = UserOf[c]
  <2>1. PICK h \in HostIDs(call, s) : after = [call EXCEPT !.host = h]
    BY <1>2 DEF AfterLeave
  <2>2. h \in Users \cup {None}
    BY HostIDsType
  <2> QED BY <2>1, <2>2 DEF CallRow
<1>3. CASE Present(s) # {} /\ call.host # UserOf[c]
  BY <1>3 DEF AfterLeave
<1> QED BY <1>1, <1>2, <1>3

LEMMA PresentFinite ==
    \A s : IsFiniteSet(Present(s)) /\ Cardinality(Present(s)) \in Nat
<1> SUFFICES ASSUME NEW s PROVE IsFiniteSet(Present(s)) /\ Cardinality(Present(s)) \in Nat
  OBVIOUS
<1>1. Present(s) \in SUBSET Conns
  BY DEF Present
<1> QED BY <1>1, IDAssumption, FS_Subset, FS_CardinalityType

LEMMA SessionsFinite ==
    \A i : IsFiniteSet(SessionsOf(i)) /\ Cardinality(SessionsOf(i)) \in Nat
<1> SUFFICES ASSUME NEW i PROVE IsFiniteSet(SessionsOf(i)) /\ Cardinality(SessionsOf(i)) \in Nat
  OBVIOUS
<1>1. SessionsOf(i) \in SUBSET Conns
  BY DEF SessionsOf
<1> QED BY <1>1, IDAssumption, FS_Subset, FS_CardinalityType

-----------------------------------------------------------------------------
(* The inductive invariant *)

IInv == TypeOK /\ CopyCoversTable /\ LimitRespected /\ ParticipantsRecorded

\* A step that adds no session and writes to the call of the copy only, or ends
\* a call, keeps the limit and the list of participants.
LEMMA NoNewSession ==
    ASSUME IInv, TypeOK', Len(calls') = Len(calls),
           \A c \in Conns : sess'[c].call \in {0, sess[c].call},
           \A i \in DOMAIN calls :
              \/ calls'[i] = calls[i]
              \/ calls'[i].ended
              \/ /\ i = mem.id
                 /\ calls'[i].ended = mem.call.ended
                 /\ calls'[i].parts = mem.call.parts
    PROVE  LimitRespected' /\ ParticipantsRecorded'
<1>1. DOMAIN calls' = DOMAIN calls /\ DOMAIN calls = 1..Len(calls)
  BY DEF TypeOK, IInv
<1>2. \A i \in DOMAIN calls : SessionsOf(i)' \subseteq SessionsOf(i)
  BY <1>1 DEF SessionsOf, IInv, TypeOK
<1>3. LimitRespected'
  <2> SUFFICES ASSUME MaxCallParticipants > 0, NEW i \in DOMAIN calls'
               PROVE  Cardinality(SessionsOf(i)') <= MaxCallParticipants
    BY DEF LimitRespected
  <2>1. Cardinality(SessionsOf(i)') <= Cardinality(SessionsOf(i))
    BY <1>1, <1>2, SessionsFinite, FS_Subset
  <2>2. SessionsOf(i)' \in SUBSET Conns
    BY DEF SessionsOf
  <2>3. Cardinality(SessionsOf(i)') \in Nat
    BY <2>2, IDAssumption, FS_Subset, FS_CardinalityType
  <2> QED
    BY <1>1, <2>1, <2>3, SessionsFinite, ConfigAssumption DEF IInv, LimitRespected
<1>4. ParticipantsRecorded'
  <2> SUFFICES ASSUME NEW i \in DOMAIN calls, ~calls'[i].ended, NEW c \in SessionsOf(i)
               PROVE  UserOf[c] \in calls'[i].parts \cup {Bot}
    BY <1>1, <1>2 DEF ParticipantsRecorded, ActiveCalls
  <2>1. CASE calls'[i] = calls[i]
    BY <2>1 DEF IInv, ParticipantsRecorded, ActiveCalls
  <2>2. CASE /\ i = mem.id
             /\ calls'[i].ended = mem.call.ended
             /\ calls'[i].parts = mem.call.parts
    <3>1. mem.id # 0
      BY <1>1, <2>2
    <3> QED BY <2>2, <3>1 DEF IInv, CopyCoversTable
  <2> QED BY <2>1, <2>2
<1> QED BY <1>3, <1>4

\* A nil copy covers any table.
LEMMA NilCopyCovers ==
    ASSUME IInv, TypeOK', mem' = NilState, Len(calls') = Len(calls),
           \A c \in Conns : sess'[c].call \in {0, sess[c].call},
           cleaner' = cleaner \/ cleaner' = Idle
    PROVE  CopyCoversTable'
<1>1. Present(mem'.sess) = {}
  BY DEF Present, NilState, NoSession
<1>2. Cardinality(Present(mem'.sess)) = 0
  BY <1>1, FS_EmptySet
<1>3. mem'.id = 0 /\ \A c \in Conns : mem'.sess[c].call = 0
  BY DEF NilState, NoSession
<1>4. DOMAIN calls' = DOMAIN calls /\ Len(calls) \in Nat
  BY DEF IInv, TypeOK
<1>5. \A c \in Conns : sess'[c].call <= Len(calls')
  <2> TAKE c \in Conns
  <2>1. sess[c].call <= Len(calls)
    BY DEF IInv, CopyCoversTable
  <2> QED BY <1>4, <2>1
<1>6. cleaner'.st # "off" => cleaner' = cleaner
  BY DEF Idle
<1>7. (Cardinality(Present(mem.sess)))' = 0
  BY <1>2 DEF Present
<1>8. MaxCallParticipants > 0 => (Cardinality(Present(mem.sess)))' <= MaxCallParticipants
  BY <1>7, ConfigAssumption
<1>9. /\ (cleaner.st # "off" => cleaner.id \in DOMAIN calls)'
      /\ (cleaner.st \in {"read", "deleted", "locking"} => cleaner.call.ended)'
  BY <1>4, <1>6 DEF IInv, CopyCoversTable
<1> QED BY <1>3, <1>4, <1>5, <1>8, <1>9 DEF CopyCoversTable

\* A copy that stays covers a table that lost sessions.
LEMMA SameCopyCovers ==
    ASSUME IInv, TypeOK', mem' = mem, Len(calls') = Len(calls),
           \A c \in Conns : sess'[c].call \in {0, sess[c].call},
           (cleaner.st # "off" => cleaner.id \in DOMAIN calls)',
           (cleaner.st \in {"read", "deleted", "locking"} => cleaner.call.ended)'
    PROVE  CopyCoversTable'
<1>1. mem.id \in Nat /\ Len(calls) \in Nat
  BY ConfigAssumption DEF IInv, TypeOK
<1>2. ASSUME NEW c \in Conns
      PROVE  /\ sess'[c].call <= Len(calls')
             /\ mem'.sess[c].call \in {0, mem'.id}
             /\ sess'[c].call = mem'.id => mem'.sess[c].call = mem'.id
             /\ mem'.sess[c].call # 0 => sess'[c].call \in {0, mem'.id}
  <2>1. /\ sess[c].call <= Len(calls)
        /\ mem.sess[c].call \in {0, mem.id}
        /\ sess[c].call = mem.id => mem.sess[c].call = mem.id
        /\ mem.sess[c].call # 0 => sess[c].call \in {0, mem.id}
    BY DEF IInv, CopyCoversTable
  <2> QED BY <1>1, <2>1
<1>3. mem.id # 0 => SessionsOf(mem.id)' \subseteq SessionsOf(mem.id)
  BY <1>1 DEF SessionsOf
<1>4. mem'.id # 0 /\ ~mem'.call.ended =>
         \A c \in SessionsOf(mem.id)' : UserOf[c] \in mem'.call.parts \cup {Bot}
  BY <1>3 DEF IInv, CopyCoversTable
<1>5. MaxCallParticipants > 0 => (Cardinality(Present(mem.sess)))' <= MaxCallParticipants
  BY DEF IInv, CopyCoversTable, Present
<1>6. mem'.id <= Len(calls')
  BY DEF IInv, CopyCoversTable
<1> QED BY <1>2, <1>4, <1>5, <1>6 DEF CopyCoversTable

\* A handler that runs one operation: it may write the call of its copy.
LEMMA HandlerStep ==
    ASSUME IInv, Handler,
           NEW call \in CallRow, call.ended = mem.call.ended, call.parts = mem.call.parts,
           UpdateCall(call) \/ UNCHANGED calls,
           sess' \in [Conns -> SessionRow],
           \A c \in Conns : sess'[c].call \in {0, sess[c].call},
           UNCHANGED <<conn, cleaner, joined>>
    PROVE  IInv'
<1>0. mem.id \in 1..Len(calls)
  BY ConfigAssumption DEF IInv, TypeOK, CopyCoversTable, Handler
<1>1. calls' \in Seq(CallRow) /\ Len(calls') = Len(calls)
  <2>1. calls \in Seq(CallRow)
    BY DEF IInv, TypeOK
  <2>2. CASE UpdateCall(call)
    BY <1>0, <2>1, <2>2, ExceptSeq DEF UpdateCall
  <2>3. CASE UNCHANGED calls
    BY <2>1, <2>3
  <2> QED BY <2>2, <2>3
<1>2. TypeOK'
  BY <1>1, RowTypes DEF IInv, TypeOK, Handler, Release
<1>3. ASSUME NEW i \in DOMAIN calls
      PROVE  calls'[i] = calls[i] \/ (i = mem.id /\ calls'[i] = call)
  BY DEF IInv, TypeOK, UpdateCall
<1>4. LimitRespected' /\ ParticipantsRecorded'
  BY <1>1, <1>2, <1>3, NoNewSession
<1>5. CopyCoversTable'
  BY <1>1, <1>2, NilCopyCovers DEF Handler, Release
<1> QED BY <1>2, <1>4, <1>5 DEF IInv

LEMMA UpdateCallSessionKeeps ==
    ASSUME IInv, NEW c \in Conns, mem.sess[c].call # 0, NEW on \in SUBSET Flags,
           UpdateCallSession(c, on)
    PROVE  /\ sess' \in [Conns -> SessionRow]
           /\ \A d \in Conns : sess'[d].call \in {0, sess[d].call}
<1>1. [mem.sess[c] EXCEPT !.on = on] \in SessionRow
  BY DEF IInv, TypeOK, SessionRow
<1>2. [mem.sess[c] EXCEPT !.on = on].call = mem.sess[c].call
  BY DEF IInv, TypeOK, SessionRow
<1>3. sess[c].call \in {0, mem.id} /\ mem.sess[c].call = mem.id
  BY DEF IInv, CopyCoversTable
<1> QED BY <1>1, <1>2, <1>3 DEF IInv, TypeOK, UpdateCallSession

LEMMA SwitchedType ==
    ASSUME IInv, NEW c \in Conns, NEW f \in Flags, NEW value \in BOOLEAN
    PROVE  Switched(c, f, value) \in SUBSET Flags
  BY DEF IInv, TypeOK, SessionRow, Switched

\* Client messages and API requests.
LEMMA MessageStep ==
    ASSUME IInv,
           \/ \E c \in Conns :
                \/ \E value \in BOOLEAN : \/ ToggleVideo(c, value)
                                           \/ \E f \in Flags : ToggleFlag(c, f, value)
                \/ ScreenOn(c) \/ ScreenOff(c)
           \/ \E u, v \in Users : changeHost(u, v)
           \/ \E u \in Dismissers : DismissNotification(u)
    PROVE  IInv'
<1>0. mem.call \in CallRow
  BY DEF IInv, TypeOK
<1>1. ASSUME NEW c \in Conns, NEW value \in BOOLEAN, ToggleVideo(c, value) PROVE IInv'
  <2> DEFINE call == [mem.call EXCEPT !.video = IF value THEN @ \cup {c} ELSE @ \ {c}]
  <2>1. call \in CallRow /\ call.ended = mem.call.ended /\ call.parts = mem.call.parts
    BY <1>0 DEF CallRow
  <2>2. /\ sess' \in [Conns -> SessionRow]
        /\ \A d \in Conns : sess'[d].call \in {0, sess[d].call}
    BY <1>1, SwitchedType, UpdateCallSessionKeeps DEF ToggleVideo
  <2>3. Handler /\ (UpdateCall(call) \/ UNCHANGED calls) /\ UNCHANGED <<conn, cleaner, joined>>
    BY <1>1 DEF ToggleVideo
  <2> HIDE DEF call
  <2> QED BY <2>1, <2>2, <2>3, HandlerStep
<1>2. ASSUME NEW c \in Conns, NEW value \in BOOLEAN, NEW f \in Flags, ToggleFlag(c, f, value)
      PROVE  IInv'
  <2>1. /\ sess' \in [Conns -> SessionRow]
        /\ \A d \in Conns : sess'[d].call \in {0, sess[d].call}
    BY <1>2, SwitchedType, UpdateCallSessionKeeps DEF ToggleFlag
  <2> QED BY <1>0, <1>2, <2>1, HandlerStep DEF ToggleFlag
<1>3. ASSUME NEW call \in CallRow, call.ended = mem.call.ended, call.parts = mem.call.parts,
             Handler, UpdateCall(call), UNCHANGED <<sess, conn, cleaner, joined>>
      PROVE  IInv'
  BY <1>3, HandlerStep DEF IInv, TypeOK
<1>4. ASSUME NEW c \in Conns, ScreenOn(c) PROVE IInv'
  <2> DEFINE call == [mem.call EXCEPT !.screen = c]
  <2>1. call \in CallRow /\ call.ended = mem.call.ended /\ call.parts = mem.call.parts
    BY <1>0 DEF CallRow
  <2> QED BY <1>3, <1>4, <2>1 DEF ScreenOn
<1>5. ASSUME NEW c \in Conns, ScreenOff(c) PROVE IInv'
  <2> DEFINE call == [mem.call EXCEPT !.screen = None]
  <2>1. call \in CallRow /\ call.ended = mem.call.ended /\ call.parts = mem.call.parts
    BY <1>0 DEF CallRow
  <2> QED BY <1>3, <1>5, <2>1 DEF ScreenOff
<1>6. ASSUME NEW u \in Users, NEW v \in Users, changeHost(u, v) PROVE IInv'
  <2>1. PICK call \in {[mem.call EXCEPT !.locked = v], [mem.call EXCEPT !.host = v, !.locked = v]} :
           UpdateCall(call)
    BY <1>6 DEF changeHost
  <2>2. call \in CallRow /\ call.ended = mem.call.ended /\ call.parts = mem.call.parts
    BY <1>0, <2>1 DEF CallRow
  <2> QED BY <1>3, <1>6, <2>1, <2>2 DEF changeHost
<1>7. ASSUME NEW u \in Dismissers, DismissNotification(u) PROVE IInv'
  <2> DEFINE call == [mem.call EXCEPT !.dismissed = @ \cup {u}]
  <2>1. call \in CallRow /\ call.ended = mem.call.ended /\ call.parts = mem.call.parts
    BY <1>0, IDAssumption DEF CallRow
  <2> QED BY <1>3, <1>7, <2>1 DEF DismissNotification
<1> QED BY <1>1, <1>2, <1>4, <1>5, <1>6, <1>7

\* Taking the lock reads the newest active call; releasing it forgets the copy.
LEMMA LockStep ==
    ASSUME IInv, LockCall \/ UnlockCall
    PROVE  IInv'
<1>1. /\ UNCHANGED <<calls, sess, conn, cleaner, joined>>
      /\ lk' \in {"free", "fresh"}
  BY DEF LockCall, UnlockCall, Release
<1>2. CASE mem' = NilState
  <2>1. TypeOK'
    BY <1>1, <1>2, RowTypes DEF IInv, TypeOK
  <2> QED BY <1>1, <1>2, <2>1, NilCopyCovers, NoNewSession DEF IInv
<1>3. CASE mem' # NilState
  <2>1. PICK i \in ActiveCalls : mem' = StateOf(i)
    BY <1>3 DEF LockCall, UnlockCall, Release
  <2>2. i \in DOMAIN calls /\ i \in 1..Len(calls) /\ i \in 1..MaxCalls
    BY ConfigAssumption DEF ActiveCalls, IInv, TypeOK
  <2>3. TypeOK'
    <3>1. calls[i] \in CallRow
      BY <2>2 DEF IInv, TypeOK
    <3>2. StateOf(i) \in [id : 0..MaxCalls, call : CallRow, sess : [Conns -> SessionRow]]
      BY <2>2, <3>1, RowTypes DEF StateOf, IInv, TypeOK
    <3> QED BY <1>1, <2>1, <3>2 DEF IInv, TypeOK
  <2>4. LimitRespected' /\ ParticipantsRecorded'
    BY <1>1, <2>3, NoNewSession
  <2>5. mem'.id = i /\ mem'.call = calls[i]
        /\ \A c \in Conns : mem'.sess[c] = IF sess[c].call = i THEN sess[c] ELSE NoSession
    BY <2>1 DEF StateOf
  <2>6. Present(mem.sess)' = SessionsOf(i)
    BY <2>2, <2>5 DEF Present, SessionsOf, NoSession
  <2>7. MaxCallParticipants > 0 => Cardinality(Present(mem.sess)') <= MaxCallParticipants
    BY <2>2, <2>6 DEF IInv, LimitRespected
  <2>8. \A c \in SessionsOf(mem.id)' : UserOf[c] \in mem'.call.parts \cup {Bot}
    BY <1>1, <2>1, <2>5 DEF IInv, ParticipantsRecorded, SessionsOf
  <2>9. ASSUME NEW c \in Conns
        PROVE  /\ sess'[c].call <= Len(calls')
               /\ mem'.sess[c].call \in {0, mem'.id}
               /\ sess'[c].call = mem'.id => mem'.sess[c].call = mem'.id
               /\ mem'.sess[c].call # 0 => sess'[c].call \in {0, mem'.id}
    BY <1>1, <2>5 DEF IInv, CopyCoversTable, NoSession
  <2>10. /\ (cleaner.st # "off" => cleaner.id \in DOMAIN calls)'
         /\ (cleaner.st \in {"read", "deleted", "locking"} => cleaner.call.ended)'
    BY <1>1 DEF IInv, CopyCoversTable
  <2>11. CopyCoversTable'
    BY <1>1, <2>2, <2>5, <2>7, <2>8, <2>9, <2>10 DEF CopyCoversTable
  <2> QED BY <2>3, <2>4, <2>11 DEF IInv
<1> QED BY <1>2, <1>3

\* The operations that do not respect the lock delete sessions and end calls.
LEMMA EndedCopyEnds ==
    ASSUME IInv, NEW i \in DOMAIN calls
    PROVE  EndedCopy(i) \in CallRow /\ EndedCopy(i).ended
<1>1. calls[i] \in CallRow
  BY DEF IInv, TypeOK
<1> QED BY <1>1, SetCallEndedType DEF EndedCopy

LEMMA DeleteKeeps ==
    ASSUME IInv, NEW i, DeleteCallsSessions(i) \/ UNCHANGED sess
    PROVE  /\ sess' \in [Conns -> SessionRow]
           /\ \A c \in Conns : sess'[c].call \in {0, sess[c].call}
<1>1. sess \in [Conns -> SessionRow] /\ NoSession \in SessionRow /\ NoSession.call = 0
  BY RowTypes DEF IInv, TypeOK, NoSession
<1>2. CASE sess' = [c \in Conns |-> IF sess[c].call = i THEN NoSession ELSE sess[c]]
  BY <1>1, <1>2
<1>3. CASE UNCHANGED sess
  BY <1>1, <1>3
<1> QED BY <1>2, <1>3 DEF DeleteCallsSessions

LEMMA SaveEndedKeeps ==
    ASSUME IInv, cleaner.st \in {"deleted", "locking"}, SaveEnded \/ UNCHANGED calls
    PROVE  /\ calls' \in Seq(CallRow) /\ Len(calls') = Len(calls)
           /\ \A i \in DOMAIN calls : calls'[i] = calls[i] \/ calls'[i].ended
<1>1. cleaner.id \in 1..Len(calls) /\ cleaner.call \in CallRow /\ cleaner.call.ended
  BY DEF IInv, TypeOK, CopyCoversTable, Cleaner
<1>2. calls \in Seq(CallRow) /\ DOMAIN calls = 1..Len(calls)
  BY DEF IInv, TypeOK
<1>3. CASE calls' = [calls EXCEPT ![cleaner.id] = cleaner.call]
  BY <1>1, <1>2, <1>3, ExceptSeq
<1>4. CASE UNCHANGED calls
  BY <1>2, <1>4
<1> QED BY <1>3, <1>4 DEF SaveEnded

\* A step of the cleaner.
LEMMA CleanerStep ==
    ASSUME IInv,
           calls' \in Seq(CallRow), Len(calls') = Len(calls),
           \A i \in DOMAIN calls : calls'[i] = calls[i] \/ calls'[i].ended,
           sess' \in [Conns -> SessionRow],
           \A c \in Conns : sess'[c].call \in {0, sess[c].call},
           cleaner' \in Cleaner,
           cleaner'.st # "off" => cleaner'.id \in DOMAIN calls,
           cleaner'.st \in {"read", "deleted", "locking"} => cleaner'.call.ended,
           UNCHANGED <<conn, lk, mem, joined>>
    PROVE  IInv'
<1>1. TypeOK'
  BY DEF IInv, TypeOK
<1>2. DOMAIN calls' = DOMAIN calls
  BY DEF IInv, TypeOK
<1>3. LimitRespected' /\ ParticipantsRecorded'
  BY <1>1, NoNewSession
<1>4. CopyCoversTable'
  BY <1>1, <1>2, SameCopyCovers
<1> QED BY <1>1, <1>3, <1>4 DEF IInv

LEMMA CleanUpStep ==
    ASSUME IInv,
           \/ HostEndReads \/ HostEndDeletes \/ HostEndUpdates
           \/ CleanUpReads \/ CleanUpEndsCall
    PROVE  IInv'
<1>0. /\ cleaner \in Cleaner
      /\ cleaner.st # "off" => cleaner.id \in DOMAIN calls
      /\ cleaner.st \in {"read", "deleted", "locking"} => cleaner.call.ended
      /\ calls \in Seq(CallRow) /\ sess \in [Conns -> SessionRow]
      /\ DOMAIN calls = 1..Len(calls) /\ DOMAIN calls \subseteq 0..MaxCalls
  BY ConfigAssumption DEF IInv, TypeOK, CopyCoversTable
<1>1. CASE HostEndReads
  <2>1. CASE cleaner' = [cleaner EXCEPT !.st = "read", !.call = EndedCopy(cleaner.id)]
    <3>1. EndedCopy(cleaner.id) \in CallRow /\ EndedCopy(cleaner.id).ended
      BY <1>0, <1>1, EndedCopyEnds DEF HostEndReads
    <3>2. /\ cleaner' \in Cleaner /\ cleaner'.id = cleaner.id
          /\ cleaner'.call = EndedCopy(cleaner.id)
      BY <1>0, <2>1, <3>1 DEF Cleaner
    <3> QED BY <1>0, <1>1, <3>1, <3>2, CleanerStep DEF HostEndReads
  <2>2. CASE cleaner' = Idle
    <3>1. cleaner' \in Cleaner /\ cleaner'.st = "off"
      BY <2>2, RowTypes DEF Idle
    <3> QED BY <1>0, <1>1, <3>1, CleanerStep DEF HostEndReads
  <2> QED BY <1>1, <2>1, <2>2 DEF HostEndReads
<1>2. CASE HostEndDeletes
  <2>1. cleaner' \in Cleaner /\ cleaner'.id = cleaner.id /\ cleaner'.call = cleaner.call
    BY <1>0, <1>2 DEF HostEndDeletes, Cleaner
  <2> QED BY <1>0, <1>2, <2>1, DeleteKeeps, CleanerStep DEF HostEndDeletes
<1>3. CASE HostEndUpdates
  <2>1. cleaner' \in Cleaner /\ cleaner'.st = "off"
    BY <1>3, RowTypes DEF HostEndUpdates, Idle
  <2> QED BY <1>0, <1>3, <2>1, SaveEndedKeeps, CleanerStep DEF HostEndUpdates
<1>4. CASE CleanUpReads
  <2>1. PICK i \in ActiveCalls : cleaner' = [st |-> "locking", id |-> i, call |-> EndedCopy(i)]
    BY <1>4 DEF CleanUpReads
  <2>2. i \in DOMAIN calls /\ EndedCopy(i) \in CallRow /\ EndedCopy(i).ended
    BY EndedCopyEnds DEF ActiveCalls
  <2>3. cleaner' \in Cleaner
    BY <1>0, <2>1, <2>2 DEF Cleaner
  <2> QED BY <1>0, <1>4, <2>1, <2>2, <2>3, CleanerStep DEF CleanUpReads
<1>5. CASE CleanUpEndsCall
  <2>1. cleaner' \in Cleaner /\ cleaner'.st = "off"
    BY <1>5, RowTypes DEF CleanUpEndsCall, Idle
  <2>2. /\ DeleteCallsSessions(cleaner.id) \/ UNCHANGED sess
        /\ SaveEnded \/ UNCHANGED calls
        /\ cleaner.st = "locking"
        /\ UNCHANGED <<conn, lk, mem, joined>>
    BY <1>5 DEF CleanUpEndsCall
  <2> QED BY <2>1, <2>2, DeleteKeeps, SaveEndedKeeps, CleanerStep
<1> QED BY <1>1, <1>2, <1>3, <1>4, <1>5

LEMMA HostEndStep ==
    ASSUME IInv, NEW u \in Users, hostEnd(u)
    PROVE  IInv'
<1>1. mem.id \in 1..Len(calls) /\ mem.id \in 0..MaxCalls
  BY ConfigAssumption DEF hostEnd, Handler, IInv, TypeOK, CopyCoversTable
<1>2. cleaner' \in Cleaner /\ cleaner'.st = "sleep" /\ cleaner'.id = mem.id
  BY <1>1 DEF hostEnd, IInv, TypeOK, Cleaner
<1>3. TypeOK'
  BY <1>2, RowTypes DEF hostEnd, Handler, Release, IInv, TypeOK
<1>4. LimitRespected' /\ ParticipantsRecorded'
  BY <1>3, NoNewSession DEF hostEnd
<1>5. CopyCoversTable'
  <2>1. Present(mem.sess)' = {}
    BY DEF Present, NilState, NoSession, hostEnd, Handler, Release
  <2>2. Cardinality(Present(mem.sess)') = 0
    BY <2>1, FS_EmptySet
  <2>3. mem'.id = 0 /\ \A c \in Conns : mem'.sess[c].call = 0
    BY DEF NilState, NoSession, hostEnd, Handler, Release
  <2>4. \A c \in Conns : sess'[c].call <= Len(calls')
    BY DEF hostEnd, IInv, CopyCoversTable
  <2>5. cleaner'.id \in DOMAIN calls'
    BY <1>1, <1>2 DEF hostEnd, IInv, TypeOK
  <2>6. mem'.id <= Len(calls')
    BY <2>3 DEF hostEnd, IInv, TypeOK
  <2> QED BY <1>2, <2>2, <2>3, <2>4, <2>5, <2>6, ConfigAssumption DEF CopyCoversTable
<1> QED BY <1>3, <1>4, <1>5 DEF IInv

LEMMA DisconnectStep ==
    ASSUME IInv, NEW c \in Conns, Disconnect(c)
    PROVE  IInv'
<1>1. TypeOK'
  BY DEF IInv, TypeOK, Disconnect
<1>2. CopyCoversTable'
  BY <1>1, SameCopyCovers DEF Disconnect, IInv, CopyCoversTable
<1> QED BY <1>1, <1>2, NoNewSession DEF IInv, Disconnect

\* A leave: the session goes from the copy and from the table.
LEMMA LeaveStep ==
    ASSUME IInv, NEW c \in Conns, removeUserSession(c)
    PROVE  IInv'
<1>1. /\ conn' \in [Conns -> [st : {"new", "in", "leaving", "gone"}, call : 0..MaxCalls]]
      /\ lk' \in {"free", "fresh", "joins", "leaves"}
      /\ UNCHANGED <<cleaner, joined>>
  BY DEF removeUserSession, IInv, TypeOK
<1>2. CASE RemoveNothing(c)
  <2>1. TypeOK'
    BY <1>1, <1>2 DEF RemoveNothing, IInv, TypeOK
  <2>2. CopyCoversTable'
    BY <1>1, <1>2, <2>1, SameCopyCovers DEF RemoveNothing, IInv, CopyCoversTable
  <2> QED BY <1>2, <2>1, <2>2, NoNewSession DEF RemoveNothing, IInv
<1>3. CASE RemoveFromState(c)
  <2> DEFINE s == [mem.sess EXCEPT ![c] = NoSession]
             media == WithoutMedia(mem.call, c)
  <2>1. mem.id \in 1..Len(calls) /\ calls \in Seq(CallRow) /\ DOMAIN calls = 1..Len(calls)
    <3>1. mem.sess[c].call \in {0, mem.id} /\ mem.sess[c].call # 0 /\ mem.id <= Len(calls)
      BY <1>3 DEF RemoveFromState, IInv, CopyCoversTable
    <3>2. calls \in Seq(CallRow) /\ mem.id \in Nat
      BY ConfigAssumption DEF IInv, TypeOK
    <3> QED BY <3>1, <3>2
  <2>2. mem.call \in CallRow /\ mem.sess \in [Conns -> SessionRow] /\ sess \in [Conns -> SessionRow]
    BY DEF IInv, TypeOK
  <2>3. PICK call \in {media} \cup AfterLeave(media, s, c) :
           /\ mem' = [mem EXCEPT !.call = call, !.sess = s]
           /\ UpdateCall(call) \/ UNCHANGED calls
    BY <1>3 DEF RemoveFromState
  <2>4. /\ call \in CallRow
        /\ call.ended \/ (call.ended = mem.call.ended /\ call.parts = mem.call.parts)
    BY <2>2, <2>3, WithoutMediaType, AfterLeaveType
  <2>5. /\ sess' \in [Conns -> SessionRow]
        /\ \A d \in Conns : sess'[d].call = IF d = c THEN 0 ELSE sess[d].call
    BY <1>3, <2>2, RowTypes DEF RemoveFromState, NoSession
  <2>6. calls' \in Seq(CallRow) /\ Len(calls') = Len(calls)
        /\ \A i \in DOMAIN calls : calls'[i] = calls[i] \/ (i = mem.id /\ calls'[i] = call)
    <3>1. CASE UpdateCall(call)
      BY <2>1, <2>4, <3>1, ExceptSeq DEF UpdateCall
    <3>2. CASE UNCHANGED calls
      BY <2>1, <3>2
    <3> QED BY <2>3, <3>1, <3>2
  <2>7. /\ s \in [Conns -> SessionRow]
        /\ \A d \in Conns : s[d].call = IF d = c THEN 0 ELSE mem.sess[d].call
    BY <2>2, RowTypes DEF NoSession
  <2> HIDE DEF s
  <2>8. mem'.id = mem.id /\ mem'.call = call /\ mem'.sess = s
        /\ mem' \in [id : 0..MaxCalls, call : CallRow, sess : [Conns -> SessionRow]]
    BY <2>3, <2>4, <2>7 DEF IInv, TypeOK
  <2>9. TypeOK'
    BY <1>1, <2>5, <2>6, <2>8 DEF IInv, TypeOK
  <2>10. LimitRespected' /\ ParticipantsRecorded'
    BY <2>4, <2>5, <2>6, <2>9, NoNewSession
  <2>11. MaxCallParticipants > 0 => Cardinality(Present(mem.sess)') <= MaxCallParticipants
    <3>1. Present(mem.sess)' \in SUBSET Present(mem.sess)
      BY <2>7, <2>8 DEF Present
    <3>2. Cardinality(Present(mem.sess)') <= Cardinality(Present(mem.sess))
      BY <3>1, PresentFinite, FS_Subset
    <3>3. Cardinality(Present(mem.sess)') \in Nat
      BY <3>1, PresentFinite, FS_Subset, FS_CardinalityType
    <3> QED BY <3>2, <3>3, PresentFinite, ConfigAssumption DEF IInv, CopyCoversTable
  <2>12. ASSUME NEW d \in Conns
         PROVE  /\ sess'[d].call <= Len(calls')
                /\ mem'.sess[d].call \in {0, mem'.id}
                /\ sess'[d].call = mem'.id => mem'.sess[d].call = mem'.id
                /\ mem'.sess[d].call # 0 => sess'[d].call \in {0, mem'.id}
    <3>1. /\ sess[d].call <= Len(calls)
          /\ mem.sess[d].call \in {0, mem.id}
          /\ sess[d].call = mem.id => mem.sess[d].call = mem.id
          /\ mem.sess[d].call # 0 => sess[d].call \in {0, mem.id}
      BY DEF IInv, CopyCoversTable
    <3> QED BY <2>1, <2>5, <2>6, <2>7, <2>8, <3>1
  <2>13. ~mem'.call.ended =>
            \A d \in SessionsOf(mem.id)' : UserOf[d] \in mem'.call.parts \cup {Bot}
    <3>1. SessionsOf(mem.id)' \subseteq SessionsOf(mem.id)
      BY <2>1, <2>5, <2>8 DEF SessionsOf
    <3> QED BY <2>1, <2>4, <2>8, <3>1 DEF IInv, CopyCoversTable
  <2>14. /\ (cleaner.st # "off" => cleaner.id \in DOMAIN calls)'
         /\ (cleaner.st \in {"read", "deleted", "locking"} => cleaner.call.ended)'
    BY <1>1, <2>1, <2>6 DEF IInv, CopyCoversTable
  <2>15. CopyCoversTable'
    BY <2>1, <2>6, <2>8, <2>11, <2>12, <2>13, <2>14 DEF CopyCoversTable
  <2> QED BY <2>9, <2>10, <2>15 DEF IInv
<1> QED BY <1>2, <1>3 DEF removeUserSession

\* A join: the call is created or updated, then the session is added to the
\* table and to the copy, or to neither.
LEMMA JoinStep ==
    ASSUME IInv, NEW c \in Conns, addUserSession(c)
    PROVE  IInv'
<1> DEFINE id == IF mem.id = 0 THEN Len(calls) + 1 ELSE mem.id
           s(at) == [mem.sess EXCEPT ![c] = [call |-> id, at |-> at, on |-> {}]]
           call(host) == [mem.call EXCEPT !.host = host, !.parts = @ \cup ({UserOf[c]} \ {Bot})]
           Added(at, host) == addSessionToCall(c, id, call(host), s(at))
<1>0. PICK at \in JoinTimes : \E host \in HostIDs(mem.call, s(at)) :
         /\ SaveJoin(call(host), s(at))
         /\ Added(at, host) \/ UNCHANGED <<sess, mem, conn, joined>>
  BY Zenon DEF addUserSession
<1>1. PICK host \in HostIDs(mem.call, s(at)) :
         /\ SaveJoin(call(host), s(at))
         /\ Added(at, host) \/ UNCHANGED <<sess, mem, conn, joined>>
  BY <1>0
<1>2. /\ ~mem.call.ended /\ mem.sess[c].call = 0 /\ joinAllowed
      /\ lk' = "joins" /\ UNCHANGED cleaner
  BY DEF addUserSession
<1>3. /\ calls \in Seq(CallRow) /\ Len(calls) \in Nat /\ DOMAIN calls = 1..Len(calls)
      /\ Len(calls) <= MaxCalls /\ MaxCalls \in Nat /\ MaxCallParticipants \in Nat
      /\ mem.id \in 0..Len(calls)
      /\ mem.call \in CallRow
      /\ mem.sess \in [Conns -> SessionRow] /\ sess \in [Conns -> SessionRow]
      /\ UserOf[c] \in Users \cup {Bot}
  BY ConfigAssumption, IDAssumption DEF IInv, TypeOK, CopyCoversTable
<1>4. [call |-> id, at |-> at, on |-> {}] \in SessionRow
  <2>1. Cardinality(Conns) \in Nat
    BY IDAssumption, FS_CardinalityType
  <2>2. at \in Nat
    BY <2>1 DEF JoinTimes
  <2> QED BY <1>3, <2>2 DEF SessionRow
<1>5. /\ s(at) \in [Conns -> SessionRow]
      /\ \A d \in Conns : s(at)[d].call = IF d = c THEN id ELSE mem.sess[d].call
  BY <1>3, <1>4
<1>6. /\ call(host) \in CallRow /\ ~call(host).ended
      /\ call(host).parts = mem.call.parts \cup ({UserOf[c]} \ {Bot})
  <2>1. host \in Users \cup {None}
    BY <1>3, HostIDsType
  <2> QED BY <1>2, <1>3, <2>1 DEF CallRow
<1>7. id \in Nat /\ id # 0
  BY <1>3
<1>8. Present(s(at)) = Present(mem.sess) \cup {c} /\ c \notin Present(mem.sess)
  BY <1>2, <1>5, <1>7 DEF Present
<1>9. Cardinality(Present(s(at))) = Cardinality(Present(mem.sess)) + 1
  BY <1>8, PresentFinite, FS_AddElement
<1>10. MaxCallParticipants > 0 => Cardinality(Present(s(at))) <= MaxCallParticipants
  BY <1>2, <1>3, <1>9, PresentFinite DEF joinAllowed
<1>11. ASSUME NEW d \in Conns
       PROVE  /\ sess[d].call \in Nat /\ sess[d].call <= Len(calls)
              /\ mem.sess[d].call \in {0, mem.id}
              /\ sess[d].call = mem.id => mem.sess[d].call = mem.id
              /\ mem.sess[d].call # 0 => sess[d].call \in {0, mem.id}
  BY <1>3 DEF IInv, CopyCoversTable, SessionRow
<1>12. /\ calls' \in Seq(CallRow) /\ DOMAIN calls' = 1..Len(calls')
       /\ Len(calls') \in Nat /\ Len(calls') <= MaxCalls /\ Len(calls) <= Len(calls')
       /\ id \in 1..Len(calls') /\ calls'[id] = call(host)
       /\ \A i \in DOMAIN calls' : i # id => i \in DOMAIN calls /\ calls'[i] = calls[i]
  <2>1. CASE mem.id = 0
    <3>1. Present(mem.sess) = {}
      BY <1>11, <2>1 DEF Present
    <3>2. Cardinality(Present(s(at))) = 1
      BY <1>9, <3>1, FS_EmptySet
    <3>3. Len(calls) < MaxCalls /\ calls' = Append(calls, call(host)) /\ id = Len(calls) + 1
      BY <1>1, <2>1, <3>2 DEF SaveJoin
    <3> HIDE DEF call, id
    <3> QED BY <1>3, <1>6, <3>3, AppendProperties
  <2>2. CASE mem.id # 0
    <3>1. calls' = [calls EXCEPT ![id] = call(host)] /\ id = mem.id /\ id \in 1..Len(calls)
      BY <1>1, <1>3, <2>2 DEF SaveJoin, UpdateCall
    <3> HIDE DEF call, id
    <3> QED BY <1>3, <1>6, <3>1, ExceptSeq
  <2> QED BY <2>1, <2>2
<1>13. \A d \in Conns : sess[d].call = id =>
          mem.sess[d].call = id /\ UserOf[d] \in mem.call.parts \cup {Bot}
  <2>1. CASE mem.id = 0
    BY <1>3, <1>11, <2>1
  <2>2. CASE mem.id # 0
    BY <1>2, <1>11, <2>2 DEF IInv, CopyCoversTable, SessionsOf
  <2> QED BY <2>1, <2>2
<1>14. /\ (cleaner.st # "off" => cleaner.id \in DOMAIN calls)'
       /\ (cleaner.st \in {"read", "deleted", "locking"} => cleaner.call.ended)'
  BY <1>2, <1>3, <1>12 DEF IInv, CopyCoversTable
<1> HIDE DEF id, s, call
<1>k. PICK k \in Nat : k = id   \* a name for id that a prime leaves alone
  BY <1>7
<1>15. CASE Added(at, host)
  <2>1. /\ sess' \in [Conns -> SessionRow]
        /\ \A d \in Conns : sess'[d].call = IF d = c THEN id ELSE sess[d].call
    BY <1>3, <1>5, <1>15 DEF addSessionToCall
  <2>2. mem'.id = id /\ mem'.call = call(host) /\ mem'.sess = s(at)
    BY <1>15 DEF addSessionToCall
  <2>3. TypeOK'
    <3>1. mem' \in [id : 0..MaxCalls, call : CallRow, sess : [Conns -> SessionRow]]
      BY <1>3, <1>5, <1>6, <1>12, <1>15 DEF addSessionToCall
    <3>2. conn' \in [Conns -> [st : {"new", "in", "leaving", "gone"}, call : 0..MaxCalls]]
      BY <1>3, <1>12, <1>15 DEF addSessionToCall, IInv, TypeOK
    <3>3. joined' \in [1..MaxCalls -> SUBSET Users]
      BY <1>3, <1>15 DEF addSessionToCall, IInv, TypeOK
    <3> QED BY <1>2, <1>12, <2>1, <3>1, <3>2, <3>3 DEF IInv, TypeOK
  <2>4. SessionsOf(k)' \subseteq Present(s(at))
    BY <1>k, <1>5, <1>7, <1>13, <2>1 DEF SessionsOf, Present
  <2>5. \A i \in DOMAIN calls' : i # id => SessionsOf(i)' \subseteq SessionsOf(i)
    BY <2>1 DEF SessionsOf
  <2>6. LimitRespected'
    <3> SUFFICES ASSUME MaxCallParticipants > 0, NEW i \in DOMAIN calls'
                 PROVE  Cardinality(SessionsOf(i)') <= MaxCallParticipants
      BY DEF LimitRespected
    <3>0. Cardinality(SessionsOf(i)') \in Nat
      <4>1. SessionsOf(i)' \in SUBSET Conns
        BY DEF SessionsOf
      <4> QED BY <4>1, IDAssumption, FS_Subset, FS_CardinalityType
    <3>1. CASE i = id
      <4>1. Cardinality(SessionsOf(k)') <= Cardinality(Present(s(at)))
        BY <2>4, PresentFinite, FS_Subset
      <4> QED BY <1>k, <1>3, <1>10, <3>0, <3>1, <4>1, PresentFinite
    <3>2. CASE i # id
      <4>1. Cardinality(SessionsOf(i)') <= Cardinality(SessionsOf(i))
        BY <2>5, <3>2, SessionsFinite, FS_Subset
      <4>2. Cardinality(SessionsOf(i)) <= MaxCallParticipants
        BY <1>12, <3>2 DEF IInv, LimitRespected
      <4> QED BY <1>3, <3>0, <4>1, <4>2, SessionsFinite
    <3> QED BY <3>1, <3>2
  <2>7. \A d \in SessionsOf(k)' : UserOf[d] \in call(host).parts \cup {Bot}
    BY <1>k, <1>6, <1>13, <2>1 DEF SessionsOf
  <2>8. ParticipantsRecorded'
    BY <1>k, <1>12, <2>5, <2>7 DEF IInv, ParticipantsRecorded, ActiveCalls
  <2>9. ASSUME NEW d \in Conns
        PROVE  /\ sess'[d].call <= Len(calls')
               /\ mem'.sess[d].call \in {0, mem'.id}
               /\ sess'[d].call = mem'.id => mem'.sess[d].call = mem'.id
               /\ mem'.sess[d].call # 0 => sess'[d].call \in {0, mem'.id}
    <3>1. mem.sess[d].call # 0 => mem.id = id
      BY <1>11 DEF id
    <3> QED BY <1>3, <1>5, <1>7, <1>11, <1>12, <1>13, <2>1, <2>2, <3>1
  <2>10. MaxCallParticipants > 0 => Cardinality(Present(mem.sess)') <= MaxCallParticipants
    BY <1>10, <2>2 DEF Present
  <2>11. \A d \in SessionsOf(mem.id)' : UserOf[d] \in mem'.call.parts \cup {Bot}
    BY <1>k, <2>2, <2>7 DEF SessionsOf
  <2>12. CopyCoversTable'
    BY <1>12, <1>14, <2>2, <2>9, <2>10, <2>11 DEF CopyCoversTable
  <2> QED BY <2>3, <2>6, <2>8, <2>12 DEF IInv
<1>16. CASE UNCHANGED <<sess, mem, conn, joined>>
  <2>1. TypeOK'
    BY <1>2, <1>12, <1>16 DEF IInv, TypeOK
  <2>2. SessionsOf(k)' \subseteq Present(mem.sess)
    BY <1>k, <1>7, <1>13, <1>16 DEF SessionsOf, Present
  <2>3. \A i : SessionsOf(i)' = SessionsOf(i)
    BY <1>16 DEF SessionsOf
  <2>4. LimitRespected'
    <3> SUFFICES ASSUME MaxCallParticipants > 0, NEW i \in DOMAIN calls'
                 PROVE  Cardinality(SessionsOf(i)) <= MaxCallParticipants
      BY <2>3 DEF LimitRespected
    <3>1. CASE i = id
      <4>1. Cardinality(SessionsOf(k)) <= Cardinality(Present(mem.sess))
        BY <2>2, <2>3, PresentFinite, FS_Subset
      <4> QED BY <1>k, <1>3, <3>1, <4>1, PresentFinite, SessionsFinite DEF IInv, CopyCoversTable
    <3>2. CASE i # id
      BY <1>12, <3>2 DEF IInv, LimitRespected
    <3> QED BY <3>1, <3>2
  <2>5. ParticipantsRecorded'
    <3>1. \A d \in SessionsOf(k) : UserOf[d] \in call(host).parts \cup {Bot}
      BY <1>k, <1>6, <1>13 DEF SessionsOf
    <3> QED BY <1>k, <1>12, <2>3, <3>1 DEF IInv, ParticipantsRecorded, ActiveCalls
  <2>6. \A d \in Conns : sess'[d].call <= Len(calls')
    BY <1>11, <1>12, <1>16, <1>3
  <2>7. MaxCallParticipants > 0 => Cardinality(Present(mem.sess)') <= MaxCallParticipants
    BY <1>16 DEF IInv, CopyCoversTable, Present
  <2>8. mem'.id <= Len(calls')
    BY <1>3, <1>12, <1>16
  <2>9. mem'.id # 0 /\ ~mem'.call.ended =>
           \A d \in SessionsOf(mem.id)' : UserOf[d] \in mem'.call.parts \cup {Bot}
    BY <1>16 DEF IInv, CopyCoversTable, SessionsOf
  <2>10. CopyCoversTable'
    BY <1>11, <1>14, <1>16, <2>6, <2>7, <2>8, <2>9 DEF CopyCoversTable
  <2> QED BY <2>1, <2>4, <2>5, <2>10 DEF IInv
<1> QED BY <1>1, <1>15, <1>16

-----------------------------------------------------------------------------
LEMMA InvInit == Init => IInv
<1> SUFFICES ASSUME Init PROVE IInv
  OBVIOUS
<1>1. TypeOK
  <2>1. calls \in Seq(CallRow) /\ Len(calls) = 0
    BY DEF Init
  <2>2. conn \in [Conns -> [st : {"new", "in", "leaving", "gone"}, call : 0..MaxCalls]]
    BY ConfigAssumption DEF Init
  <2> QED BY <2>1, <2>2, RowTypes, ConfigAssumption DEF Init, TypeOK
<1>2. Len(calls) = 0 /\ DOMAIN calls = {}
  BY DEF Init
<1>3. Present(mem.sess) = {} /\ Cardinality(Present(mem.sess)) = 0
  BY FS_EmptySet DEF Init, Present, NilState, NoSession
<1>4. mem.id = 0 /\ cleaner.st = "off"
      /\ \A c \in Conns : sess[c].call = 0 /\ mem.sess[c].call = 0
  BY DEF Init, NilState, NoSession, Idle
<1>5. CopyCoversTable
  BY <1>2, <1>3, <1>4, ConfigAssumption DEF CopyCoversTable
<1> QED BY <1>1, <1>2, <1>5 DEF IInv, LimitRespected, ParticipantsRecorded, ActiveCalls

LEMMA InvNext == IInv /\ [Next]_vars => IInv'
<1> SUFFICES ASSUME IInv, [Next]_vars PROVE IInv'
  OBVIOUS
<1>1. CASE UNCHANGED vars
  BY <1>1 DEF vars, IInv, TypeOK, CopyCoversTable, LimitRespected, ParticipantsRecorded,
     ActiveCalls, SessionsOf, Present
<1>2. CASE Next
  BY <1>2, LockStep, JoinStep, LeaveStep, DisconnectStep, MessageStep, HostEndStep,
     CleanUpStep DEF Next, ConnNext
<1> QED BY <1>1, <1>2

LEMMA InvHolds == Spec => []IInv
  BY InvInit, InvNext, PTL DEF Spec

\* Every variable keeps its type: in particular the bot is never the host and
\* never a participant, whatever fails.
THEOREM TypeCorrect == Spec => []TypeOK
<1>1. IInv => TypeOK
  BY DEF IInv
<1> QED BY <1>1, InvHolds, PTL

\* The copy of the state a batch works on has every session of the table.
THEOREM CopyIsCurrent == Spec => []CopyCoversTable
<1>1. IInv => CopyCoversTable
  BY DEF IInv
<1> QED BY <1>1, InvHolds, PTL

\* The participant limit of addUserSession is never exceeded, however joins
\* and leaves are batched, whichever writes fail and whatever hostEnd and
\* cleanUpState do meanwhile.
THEOREM LimitHolds == Spec => []LimitRespected
<1>1. IInv => LimitRespected
  BY DEF IInv
<1> QED BY <1>1, InvHolds, PTL

\* Everyone with a session in an active call is on its list of participants.
THEOREM ParticipantsComplete == Spec => []ParticipantsRecorded
<1>1. IInv => ParticipantsRecorded
  BY DEF IInv
<1> QED BY <1>1, InvHolds, PTL

-----------------------------------------------------------------------------
(* The handlers, when the store answers and every writer holds the lock    *)

\* No store operation fails, and the two operations that do not respect the
\* lock do not run.
NoFaults == ~StoreMayFail /\ ~HostEndRuns /\ ~CleanUpRuns

\* The sessions of call i in the table, as the copy of a handler holds them.
SessIn(table, i) == [c \in Conns |-> IF table[c].call = i THEN table[c] ELSE NoSession]

People(s) == UsersIn(s) \ {Bot}

\* The host is in the call if a person is, and is the locked host if present.
HostFits(call, s) ==
    /\ People(s) # {} => call.host \in People(s)
    /\ call.locked \in People(s) => call.host = call.locked

\* A call, its sessions s and the users who ever joined it agree.
Coherent(call, s, users) ==
    IF call.ended
    THEN call.participants = users /\ Present(s) = {}
    ELSE /\ Present(s) # {}
         /\ call.parts = users
         /\ call.video = {c \in Conns : s[c].call # 0 /\ "video" \in s[c].on}
         /\ HostFits(call, s)

\* The holder of the lock has an exact copy of the only call that may be
\* active, and nobody else has one.
CopyExact ==
    /\ lk = "free" \/ mem.id = 0 => mem = NilState
    /\ lk # "free" /\ mem.id = 0 => ActiveCalls = {}
    /\ mem.id # 0 => /\ mem = [id |-> mem.id, call |-> calls[mem.id], sess |-> SessIn(sess, mem.id)]
                     /\ ActiveCalls \subseteq {mem.id}

Sound ==
    /\ cleaner = Idle
    /\ CopyExact
    /\ \A i, j \in ActiveCalls : i = j
    /\ \A i \in DOMAIN calls : Coherent(calls[i], SessIn(sess, i), joined[i])
    /\ \A i \in 1..MaxCalls : i > Len(calls) => joined[i] = {}

\* A step ends calls and never resumes one.
EndedKept == \A i \in DOMAIN calls : calls[i].ended => calls'[i].ended

-----------------------------------------------------------------------------
(* Facts about the helpers *)

\* Whoever getHostID returns is in the call if a person is, and is the locked
\* host if that one is there.
LEMMA HostElected ==
    ASSUME NEW call \in CallRow, NEW s, NEW h \in HostIDs(call, s)
    PROVE  /\ People(s) # {} => h \in People(s)
           /\ call.locked \in People(s) => h = call.locked
<1> DEFINE humans == {c \in Present(s) : UserOf[c] # Bot}
<1>1. People(s) = {UserOf[c] : c \in humans}
  BY DEF People, UsersIn
<1>2. Bot \notin {call.locked, call.host}
  BY IDAssumption DEF CallRow
<1>3. CASE call.locked \in UsersIn(s)
  BY <1>2, <1>3 DEF HostIDs, People
<1>4. CASE call.locked \notin UsersIn(s) /\ call.host \in UsersIn(s)
  BY <1>2, <1>4 DEF HostIDs, People
<1>5. CASE call.locked \notin UsersIn(s) /\ call.host \notin UsersIn(s)
  <2>1. h \in (IF humans = {} THEN {None}
               ELSE {UserOf[c] : c \in {d \in humans : \A e \in humans : s[d].at <= s[e].at}})
    BY <1>5 DEF HostIDs
  <2>2. humans # {} => h \in People(s)
    BY <1>1, <2>1
  <2>3. call.locked \notin People(s)
    BY <1>5 DEF People
  <2> QED BY <1>1, <2>2, <2>3
<1> QED BY <1>3, <1>4, <1>5

\* The copy of a nil state has no session.
LEMMA NilPresent == Present(NilState.sess) = {}
  BY DEF Present, NilState, NoSession

\* A step that touches the rows of one active call, leaves them coherent and
\* keeps the copy exact, or forgets it, keeps the state sound.
LEMMA RowWritten ==
    ASSUME IInv, IInv', Sound, mem.id # 0, NEW call, NEW s,
           calls' = [calls EXCEPT ![mem.id] = call],
           calls[mem.id].ended => call.ended,
           SessIn(sess', mem.id) = s,
           \A c \in Conns : \/ sess'[c] = sess[c]
                            \/ {sess[c].call, sess'[c].call} \subseteq {0, mem.id},
           \A i \in 1..MaxCalls : i # mem.id => joined'[i] = joined[i],
           Coherent(call, s, joined'[mem.id]),
           cleaner' = cleaner,
           Release \/ (lk' # "free" /\ mem' = [id |-> mem.id, call |-> call, sess |-> s])
    PROVE  Sound' /\ EndedKept
<1>1. /\ mem.id \in DOMAIN calls
      /\ DOMAIN calls = 1..Len(calls)
      /\ DOMAIN calls' = DOMAIN calls
      /\ Len(calls') = Len(calls)
      /\ calls'[mem.id] = call
      /\ \A i \in DOMAIN calls : i # mem.id => calls'[i] = calls[i]
      /\ Len(calls) \in Nat /\ Len(calls) <= MaxCalls
  BY ConfigAssumption DEF IInv, TypeOK, CopyCoversTable
<1>2. ActiveCalls' \subseteq ActiveCalls /\ ActiveCalls \subseteq {mem.id}
  BY <1>1 DEF ActiveCalls, Sound, CopyExact
<1>3. ASSUME NEW i \in DOMAIN calls, i # mem.id
      PROVE  SessIn(sess', i) = SessIn(sess, i)
  <2>1. i # 0
    BY <1>1
  <2>2. ASSUME NEW c \in Conns
        PROVE  (IF sess'[c].call = i THEN sess'[c] ELSE NoSession)
                  = (IF sess[c].call = i THEN sess[c] ELSE NoSession)
    BY <1>3, <2>1
  <2> QED BY <2>2 DEF SessIn
<1>4. \A i \in DOMAIN calls' : Coherent(calls'[i], SessIn(sess', i), joined'[i])
  <2> SUFFICES ASSUME NEW i \in DOMAIN calls
               PROVE  Coherent(calls'[i], SessIn(sess', i), joined'[i])
    BY <1>1
  <2>1. CASE i = mem.id
    BY <1>1, <2>1
  <2>2. CASE i # mem.id
    <3>1. i \in 1..MaxCalls
      BY <1>1, ConfigAssumption
    <3> QED BY <1>1, <1>3, <2>2, <3>1 DEF Sound
  <2> QED BY <2>1, <2>2
<1>5. CopyExact'
  <2>1. CASE Release
    BY <2>1 DEF Release, CopyExact, NilState
  <2>2. CASE lk' # "free" /\ mem' = [id |-> mem.id, call |-> call, sess |-> s]
    <3>1. mem'.id = mem.id /\ mem'.id # 0
      BY <2>2
    <3>2. SessIn(sess', mem.id) = s
      OBVIOUS
    <3>3. mem' = [id |-> mem'.id, call |-> calls'[mem'.id], sess |-> SessIn(sess', mem'.id)]
      BY <1>1, <2>2, <3>1, <3>2
    <3> QED BY <1>2, <2>2, <3>1, <3>3 DEF CopyExact
  <2> QED BY <2>1, <2>2
<1>6. \A i \in 1..MaxCalls : i > Len(calls') => joined'[i] = {}
  BY <1>1, ConfigAssumption DEF Sound
<1>7. EndedKept
  BY <1>1 DEF EndedKept
<1> QED BY <1>2, <1>4, <1>5, <1>6, <1>7 DEF Sound

-----------------------------------------------------------------------------
(* Client messages and API requests *)

\* The copy of a call is coherent, and its sessions are those of the table.
LEMMA CopyCoherent ==
    ASSUME IInv, Sound, mem.id # 0
    PROVE  /\ mem.id \in 1..MaxCalls /\ mem.id \in DOMAIN calls
           /\ mem.call = calls[mem.id]
           /\ mem.sess = SessIn(sess, mem.id)
           /\ \A c \in Conns : mem.sess[c].call # 0 =>
                 sess[c].call = mem.id /\ mem.sess[c] = sess[c]
           /\ \A c \in Conns : mem.sess[c].call = 0 => mem.sess[c] = NoSession
           /\ Coherent(mem.call, mem.sess, joined[mem.id])
<1>1. mem.id \in 1..MaxCalls /\ mem.id \in DOMAIN calls
  BY ConfigAssumption DEF IInv, TypeOK, CopyCoversTable
<1>2. mem = [id |-> mem.id, call |-> calls[mem.id], sess |-> SessIn(sess, mem.id)]
  BY DEF Sound, CopyExact
<1>3. mem.call = calls[mem.id] /\ mem.sess = SessIn(sess, mem.id)
  BY <1>2
<1>4. \A c \in Conns : mem.sess[c] = IF sess[c].call = mem.id THEN sess[c] ELSE NoSession
  BY <1>3 DEF SessIn
<1>5. Coherent(mem.call, mem.sess, joined[mem.id])
  BY <1>1, <1>3 DEF Sound
<1> QED BY <1>1, <1>3, <1>4, <1>5 DEF NoSession

\* A handler that writes the call only.
LEMMA CallRewritten ==
    ASSUME IInv, IInv', Sound, Handler, NEW call,
           UpdateCall(call), UNCHANGED <<sess, cleaner, joined>>,
           call.ended = mem.call.ended,
           Coherent(call, mem.sess, joined[mem.id])
    PROVE  Sound' /\ EndedKept
<1>1. mem.id # 0
  BY DEF Handler
<1>2. calls' = [calls EXCEPT ![mem.id] = call] /\ (calls[mem.id].ended => call.ended)
  BY <1>1, CopyCoherent DEF UpdateCall
<1>3. SessIn(sess', mem.id) = mem.sess
  BY <1>1, CopyCoherent
<1>4. Coherent(call, mem.sess, joined'[mem.id])
  OBVIOUS
<1>5. Release
  BY DEF Handler
<1> QED BY <1>1, <1>2, <1>3, <1>4, <1>5, RowWritten

\* A handler that writes the flags of one session, and perhaps the call: the
\* copy with these flags is the state of the call afterwards.
LEMMA FlagWritten ==
    ASSUME IInv, Sound, mem.id # 0, NEW c \in Conns, NEW on \in SUBSET Flags,
           mem.sess[c].call # 0, UpdateCallSession(c, on)
    PROVE  /\ SessIn(sess', mem.id) = [mem.sess EXCEPT ![c].on = on]
           /\ sess'[c].call = mem.id
           /\ \A d \in Conns : d # c => sess'[d] = sess[d]
           /\ Present([mem.sess EXCEPT ![c].on = on]) = Present(mem.sess)
<1>1. /\ sess[c].call = mem.id /\ mem.sess[c] = sess[c]
      /\ mem.sess = SessIn(sess, mem.id)
  BY CopyCoherent
<1>2. sess \in [Conns -> SessionRow] /\ mem.sess \in [Conns -> SessionRow]
  BY DEF IInv, TypeOK
<1>3. sess' = [sess EXCEPT ![c] = [sess[c] EXCEPT !.on = on]]
  BY <1>1 DEF UpdateCallSession
<1>4. sess'[c] = [sess[c] EXCEPT !.on = on] /\ \A d \in Conns : d # c => sess'[d] = sess[d]
  BY <1>2, <1>3
<1>5. [sess[c] EXCEPT !.on = on].call = mem.id
  BY <1>1, <1>2 DEF SessionRow
<1>6. SessIn(sess', mem.id) = [mem.sess EXCEPT ![c].on = on]
  <2>1. ASSUME NEW d \in Conns
        PROVE  SessIn(sess', mem.id)[d] = [mem.sess EXCEPT ![c].on = on][d]
    <3>1. CASE d = c
      BY <1>1, <1>2, <1>4, <1>5, <3>1 DEF SessIn
    <3>2. CASE d # c
      BY <1>1, <1>2, <1>4, <3>2 DEF SessIn
    <3> QED BY <3>1, <3>2
  <2>2. SessIn(sess', mem.id) = [d \in Conns |-> SessIn(sess', mem.id)[d]]
    BY DEF SessIn
  <2>3. [mem.sess EXCEPT ![c].on = on] = [d \in Conns |-> [mem.sess EXCEPT ![c].on = on][d]]
    BY <1>2
  <2> QED BY <2>1, <2>2, <2>3
<1>7. Present([mem.sess EXCEPT ![c].on = on]) = Present(mem.sess)
  BY <1>2 DEF Present, SessionRow
<1> QED BY <1>4, <1>5, <1>6, <1>7

LEMMA FlagStep ==
    ASSUME NoFaults, IInv, IInv', Sound, NEW c \in Conns, NEW value \in BOOLEAN,
           NEW f \in Flags, ToggleFlag(c, f, value)
    PROVE  Sound' /\ EndedKept
<1> DEFINE on == Switched(c, f, value)
           s == [mem.sess EXCEPT ![c].on = on]
<1>1. /\ mem.id # 0 /\ mem.sess[c].call # 0 /\ f # "video" /\ Release
      /\ UpdateCallSession(c, on) /\ UNCHANGED <<calls, cleaner, joined>>
  BY DEF ToggleFlag, Handler
<1>2. on \in SUBSET Flags
  BY SwitchedType
<1>3. "video" \in on <=> "video" \in mem.sess[c].on
  BY <1>1 DEF Switched
<1>4. mem.sess \in [Conns -> SessionRow]
  BY DEF IInv, TypeOK
<1> HIDE DEF on
<1>5. /\ SessIn(sess', mem.id) = s
      /\ sess'[c].call = mem.id
      /\ \A d \in Conns : d # c => sess'[d] = sess[d]
      /\ Present(s) = Present(mem.sess)
  BY <1>1, <1>2, FlagWritten
<1>6. \A d \in Conns : /\ s[d].call # 0 <=> mem.sess[d].call # 0
                       /\ "video" \in s[d].on <=> "video" \in mem.sess[d].on
  BY <1>3, <1>4 DEF SessionRow
<1>7. sess[c].call = mem.id /\ Coherent(mem.call, mem.sess, joined[mem.id])
      /\ mem.call = calls[mem.id] /\ mem.id \in DOMAIN calls
  BY <1>1, CopyCoherent
<1> HIDE DEF s
<1>8. {d \in Conns : s[d].call # 0 /\ "video" \in s[d].on}
        = {d \in Conns : mem.sess[d].call # 0 /\ "video" \in mem.sess[d].on}
  BY <1>6
<1>9. People(s) = People(mem.sess)
  BY <1>5 DEF People, UsersIn
<1>10. Coherent(mem.call, s, joined'[mem.id])
  BY <1>1, <1>5, <1>7, <1>8, <1>9 DEF Coherent, HostFits
<1>11. calls' = [calls EXCEPT ![mem.id] = mem.call]
  BY <1>1, <1>7 DEF IInv, TypeOK
<1> QED BY <1>1, <1>5, <1>7, <1>10, <1>11, RowWritten

LEMMA VideoStep ==
    ASSUME NoFaults, IInv, IInv', Sound, NEW c \in Conns, NEW value \in BOOLEAN,
           ToggleVideo(c, value)
    PROVE  Sound' /\ EndedKept
<1> DEFINE on == Switched(c, "video", value)
           s == [mem.sess EXCEPT ![c].on = on]
           call == [mem.call EXCEPT !.video = IF value THEN @ \cup {c} ELSE @ \ {c}]
<1>1. /\ mem.id # 0 /\ mem.sess[c].call # 0 /\ "video" \in Flags /\ Release
      /\ UpdateCallSession(c, on) /\ UpdateCall(call) /\ UNCHANGED <<cleaner, joined>>
  BY DEF ToggleVideo, Handler, NoFaults
<1>2. on \in SUBSET Flags
  BY <1>1, SwitchedType
<1>3. "video" \in on <=> value
  BY DEF Switched
<1>4. mem.sess \in [Conns -> SessionRow] /\ mem.call \in CallRow
  BY DEF IInv, TypeOK
<1> HIDE DEF on
<1>5. /\ SessIn(sess', mem.id) = s
      /\ sess'[c].call = mem.id
      /\ \A d \in Conns : d # c => sess'[d] = sess[d]
      /\ Present(s) = Present(mem.sess)
  BY <1>1, <1>2, FlagWritten
<1>6. \A d \in Conns : /\ s[d].call # 0 <=> mem.sess[d].call # 0
                       /\ d # c => s[d] = mem.sess[d]
                       /\ "video" \in s[c].on <=> value
  BY <1>3, <1>4 DEF SessionRow
<1>7. sess[c].call = mem.id /\ Coherent(mem.call, mem.sess, joined[mem.id])
      /\ mem.call = calls[mem.id] /\ mem.id \in DOMAIN calls
  BY <1>1, CopyCoherent
<1>8. ~mem.call.ended
  BY <1>1, <1>7 DEF Coherent, Present
<1>9. /\ call.ended = mem.call.ended /\ call.parts = mem.call.parts
      /\ call.host = mem.call.host /\ call.locked = mem.call.locked
      /\ call.video = IF value THEN mem.call.video \cup {c} ELSE mem.call.video \ {c}
  BY <1>4 DEF CallRow
<1> HIDE DEF s, call
<1>10. call.video = {d \in Conns : s[d].call # 0 /\ "video" \in s[d].on}
  <2>1. mem.call.video = {d \in Conns : mem.sess[d].call # 0 /\ "video" \in mem.sess[d].on}
    BY <1>7, <1>8 DEF Coherent
  <2>2. s[c].call # 0
    BY <1>1, <1>6
  <2>3. CASE value
    BY <1>6, <1>9, <2>1, <2>2, <2>3
  <2>4. CASE ~value
    BY <1>6, <1>9, <2>1, <2>4
  <2> QED BY <2>3, <2>4
<1>11. People(s) = People(mem.sess)
  BY <1>5 DEF People, UsersIn
<1>12. Coherent(call, s, joined'[mem.id])
  BY <1>1, <1>5, <1>7, <1>8, <1>9, <1>10, <1>11 DEF Coherent, HostFits
<1>13. calls' = [calls EXCEPT ![mem.id] = call] /\ (calls[mem.id].ended => call.ended)
  BY <1>1, <1>7, <1>9 DEF UpdateCall
<1> QED BY <1>1, <1>5, <1>7, <1>12, <1>13, RowWritten

\* Screen sharing, a dismissed notification, a new host.
LEMMA CallOnlyStep ==
    ASSUME NoFaults, IInv, IInv', Sound,
           \/ \E c \in Conns : ScreenOn(c) \/ ScreenOff(c)
           \/ \E u \in Dismissers : DismissNotification(u)
           \/ \E u, v \in Users : changeHost(u, v)
    PROVE  Sound' /\ EndedKept
<1>1. mem.call \in CallRow
  BY DEF IInv, TypeOK
<1>2. ASSUME mem.id # 0, NEW call,
             \/ \E x : call = [mem.call EXCEPT !.screen = x]
             \/ \E x : call = [mem.call EXCEPT !.dismissed = x]
      PROVE  call.ended = mem.call.ended /\ Coherent(call, mem.sess, joined[mem.id])
  <2>1. /\ call.ended = mem.call.ended /\ call.participants = mem.call.participants
        /\ call.parts = mem.call.parts /\ call.video = mem.call.video
        /\ call.host = mem.call.host /\ call.locked = mem.call.locked
    BY <1>1, <1>2 DEF CallRow
  <2>2. Coherent(mem.call, mem.sess, joined[mem.id])
    BY <1>2, CopyCoherent
  <2> QED BY <2>1, <2>2 DEF Coherent, HostFits
<1>3. ASSUME NEW c \in Conns, ScreenOn(c) \/ ScreenOff(c) PROVE Sound' /\ EndedKept
  <2>1. PICK call : UpdateCall(call) /\ \E x : call = [mem.call EXCEPT !.screen = x]
    BY <1>3 DEF ScreenOn, ScreenOff
  <2>2. Handler /\ UNCHANGED <<sess, cleaner, joined>>
    BY <1>3 DEF ScreenOn, ScreenOff
  <2> QED BY <1>2, <2>1, <2>2, CallRewritten DEF Handler
<1>4. ASSUME NEW u \in Dismissers, DismissNotification(u) PROVE Sound' /\ EndedKept
  <2>1. PICK call : UpdateCall(call) /\ \E x : call = [mem.call EXCEPT !.dismissed = x]
    BY <1>4 DEF DismissNotification
  <2>2. Handler /\ UNCHANGED <<sess, cleaner, joined>>
    BY <1>4 DEF DismissNotification
  <2> QED BY <1>2, <2>1, <2>2, CallRewritten DEF Handler
<1>5. ASSUME NEW u \in Users, NEW v \in Users, changeHost(u, v) PROVE Sound' /\ EndedKept
  <2>1. Handler /\ UNCHANGED <<sess, cleaner, joined>> /\ mem.id # 0
    BY <1>5 DEF changeHost, Handler
  <2>2. PICK call :
           /\ UpdateCall(call)
           /\ \/ mem.call.host = v /\ call = [mem.call EXCEPT !.locked = v]
              \/ v \in UsersIn(mem.sess) /\ call = [mem.call EXCEPT !.host = v, !.locked = v]
    BY <1>5 DEF changeHost
  <2>3. /\ call.ended = mem.call.ended /\ call.participants = mem.call.participants
        /\ call.parts = mem.call.parts /\ call.video = mem.call.video
        /\ call.host = v /\ call.locked = v
        /\ v = mem.call.host \/ v \in UsersIn(mem.sess)
    BY <1>1, <2>2 DEF CallRow
  <2>4. v # Bot
    BY IDAssumption
  <2>5. Coherent(mem.call, mem.sess, joined[mem.id])
    BY <2>1, CopyCoherent
  <2>6. Coherent(call, mem.sess, joined[mem.id])
    BY <2>3, <2>4, <2>5 DEF Coherent, HostFits, People
  <2> QED BY <2>1, <2>2, <2>3, <2>6, CallRewritten
<1> QED BY <1>3, <1>4, <1>5

-----------------------------------------------------------------------------
(* The lock, and leaves *)

LEMMA LockSound ==
    ASSUME IInv, IInv', Sound, LockCall \/ UnlockCall
    PROVE  Sound' /\ EndedKept
<1>1. UNCHANGED <<calls, sess, cleaner, joined>>
  BY DEF LockCall, UnlockCall
<1>2. ActiveCalls' = ActiveCalls
  BY <1>1 DEF ActiveCalls
<1>3. CopyExact'
  <2>1. CASE UnlockCall
    BY <2>1 DEF UnlockCall, Release, CopyExact, NilState
  <2>2. CASE LockCall
    <3>1. CASE ActiveCalls = {} /\ mem' = NilState
      BY <1>2, <2>2, <3>1 DEF LockCall, CopyExact, NilState
    <3>2. CASE \E i \in ActiveCalls : mem' = StateOf(i)
      <4>1. PICK i \in ActiveCalls : mem' = StateOf(i)
        BY <3>2
      <4>2. i # 0 /\ ActiveCalls \subseteq {i}
        BY DEF ActiveCalls, Sound, IInv, TypeOK
      <4>3. mem' = [id |-> i, call |-> calls[i], sess |-> SessIn(sess, i)]
        BY <4>1 DEF StateOf, SessIn
      <4>4. mem'.id = i /\ lk' = "fresh"
        BY <2>2, <4>3 DEF LockCall
      <4>5. mem' = [id |-> mem'.id, call |-> calls'[mem'.id], sess |-> SessIn(sess', mem'.id)]
        BY <1>1, <4>3, <4>4
      <4> QED BY <1>2, <4>2, <4>4, <4>5 DEF CopyExact
    <3> QED BY <2>2, <3>1, <3>2 DEF LockCall
  <2> QED BY <2>1, <2>2
<1> QED BY <1>1, <1>2, <1>3 DEF Sound, EndedKept

\* The call that removeUserSession saves is coherent without the session.
LEMMA LeftCoherent ==
    ASSUME NEW call \in CallRow, NEW sc \in [Conns -> SessionRow], NEW users, NEW c \in Conns,
           sc[c].call # 0, Coherent(call, sc, users),
           NEW media \in CallRow,
           media = [call EXCEPT !.screen = media.screen, !.video = call.video \ {c}],
           NEW s, s = [sc EXCEPT ![c] = NoSession],
           NEW after \in AfterLeave(media, s, c)
    PROVE  Coherent(after, s, users)
<1>1. /\ s[c].call = 0
      /\ \A d \in Conns : d # c => s[d] = sc[d]
  BY DEF NoSession
<1>2. Present(s) = Present(sc) \ {c} /\ c \in Present(sc)
  BY <1>1 DEF Present
<1>3. ~call.ended
  BY <1>2 DEF Coherent
<1>4. /\ media.ended = call.ended /\ media.parts = call.parts /\ media.host = call.host
      /\ media.locked = call.locked /\ media.video = call.video \ {c}
  BY DEF CallRow
<1>5. CASE Present(s) = {}
  <2> DEFINE quiet == [media EXCEPT !.video = {}]
  <2>1. after = SetCallEnded(quiet)
    BY <1>5 DEF AfterLeave
  <2>2. quiet \in CallRow /\ quiet.parts = media.parts
    BY DEF CallRow
  <2> HIDE DEF quiet
  <2>3. after.ended /\ after.participants = quiet.parts
    BY <2>1, <2>2 DEF SetCallEnded, CallRow
  <2> QED BY <1>3, <1>4, <1>5, <2>2, <2>3 DEF Coherent
<1>6. CASE Present(s) # {}
  <2>1. media.video = {d \in Conns : s[d].call # 0 /\ "video" \in s[d].on}
    <3>1. call.video = {d \in Conns : sc[d].call # 0 /\ "video" \in sc[d].on}
      BY <1>3 DEF Coherent
    <3> QED BY <1>1, <1>4, <3>1
  <2>2. CASE media.host = UserOf[c]
    <3>1. PICK h \in HostIDs(media, s) : after = [media EXCEPT !.host = h]
      BY <1>6, <2>2 DEF AfterLeave
    <3>2. /\ after.ended = media.ended /\ after.parts = media.parts /\ after.host = h
          /\ after.locked = media.locked /\ after.video = media.video
      BY <3>1 DEF CallRow
    <3>3. HostFits(after, s)
      BY <3>2, HostElected DEF HostFits
    <3> QED BY <1>3, <1>4, <1>6, <2>1, <3>2, <3>3 DEF Coherent
  <2>3. CASE media.host # UserOf[c]
    <3>1. after = media
      BY <1>6, <2>3 DEF AfterLeave
    <3>2. People(s) \subseteq People(sc) /\ People(sc) \subseteq People(s) \cup {UserOf[c]}
      BY <1>2 DEF People, UsersIn
    <3>3. HostFits(call, sc)
      BY <1>3 DEF Coherent
    <3>4. HostFits(media, s)
      BY <1>4, <2>3, <3>2, <3>3 DEF HostFits
    <3> QED BY <1>3, <1>4, <1>6, <2>1, <3>1, <3>4 DEF Coherent
  <2> QED BY <2>2, <2>3
<1> QED BY <1>5, <1>6

LEMMA LeaveSound ==
    ASSUME NoFaults, IInv, IInv', Sound, NEW c \in Conns, removeUserSession(c)
    PROVE  Sound' /\ EndedKept
<1>1. lk # "free" /\ lk' = "leaves" /\ UNCHANGED <<cleaner, joined>>
  BY DEF removeUserSession
<1>2. CASE UNCHANGED <<calls, sess, mem>>
  BY <1>1, <1>2 DEF Sound, CopyExact, ActiveCalls, EndedKept
<1>3. CASE RemoveFromState(c)
  <2> DEFINE s == [mem.sess EXCEPT ![c] = NoSession]
             media == WithoutMedia(mem.call, c)
  <2>1. mem.sess[c].call # 0 /\ sess' = [sess EXCEPT ![c] = NoSession]
    BY <1>3 DEF RemoveFromState
  <2>2. PICK call \in AfterLeave(media, s, c) :
           mem' = [mem EXCEPT !.call = call, !.sess = s] /\ UpdateCall(call)
    BY <1>3 DEF RemoveFromState, NoFaults
  <2>3. /\ mem.call \in CallRow /\ mem.sess \in [Conns -> SessionRow] /\ mem.id \in Nat
        /\ sess \in [Conns -> SessionRow]
        /\ mem \in [id : 0..MaxCalls, call : CallRow, sess : [Conns -> SessionRow]]
    BY ConfigAssumption DEF IInv, TypeOK
  <2>4. mem.id # 0
    BY <2>1 DEF IInv, CopyCoversTable
  <2>5. /\ mem.id \in DOMAIN calls /\ mem.call = calls[mem.id]
        /\ mem.sess = SessIn(sess, mem.id)
        /\ sess[c].call = mem.id
        /\ Coherent(mem.call, mem.sess, joined[mem.id])
    BY <2>1, <2>4, CopyCoherent
  <2>6. media \in CallRow
    BY <2>3, WithoutMediaType
  <2>7. media = [mem.call EXCEPT !.screen = media.screen, !.video = mem.call.video \ {c}]
    <3>1. "video" \notin mem.sess[c].on => c \notin mem.call.video
      BY <2>1, <2>5 DEF Coherent, Present
    <3>2. (IF "video" \in mem.sess[c].on THEN mem.call.video \ {c} ELSE mem.call.video)
            = mem.call.video \ {c}
      BY <3>1
    <3> QED BY <2>3, <3>2 DEF WithoutMedia, CallRow
  <2> HIDE DEF media
  <2>8. Coherent(call, s, joined[mem.id])
    <3> HIDE DEF s
    <3>1. s = [mem.sess EXCEPT ![c] = NoSession]
      BY DEF s
    <3> QED BY <2>1, <2>2, <2>3, <2>5, <2>6, <2>7, <3>1, LeftCoherent
  <2>9. SessIn(sess', mem.id) = s
    <3>1. ASSUME NEW d \in Conns PROVE SessIn(sess', mem.id)[d] = s[d]
      <4>1. CASE d = c
        BY <2>1, <2>3, <2>4, <4>1 DEF SessIn, NoSession
      <4>2. CASE d # c
        BY <2>1, <2>3, <2>5, <4>2 DEF SessIn
      <4> QED BY <4>1, <4>2
    <3>2. SessIn(sess', mem.id) = [d \in Conns |-> SessIn(sess', mem.id)[d]]
      BY DEF SessIn
    <3>3. s = [d \in Conns |-> s[d]]
      BY <2>3
    <3> QED BY <3>1, <3>2, <3>3
  <2>10. \A d \in Conns : \/ sess'[d] = sess[d]
                          \/ {sess[d].call, sess'[d].call} \subseteq {0, mem.id}
    BY <2>1, <2>3, <2>5 DEF NoSession
  <2>11. mem' = [id |-> mem.id, call |-> call, sess |-> s]
    BY <2>2, <2>3
  <2>12. calls[mem.id].ended => call.ended
    BY <2>1, <2>5 DEF Coherent, Present
  <2> HIDE DEF s
  <2> QED
    BY <1>1, <2>2, <2>4, <2>8, <2>9, <2>10, <2>11, <2>12, RowWritten DEF UpdateCall
<1> QED BY <1>2, <1>3 DEF removeUserSession, RemoveNothing

-----------------------------------------------------------------------------
(* Joins *)

\* Only an active call has sessions.
LEMMA SessionsActive ==
    ASSUME IInv, Sound, NEW c \in Conns, sess[c].call # 0
    PROVE  sess[c].call \in ActiveCalls
<1> DEFINE i == sess[c].call
<1>1. sess[c].call \in Nat /\ Len(calls) \in Nat /\ sess[c].call <= Len(calls)
  BY DEF IInv, TypeOK, SessionRow, CopyCoversTable
<1>2. i \in DOMAIN calls
  BY <1>1 DEF IInv, TypeOK
<1>3. c \in Present(SessIn(sess, i))
  BY DEF Present, SessIn
<1>4. Coherent(calls[i], SessIn(sess, i), joined[i])
  BY <1>2 DEF Sound
<1> QED BY <1>2, <1>3, <1>4 DEF Coherent, ActiveCalls

\* The call that addUserSession saves is coherent with the new session.
LEMMA JoinedCoherent ==
    ASSUME NEW old \in CallRow, ~old.ended, NEW sc \in [Conns -> SessionRow],
           NEW c \in Conns, sc[c].call = 0,
           old.video = {d \in Conns : sc[d].call # 0 /\ "video" \in sc[d].on},
           NEW row, row.call # 0, row.on = {},
           NEW s, s = [sc EXCEPT ![c] = row],
           NEW host \in HostIDs(old, s), NEW parts \in SUBSET Users,
           NEW call, call = [old EXCEPT !.host = host, !.parts = parts]
    PROVE  Coherent(call, s, parts)
<1>1. s[c] = row /\ \A d \in Conns : d # c => s[d] = sc[d]
  OBVIOUS
<1>2. /\ ~call.ended /\ call.parts = parts /\ call.video = old.video
      /\ call.host = host /\ call.locked = old.locked
  BY DEF CallRow
<1>3. c \in Present(s)
  BY <1>1 DEF Present
<1>4. old.video = {d \in Conns : s[d].call # 0 /\ "video" \in s[d].on}
  BY <1>1
<1>5. HostFits(call, s)
  BY <1>2, HostElected DEF HostFits
<1> QED BY <1>2, <1>3, <1>4, <1>5 DEF Coherent

LEMMA JoinSound ==
    ASSUME NoFaults, IInv, IInv', Sound, NEW c \in Conns, addUserSession(c)
    PROVE  Sound' /\ EndedKept
<1> DEFINE newId == IF mem.id = 0 THEN Len(calls) + 1 ELSE mem.id
           row(id, at) == [call |-> id, at |-> at, on |-> {}]
           sAt(id, at) == [mem.sess EXCEPT ![c] = row(id, at)]
           rec(h) == [mem.call EXCEPT !.host = h, !.parts = @ \cup ({UserOf[c]} \ {Bot})]
<1>1. /\ mem.call \in CallRow /\ mem.sess \in [Conns -> SessionRow] /\ mem.id \in Nat
      /\ sess \in [Conns -> SessionRow] /\ calls \in Seq(CallRow) /\ Len(calls) \in Nat
      /\ joined \in [1..MaxCalls -> SUBSET Users] /\ DOMAIN calls = 1..Len(calls)
      /\ mem.id <= Len(calls) /\ MaxCalls \in Nat /\ Len(calls) <= MaxCalls
  BY ConfigAssumption DEF IInv, TypeOK, CopyCoversTable
<1>2. PICK id \in Nat : id = newId
  BY <1>1
<1>3. id # 0
  BY <1>1, <1>2
<1>4. /\ lk # "free" /\ lk' = "joins" /\ UNCHANGED cleaner
      /\ ~mem.call.ended /\ mem.sess[c].call = 0
  BY DEF addUserSession
<1>at. PICK at \in JoinTimes : \E h \in HostIDs(mem.call, sAt(id, at)) :
         SaveJoin(rec(h), sAt(id, at)) /\ addSessionToCall(c, id, rec(h), sAt(id, at))
  BY <1>2 DEF addUserSession, NoFaults
<1>5. PICK host \in HostIDs(mem.call, sAt(id, at)) :
         SaveJoin(rec(host), sAt(id, at)) /\ addSessionToCall(c, id, rec(host), sAt(id, at))
  BY <1>at
<1> DEFINE s == sAt(id, at)
           call == rec(host)
           users == mem.call.parts \cup ({UserOf[c]} \ {Bot})
<1>6. /\ sess' = [sess EXCEPT ![c] = s[c]]
      /\ mem' = [id |-> id, call |-> call, sess |-> s]
      /\ joined' = [joined EXCEPT ![id] = @ \cup ({UserOf[c]} \ {Bot})]
  BY <1>5 DEF addSessionToCall
<1>7. /\ s[c] = row(id, at) /\ s[c].call = id
      /\ \A d \in Conns : d # c => s[d] = mem.sess[d]
  BY <1>1
<1>8. mem.call.video = {d \in Conns : mem.sess[d].call # 0 /\ "video" \in mem.sess[d].on}
  <2>1. CASE mem.id = 0
    BY <2>1 DEF Sound, CopyExact, NilState, NewCall, NoSession
  <2>2. CASE mem.id # 0
    <3>1. Coherent(mem.call, mem.sess, joined[mem.id])
      BY <2>2, CopyCoherent
    <3> QED BY <1>4, <3>1 DEF Coherent
  <2> QED BY <2>1, <2>2
<1>9. Coherent(call, s, users)
  <2>1. users \in SUBSET Users
    BY <1>1, IDAssumption DEF CallRow
  <2>2. row(id, at).call # 0 /\ row(id, at).on = {}
    BY <1>3
  <2>3. call = [mem.call EXCEPT !.host = host, !.parts = users]
    OBVIOUS
  <2>4. s = [mem.sess EXCEPT ![c] = row(id, at)]
    OBVIOUS
  <2>5. host \in HostIDs(mem.call, s)
    BY <1>5
  <2> HIDE DEF row, rec, sAt, s, call, users
  <2> QED BY <1>1, <1>4, <1>8, <2>1, <2>2, <2>3, <2>4, <2>5, JoinedCoherent
<1>10. sess[c].call = 0
  <2>1. CASE mem.id = 0
    BY <1>4, <2>1, SessionsActive DEF Sound, CopyExact
  <2>2. CASE mem.id # 0
    <3>1. sess[c].call # mem.id
      BY <1>4, <2>2, CopyCoherent DEF SessIn
    <3> QED BY <2>2, <3>1, SessionsActive DEF Sound, CopyExact
  <2> QED BY <2>1, <2>2
<1>11. ~call.ended
  BY <1>1, <1>4 DEF CallRow
<1>12. SaveJoin(call, s)
  BY <1>5
<1>13. s \in [Conns -> [call : Nat, at : JoinTimes, on : SUBSET Flags] \cup SessionRow]
  BY <1>1
<1>14. ASSUME NEW i, i \in Nat \ {0, id} PROVE SessIn(sess', i) = SessIn(sess, i)
  <2>1. ASSUME NEW d \in Conns
        PROVE  (IF sess'[d].call = i THEN sess'[d] ELSE NoSession)
                  = (IF sess[d].call = i THEN sess[d] ELSE NoSession)
    <3> HIDE DEF s
    <3>1. CASE d = c
      BY <1>1, <1>6, <1>7, <1>10, <1>14, <3>1
    <3>2. CASE d # c
      BY <1>1, <1>6, <3>2
    <3> QED BY <3>1, <3>2
  <2> QED BY <2>1 DEF SessIn
<1> HIDE DEF s, call, users, rec, row, sAt
<1>15. SessIn(sess', id) = s
  <2>1. ASSUME NEW d \in Conns PROVE SessIn(sess', id)[d] = s[d]
    <3>1. CASE d = c
      BY <1>1, <1>6, <1>7, <3>1 DEF SessIn
    <3>2. CASE d # c /\ mem.id # 0
      <4>1. mem.sess = SessIn(sess, mem.id) /\ id = mem.id
        BY <1>2, <3>2, CopyCoherent
      <4> QED BY <1>1, <1>6, <1>7, <3>2, <4>1 DEF SessIn
    <3>3. CASE d # c /\ mem.id = 0
      <4>1. mem.sess[d] = NoSession
        BY <3>3 DEF Sound, CopyExact, NilState
      <4>2. sess[d].call # id
        <5>1. sess[d].call <= Len(calls) /\ id = Len(calls) + 1
          BY <1>2, <3>3 DEF IInv, CopyCoversTable
        <5> QED BY <1>1, <5>1
      <4> QED BY <1>1, <1>6, <1>7, <3>3, <4>1, <4>2 DEF SessIn
    <3> QED BY <3>1, <3>2, <3>3
  <2>2. SessIn(sess', id) = [d \in Conns |-> SessIn(sess', id)[d]]
    BY DEF SessIn
  <2>3. s = [d \in Conns |-> s[d]]
    BY <1>13
  <2> QED BY <2>1, <2>2, <2>3
<1>16. CASE mem.id # 0
  <2>1. id = mem.id /\ mem.id \in 1..MaxCalls /\ mem.id \in DOMAIN calls
        /\ mem.call = calls[mem.id] /\ Coherent(mem.call, mem.sess, joined[mem.id])
    BY <1>2, <1>16, CopyCoherent
  <2>2. joined[mem.id] = mem.call.parts
    BY <1>4, <2>1 DEF Coherent
  <2>3. joined'[mem.id] = users /\ \A i \in 1..MaxCalls : i # mem.id => joined'[i] = joined[i]
    BY <1>1, <1>6, <2>1, <2>2 DEF users
  <2>4. calls' = [calls EXCEPT ![mem.id] = call]
    BY <1>12, <1>16 DEF SaveJoin, UpdateCall
  <2>5. \A d \in Conns : \/ sess'[d] = sess[d]
                         \/ {sess[d].call, sess'[d].call} \subseteq {0, mem.id}
    BY <1>1, <1>6, <1>7, <1>10, <2>1
  <2>6. mem' = [id |-> mem.id, call |-> call, sess |-> s]
    BY <1>6, <2>1
  <2>7. calls[mem.id].ended => call.ended
    BY <1>4, <2>1
  <2> QED
    BY <1>4, <1>9, <1>15, <1>16, <2>1, <2>3, <2>4, <2>5, <2>6, <2>7, RowWritten
<1>17. CASE mem.id = 0
  <2>1. id = Len(calls) + 1
    BY <1>2, <1>17
  <2>2. Cardinality(Present(s)) = 1
    <3>1. \A d \in Conns : mem.sess[d].call = 0
      BY <1>17 DEF Sound, CopyExact, NilState, NoSession
    <3>2. Present(s) = {c}
      BY <1>3, <1>7, <3>1 DEF Present
    <3> QED BY <3>2, FS_Singleton
  <2>3. Len(calls) < MaxCalls /\ calls' = Append(calls, call)
    BY <1>12, <2>2 DEF SaveJoin
  <2>4. id \in 1..MaxCalls
    BY <1>1, <2>1, <2>3
  <2>5. /\ DOMAIN calls' = 1..id /\ Len(calls') = id /\ calls'[id] = call
        /\ \A i \in DOMAIN calls : calls'[i] = calls[i]
    BY <1>1, <2>1, <2>3
  <2>6. joined[id] = {} /\ mem.call.parts = {}
    BY <1>1, <1>17, <2>1, <2>4 DEF Sound, CopyExact, NilState, NewCall
  <2>7. joined'[id] = users /\ \A i \in 1..MaxCalls : i # id => joined'[i] = joined[i]
    BY <1>1, <1>6, <2>4, <2>6 DEF users
  <2>8. ActiveCalls' = {id}
    <3>1. ActiveCalls = {}
      BY <1>4, <1>17 DEF Sound, CopyExact
    <3> QED BY <1>1, <1>11, <2>1, <2>5, <3>1 DEF ActiveCalls
  <2>9. \A i \in DOMAIN calls' : Coherent(calls'[i], SessIn(sess', i), joined'[i])
    <3> SUFFICES ASSUME NEW i \in 1..id
                 PROVE  Coherent(calls'[i], SessIn(sess', i), joined'[i])
      BY <2>5
    <3>1. CASE i = id
      BY <1>9, <1>15, <2>5, <2>7, <3>1
    <3>2. CASE i # id
      <4>1. i \in DOMAIN calls /\ i \in 1..MaxCalls /\ i \in Nat \ {0, id}
        BY <1>1, <2>1, <2>4, <3>2
      <4>2. Coherent(calls[i], SessIn(sess, i), joined[i])
        BY <4>1 DEF Sound
      <4> QED BY <1>14, <2>5, <2>7, <3>2, <4>1, <4>2
    <3> QED BY <3>1, <3>2
  <2>10. CopyExact'
    <3>1. mem'.id = id /\ mem' = [id |-> id, call |-> calls'[id], sess |-> SessIn(sess', id)]
      BY <1>6, <1>15, <2>5
    <3> QED BY <1>3, <1>4, <2>8, <3>1 DEF CopyExact
  <2>11. \A i \in 1..MaxCalls : i > Len(calls') => joined'[i] = {}
    BY <1>1, <2>1, <2>5, <2>7 DEF Sound
  <2>12. EndedKept
    BY <2>5 DEF EndedKept
  <2> QED BY <1>4, <2>8, <2>9, <2>10, <2>11, <2>12 DEF Sound
<1> QED BY <1>16, <1>17

-----------------------------------------------------------------------------
(* The theorems *)

LEMMA SoundInit == Init => Sound
<1> SUFFICES ASSUME Init PROVE Sound
  OBVIOUS
<1>1. calls = <<>> /\ DOMAIN calls = {} /\ ActiveCalls = {}
  BY DEF Init, ActiveCalls
<1>2. CopyExact
  BY <1>1 DEF Init, CopyExact, NilState
<1>3. \A i \in 1..MaxCalls : joined[i] = {}
  BY DEF Init
<1> QED BY <1>1, <1>2, <1>3 DEF Init, Sound

LEMMA SoundNext ==
    ASSUME NoFaults
    PROVE  IInv /\ IInv' /\ Sound /\ [Next]_vars => Sound' /\ [EndedKept]_calls
<1> SUFFICES ASSUME IInv, IInv', Sound, [Next]_vars
             PROVE  Sound' /\ [EndedKept]_calls
  OBVIOUS
<1>1. CASE UNCHANGED vars
  BY <1>1 DEF vars, Sound, CopyExact, ActiveCalls
<1>2. ASSUME NEW c \in Conns, Disconnect(c) PROVE Sound' /\ EndedKept
  BY <1>2 DEF Disconnect, Sound, CopyExact, ActiveCalls, EndedKept
<1>3. ASSUME NEW c \in Conns, ConnNext(c) PROVE Sound' /\ EndedKept
  BY <1>2, <1>3, JoinSound, LeaveSound, VideoStep, FlagStep, CallOnlyStep DEF ConnNext
<1>4. ~(\E u \in Users : hostEnd(u)) /\ ~CleanUpReads
  BY DEF hostEnd, CleanUpReads, NoFaults
<1>5. ~HostEndReads /\ ~HostEndDeletes /\ ~HostEndUpdates /\ ~CleanUpEndsCall
  BY DEF HostEndReads, HostEndDeletes, HostEndUpdates, CleanUpEndsCall, Sound, Idle
<1>6. CASE Next
  BY <1>3, <1>4, <1>5, <1>6, LockSound, CallOnlyStep DEF Next
<1> QED BY <1>1, <1>6

LEMMA SoundHolds == ASSUME NoFaults PROVE Spec => [](IInv /\ Sound) /\ [][EndedKept]_calls
<1>1. IInv /\ Sound /\ [Next]_vars => (IInv /\ Sound)' /\ [EndedKept]_calls
  BY InvNext, SoundNext
<1>2. Init => IInv /\ Sound
  BY InvInit, SoundInit
<1> QED BY <1>1, <1>2, PTL DEF Spec

\* The sessions of the table for a call are those a copy of it shows.
LEMMA TableView ==
    ASSUME IInv, Sound, NEW i \in DOMAIN calls
    PROVE  /\ SessionsOf(i) = Present(SessIn(sess, i))
           /\ {UserOf[c] : c \in SessionsOf(i)} \ {Bot} = People(SessIn(sess, i))
           /\ {c \in SessionsOf(i) : "video" \in sess[c].on} =
                 {c \in Conns : SessIn(sess, i)[c].call # 0 /\ "video" \in SessIn(sess, i)[c].on}
           /\ Coherent(calls[i], SessIn(sess, i), joined[i])
<1>1. i # 0
  BY DEF IInv, TypeOK
<1>2. \A c \in Conns : SessIn(sess, i)[c] = IF sess[c].call = i THEN sess[c] ELSE NoSession
  BY DEF SessIn
<1>3. SessionsOf(i) = Present(SessIn(sess, i))
  BY <1>1, <1>2 DEF SessionsOf, Present, NoSession
<1>4. {UserOf[c] : c \in SessionsOf(i)} \ {Bot} = People(SessIn(sess, i))
  BY <1>3 DEF People, UsersIn
<1>5. {c \in SessionsOf(i) : "video" \in sess[c].on} =
         {c \in Conns : SessIn(sess, i)[c].call # 0 /\ "video" \in SessIn(sess, i)[c].on}
  BY <1>1, <1>2 DEF SessionsOf, NoSession
<1> QED BY <1>3, <1>4, <1>5 DEF Sound

\* A channel never has two calls that go on: every creation is under the lock
\* and after a read that found no active call.
THEOREM OneCallAtATime == ASSUME NoFaults PROVE Spec => []OneActiveCall
<1>1. IInv /\ Sound => OneActiveCall
  <2> SUFFICES ASSUME IInv, Sound PROVE OneActiveCall
    OBVIOUS
  <2>1. CASE ActiveCalls = {}
    BY <2>1, FS_EmptySet DEF OneActiveCall
  <2>2. CASE ActiveCalls # {}
    <3>1. PICK i \in ActiveCalls : ActiveCalls = {i}
      BY <2>2 DEF Sound
    <3>2. Cardinality(ActiveCalls) = 1
      BY <3>1, FS_Singleton
    <3> QED BY <3>2 DEF OneActiveCall
  <2> QED BY <2>1, <2>2
<1> QED BY <1>1, SoundHolds, PTL

\* A call with people in it has one of them as its host, and the locked host
\* while that user is there, through every join, leave and changeHost.
THEOREM HostPresent == ASSUME NoFaults PROVE Spec => []HostInCall
<1>1. IInv /\ Sound => HostInCall
  <2> SUFFICES ASSUME IInv, Sound, NEW i \in ActiveCalls
               PROVE  LET present == {UserOf[c] : c \in SessionsOf(i)} \ {Bot}
                      IN /\ present # {} => calls[i].host \in present
                         /\ calls[i].locked \in present => calls[i].host = calls[i].locked
    BY DEF HostInCall
  <2>1. i \in DOMAIN calls /\ ~calls[i].ended
    BY DEF ActiveCalls
  <2>2. HostFits(calls[i], SessIn(sess, i))
    BY <2>1, TableView DEF Coherent
  <2> QED BY <2>1, <2>2, TableView DEF HostFits
<1> QED BY <1>1, SoundHolds, PTL

\* The last session to leave ends the call, so a call that goes on always has
\* a session and can be joined.
THEOREM JoinableCall == ASSUME NoFaults PROVE Spec => []OngoingCallJoinable
<1>1. IInv /\ Sound => OngoingCallJoinable
  BY TableView DEF OngoingCallJoinable, ActiveCalls, Coherent
<1> QED BY <1>1, SoundHolds, PTL

\* The start times of videos in the call row are those of the session rows with
\* video on, although two rows are written.
THEOREM VideosMatch == ASSUME NoFaults PROVE Spec => []VideoAccounted
<1>1. IInv /\ Sound => VideoAccounted
  <2> SUFFICES ASSUME IInv, Sound, NEW i \in ActiveCalls
               PROVE  calls[i].video = {c \in SessionsOf(i) : "video" \in sess[c].on}
    BY DEF VideoAccounted
  <2>1. i \in DOMAIN calls /\ ~calls[i].ended
    BY DEF ActiveCalls
  <2> QED BY <2>1, TableView DEF Coherent
<1> QED BY <1>1, SoundHolds, PTL

\* setCallEnded keeps everyone who ever joined as a participant, and an ended
\* call has no session left.
THEOREM EndedComplete == ASSUME NoFaults PROVE Spec => []EndedCallComplete
<1>1. IInv /\ Sound => EndedCallComplete
  BY TableView DEF EndedCallComplete, Coherent
<1> QED BY <1>1, SoundHolds, PTL

\* While the store answers and every writer holds the lock, an ended call stays
\* ended: only the unlocked writers and lost writes can resume one.
THEOREM EndIsFinal == ASSUME NoFaults PROVE Spec => EndedStaysEnded
<1>1. [EndedKept]_calls => [\A i \in DOMAIN calls : calls[i].ended => calls'[i].ended]_calls
  BY DEF EndedKept
<1> QED BY <1>1, SoundHolds, PTL DEF EndedStaysEnded
=============================================================================
