---------------------------- MODULE WebAppProofs ----------------------------
(***************************************************************************)
(* Proofs about the parts of the web app that MCWebApp composes, for every *)
(* value of the bounds: one client at a time (CallEntry), the alerts and   *)
(* the recording disclaimer of the two windows of a call (CallPrompts),    *)
(* the end of the pop-out with its call and what both windows show of the  *)
(* client (CallWindows), and the page in the System Console                *)
(* (AdminConsole).                                                         *)
(*                                                                         *)
(* A step of another part leaves a part's variables alone, so that each    *)
(* invariant is kept by the steps of its own part.                         *)
(***************************************************************************)
EXTENDS MCWebApp, SequenceTheorems, FiniteSetTheorems, FunctionTheorems, TLAPS

-----------------------------------------------------------------------------
(* Joining and leaving *)

Stages == {"init", "late", "socket", "ghost", "joined", "gone"}
Clients == [ch : Chans, at : Stages, closed : BOOLEAN]
WinStates ==
    [client : Nat, connecting : BOOLEAN, switch : Chans \cup {0}, error : Chans \cup {0}, caught : BOOLEAN,
     unguarded : BOOLEAN, race : BOOLEAN]

EntryTypes ==
    /\ cls \in Seq(Clients)
    /\ win \in WinStates
    /\ win.client <= Len(cls)
    /\ msgs \in Seq(Chans)
    /\ \A t \in turns : t.ch \in Chans
    /\ turns # {} => site.turn

Over(cl) == cl.at \in {"late", "ghost", "gone"}
OnItsWay(cl) == cl.at \in {"init", "socket"}

\* The guard of connectToCall: while a connectCall waits for credentials the
\* spinner is on, there is no client, and no other waits.
Alone ==
    ~win.unguarded /\ turns # {} =>
        win.connecting /\ win.client = 0 /\ \E t \in turns : turns = {t}

\* Without a race the window knows the client that is not closed, and the
\* client it knows is not closed.
EntryInv ==
    /\ EntryTypes
    /\ \A i \in 1 .. Len(cls) : cls[i].closed <=> Over(cls[i])
    /\ ~win.race =>
          /\ win.client # 0 => ~Over(cls[win.client])
          /\ \A i \in 1 .. Len(cls) : ~Over(cls[i]) => win.client = i
          /\ win.connecting => turns # {} \/ win.caught \/ \E i \in 1 .. Len(cls) : OnItsWay(cls[i])
          /\ Alone

\* A client is made, or the attempt throws: w is the window before.
LEMMA NewClientKept ==
    ASSUME EntryInv, NEW c \in Chans, NEW w \in WinStates, Entry!NewClient(c, w),
           ~w.race => ~win.race /\ win.client = 0 /\ (turns' # {} => w.unguarded),
           turns' = turns \/ \E t \in turns : turns' = turns \ {t}, msgs' \in Seq(Chans), site' = site
    PROVE  EntryInv'
<1>1. cls \in Seq(Clients) /\ Len(cls) \in Nat
  BY DEF EntryInv, EntryTypes
<1>2. ASSUME win' \in WinStates, cls' \in Seq(Clients), win'.client <= Len(cls')
      PROVE  EntryTypes'
  BY <1>2 DEF EntryInv, EntryTypes
<1>3. ASSUME ~w.race PROVE \A i \in 1 .. Len(cls) : Over(cls[i])
  <2>1. \A i \in 1 .. Len(cls) : ~Over(cls[i]) => win.client = i BY <1>3 DEF EntryInv
  <2> QED BY <1>1, <1>3, <2>1
<1>4. ASSUME ~win'.race, win'.race = w.race, win'.unguarded = w.unguarded PROVE Alone'
  BY <1>4 DEF Alone
<1>5. CASE /\ cls' = Append(cls, [ch |-> c, at |-> "init", closed |-> FALSE])
           /\ win' = [w EXCEPT !.client = Len(cls) + 1, !.connecting = TRUE, !.caught = FALSE]
  <2> DEFINE cl == [ch |-> c, at |-> "init", closed |-> FALSE]
  <2>1. cl \in Clients BY DEF Clients, Stages
  <2>2. cls' = Append(cls, cl) BY <1>5
  <2>3. cls' \in Seq(Clients) /\ Len(cls') = Len(cls) + 1
    BY <1>1, <2>1, <2>2
  <2>4. \A i \in 1 .. Len(cls') : cls'[i] = IF i = Len(cls) + 1 THEN cl ELSE cls[i]
    BY <1>1, <2>1, <2>2
  <2>5. win' = [client |-> Len(cls) + 1, connecting |-> TRUE, switch |-> w.switch, error |-> w.error,
                caught |-> FALSE, unguarded |-> w.unguarded, race |-> w.race]
    BY <1>5 DEF WinStates
  <2>6. win' \in WinStates /\ win'.client = Len(cls) + 1 /\ win'.race = w.race /\ win'.unguarded = w.unguarded
    BY <1>1, <2>5 DEF WinStates
  <2>7. ~Over(cl) /\ OnItsWay(cl) /\ cl.closed = FALSE BY DEF Over, OnItsWay
  <2> HIDE DEF cl
  <2>8. EntryTypes' BY <1>1, <1>2, <2>3, <2>6
  <2>9. \A i \in 1 .. Len(cls') : cls'[i].closed <=> Over(cls'[i])
    BY <2>3, <2>4, <2>7 DEF EntryInv
  <2>10. ASSUME ~win'.race
         PROVE  /\ win'.client # 0 => ~Over(cls'[win'.client])
                /\ \A i \in 1 .. Len(cls') : ~Over(cls'[i]) => win'.client = i
                /\ \E i \in 1 .. Len(cls') : OnItsWay(cls'[i])
    <3>1. \A i \in 1 .. Len(cls) : Over(cls[i]) BY <1>3, <2>6, <2>10
    <3>2. Len(cls) + 1 \in 1 .. Len(cls') /\ cls'[Len(cls) + 1] = cl BY <1>1, <2>3, <2>4
    <3> QED BY <1>1, <2>3, <2>4, <2>6, <2>7, <3>1, <3>2
  <2> QED BY <1>4, <2>6, <2>8, <2>9, <2>10 DEF EntryInv
<1>6. CASE win' = [w EXCEPT !.client = 0, !.caught = TRUE] /\ UNCHANGED cls
  <2>1. win' = [client |-> 0, connecting |-> w.connecting, switch |-> w.switch, error |-> w.error,
                caught |-> TRUE, unguarded |-> w.unguarded, race |-> w.race]
    BY <1>6 DEF WinStates
  <2>2. /\ win' \in WinStates /\ win'.client = 0 /\ win'.caught = TRUE
        /\ win'.race = w.race /\ win'.unguarded = w.unguarded
    BY <2>1 DEF WinStates
  <2>3. EntryTypes' BY <1>1, <1>2, <1>6, <2>2
  <2>4. \A i \in 1 .. Len(cls') : cls'[i].closed <=> Over(cls'[i]) BY <1>6 DEF EntryInv
  <2>5. ASSUME ~win'.race PROVE \A i \in 1 .. Len(cls') : Over(cls'[i]) BY <1>3, <1>6, <2>2, <2>5
  <2> QED BY <1>4, <2>2, <2>3, <2>4, <2>5 DEF EntryInv
<1> QED BY <1>5, <1>6 DEF Entry!NewClient

\* A client changes: it is closed, and the window's with it; it goes on; or
\* it was closed already.
LEMMA ChangedKept ==
    ASSUME EntryInv, NEW i \in 1 .. Len(cls), NEW cl \in Clients, cls' = [cls EXCEPT ![i] = cl],
           cl.closed <=> Over(cl), win' \in WinStates, win'.client <= Len(cls),
           turns' = turns, msgs' \in Seq(Chans), site' = site, win'.caught = win.caught,
           ~win'.race =>
              /\ ~win.race /\ Alone'
              /\ \/ Over(cl) /\ win.client \in {0, i} /\ win'.client = 0 /\ ~win'.connecting
                 \/ /\ Over(cl) <=> Over(cls[i])
                    /\ win'.client = win.client
                    /\ win'.connecting => win.connecting /\ (OnItsWay(cls[i]) => OnItsWay(cl))
    PROVE  EntryInv'
<1>1. cls' \in Seq(Clients) /\ Len(cls') = Len(cls) BY DEF EntryInv, EntryTypes
<1>2. \A j \in 1 .. Len(cls') : cls'[j] = IF j = i THEN cl ELSE cls[j] BY <1>1 DEF EntryInv, EntryTypes
<1>3. EntryTypes' BY <1>1 DEF EntryInv, EntryTypes
<1>4. \A j \in 1 .. Len(cls') : cls'[j].closed <=> Over(cls'[j]) BY <1>1, <1>2 DEF EntryInv
<1>5. win.client \in Nat /\ win.client <= Len(cls) /\ Len(cls) \in Nat BY DEF EntryInv, EntryTypes, WinStates
<1>6. ASSUME ~win'.race
      PROVE  /\ win'.client # 0 => ~Over(cls'[win'.client])
             /\ \A j \in 1 .. Len(cls') : ~Over(cls'[j]) => win'.client = j
             /\ win'.connecting => \/ turns' # {} \/ win'.caught
                                   \/ \E j \in 1 .. Len(cls') : OnItsWay(cls'[j])
             /\ Alone'
  <2>1. /\ win.client # 0 => ~Over(cls[win.client])
        /\ \A j \in 1 .. Len(cls) : ~Over(cls[j]) => win.client = j
        /\ win.connecting => \/ turns # {} \/ win.caught
                             \/ \E j \in 1 .. Len(cls) : OnItsWay(cls[j])
    BY <1>6 DEF EntryInv
  <2>2. CASE Over(cl) /\ win.client \in {0, i} /\ win'.client = 0 /\ ~win'.connecting
    <3>1. ASSUME NEW j \in 1 .. Len(cls'), ~Over(cls'[j]) PROVE FALSE
      <4>1. j # i BY <1>2, <2>2, <3>1
      <4>2. ~Over(cls[j]) /\ j \in 1 .. Len(cls) BY <1>1, <1>2, <3>1, <4>1
      <4>3. win.client = j BY <2>1, <4>2
      <4> QED BY <1>5, <2>2, <4>1, <4>2, <4>3
    <3>2. win'.client = 0 /\ ~win'.connecting BY <2>2
    <3> QED BY <1>6, <3>1, <3>2
  <2>3. CASE /\ Over(cl) <=> Over(cls[i])
             /\ win'.client = win.client
             /\ win'.connecting => win.connecting /\ (OnItsWay(cls[i]) => OnItsWay(cl))
    <3>1. ASSUME NEW j \in 1 .. Len(cls') PROVE Over(cls'[j]) <=> Over(cls[j])
      BY <1>2, <2>3
    <3>2. ASSUME NEW j \in 1 .. Len(cls'), win'.connecting, OnItsWay(cls[j]) PROVE OnItsWay(cls'[j])
      BY <1>2, <2>3, <3>2
    <3>3. ASSUME win'.client # 0 PROVE ~Over(cls'[win'.client])
      <4>1. win'.client = win.client /\ win.client \in 1 .. Len(cls') BY <1>1, <1>5, <2>3, <3>3
      <4>2. ~Over(cls[win.client]) BY <2>1, <3>3, <4>1
      <4> QED BY <3>1, <4>1, <4>2
    <3>4. ASSUME NEW j \in 1 .. Len(cls'), ~Over(cls'[j]) PROVE win'.client = j
      <4>1. ~Over(cls[j]) /\ j \in 1 .. Len(cls) BY <1>1, <3>1, <3>4
      <4>2. win.client = j BY <2>1, <4>1
      <4> QED BY <2>3, <4>2
    <3>5. ASSUME win'.connecting
          PROVE  turns' # {} \/ win'.caught \/ \E j \in 1 .. Len(cls') : OnItsWay(cls'[j])
      <4>1. turns # {} \/ win.caught \/ \E j \in 1 .. Len(cls) : OnItsWay(cls[j]) BY <2>1, <2>3, <3>5
      <4>2. turns' = turns /\ win'.caught = win.caught OBVIOUS
      <4>3. CASE turns # {} \/ win.caught BY <4>2, <4>3
      <4>4. ASSUME NEW j \in 1 .. Len(cls), OnItsWay(cls[j]) PROVE OnItsWay(cls'[j]) /\ j \in 1 .. Len(cls')
        BY <1>1, <3>2, <3>5, <4>4
      <4> QED BY <4>1, <4>3, <4>4
    <3> QED BY <1>6, <3>3, <3>4, <3>5
  <2> QED BY <1>6, <2>2, <2>3
<1> QED BY <1>3, <1>4, <1>6 DEF EntryInv

\* Nothing happens to the clients: the modals change, or a connectCall waits.
LEMMA ClientsKept ==
    ASSUME EntryInv, cls' = cls, site' = site, win' \in WinStates, win'.client = win.client,
           win'.race = win.race, win'.caught = win.caught, turns \subseteq turns',
           \A t \in turns' : t.ch \in Chans, turns' # {} => site.turn, msgs' \in Seq(Chans),
           win'.connecting => win.connecting \/ turns' # {}, ~win.race => Alone'
    PROVE  EntryInv'
<1>1. EntryTypes' BY DEF EntryInv, EntryTypes
<1> QED BY <1>1 DEF EntryInv

\* What changes only the modals of the window.
LEMMA ModalKept ==
    ASSUME EntryInv, UNCHANGED <<cls, turns, site>>, msgs' \in Seq(Chans),
           NEW s \in Chans \cup {0}, NEW e \in Chans \cup {0},
           win' = [win EXCEPT !.switch = s, !.error = e]
    PROVE  EntryInv'
<1>1. win \in WinStates /\ (\A t \in turns : t.ch \in Chans) /\ (turns # {} => site.turn)
  BY DEF EntryInv, EntryTypes
<1>2. /\ win' \in WinStates /\ win'.client = win.client /\ win'.race = win.race
      /\ win'.connecting = win.connecting /\ win'.caught = win.caught /\ win'.unguarded = win.unguarded
  BY <1>1 DEF WinStates
<1>3. ~win.race => Alone' BY <1>2 DEF EntryInv, Alone
<1> QED BY <1>1, <1>2, <1>3, ClientsKept

LEMMA NothingKept ==
    ASSUME EntryInv, UNCHANGED <<win, cls, turns, site>>, msgs' \in Seq(Chans)
    PROVE  EntryInv'
<1>1. EntryTypes' BY DEF EntryInv, EntryTypes
<1>2. ~win.race => Alone' BY DEF EntryInv, Alone
<1> QED BY <1>1, <1>2 DEF EntryInv

LEMMA ConnectCallKept ==
    ASSUME EntryInv, NEW c \in Chans, NEW w \in WinStates, Entry!connectCall(c, w),
           msgs' \in Seq(Chans), site' = site,
           w.client = win.client, w.race = win.race, w.caught = win.caught,
           \/ w.unguarded = win.unguarded /\ ~win.connecting /\ w.connecting
           \/ (site.turn => w.unguarded) /\ w.connecting = win.connecting
    PROVE  EntryInv'
<1>1. win \in WinStates /\ (\A t \in turns : t.ch \in Chans) /\ (turns # {} => site.turn)
  BY DEF EntryInv, EntryTypes
<1>2. CASE UNCHANGED <<win, cls, turns>> BY <1>2, NothingKept
<1>3. CASE /\ win.client = 0 /\ site.turn /\ turns' = turns \cup {[ch |-> c, id |-> clicks]}
           /\ win' = w /\ UNCHANGED cls
  <2> DEFINE new == [ch |-> c, id |-> clicks]
  <2>1. new.ch \in Chans OBVIOUS
  <2>2. turns' = turns \cup {new} BY <1>3
  <2> HIDE DEF new
  <2>3. turns \subseteq turns' /\ turns' # {} /\ \A t \in turns' : t.ch \in Chans BY <1>1, <2>1, <2>2
  <2>4. ASSUME ~win.race PROVE Alone'
    <3>1. SUFFICES ASSUME ~w.unguarded PROVE w.connecting /\ w.client = 0 /\ \E t \in turns' : turns' = {t}
      BY <1>3 DEF Alone
    <3>2. ~win.connecting /\ ~win.unguarded /\ w.connecting BY <1>3, <3>1
    <3>3. turns = {} BY <2>4, <3>2 DEF EntryInv, Alone
    <3> QED BY <1>3, <2>2, <3>2, <3>3
  <2> QED BY <1>1, <1>3, <2>3, <2>4, ClientsKept
<1>4. CASE win.client = 0 /\ ~site.turn /\ Entry!NewClient(c, w) /\ UNCHANGED turns
  <2>1. turns' = {} BY <1>1, <1>4
  <2> QED BY <1>4, <2>1, NewClientKept
<1> QED BY <1>2, <1>3, <1>4 DEF Entry!connectCall

LEMMA JoinKept ==
    ASSUME EntryInv, NEW c \in Chans, Entry!joinCall(c), msgs' \in Seq(Chans), site' = site
    PROVE  EntryInv'
<1>1. win \in WinStates BY DEF EntryInv, EntryTypes
<1>2. CASE UNCHANGED <<win, cls, turns>> BY <1>2, NothingKept
<1>3. CASE Entry!connectToCall(c)
  <2>1. CASE UNCHANGED <<win, cls, turns>> BY <1>2, <2>1
  <2>2. CASE ~win.connecting /\ Entry!connectCall(c, [win EXCEPT !.connecting = TRUE])
    <3> DEFINE w == [win EXCEPT !.connecting = TRUE]
    <3>1. /\ w \in WinStates /\ w.client = win.client /\ w.race = win.race /\ w.caught = win.caught
          /\ w.unguarded = win.unguarded /\ w.connecting
      BY <1>1 DEF WinStates
    <3>2. ~win.connecting /\ Entry!connectCall(c, w) BY <2>2
    <3> HIDE DEF w
    <3> QED BY <3>1, <3>2, ConnectCallKept
  <2>3. CASE /\ win' = [win EXCEPT !.switch = IF Entry!channelIDForCurrentCall # c THEN c ELSE @]
             /\ UNCHANGED <<cls, turns>>
    <3> DEFINE s == IF Entry!channelIDForCurrentCall # c THEN c ELSE win.switch
               e == win.error
    <3>1. s \in Chans \cup {0} /\ e \in Chans \cup {0} BY <1>1 DEF WinStates
    <3>2. win' = [win EXCEPT !.switch = s, !.error = e] BY <1>1, <2>3 DEF WinStates
    <3> HIDE DEF s, e
    <3> QED BY <2>3, <3>1, <3>2, ModalKept
  <2> QED BY <1>3, <2>1, <2>2, <2>3 DEF Entry!connectToCall
<1> QED BY <1>2, <1>3 DEF Entry!joinCall

\* disconnect of the client of the window, or of one that may be closed.
LEMMA DisconnectKept ==
    ASSUME EntryInv, NEW i \in 1 .. Len(cls), NEW err \in BOOLEAN, Entry!Disconnect(i, err),
           turns' = turns, msgs' \in Seq(Chans), site' = site
    PROVE  EntryInv'
<1>1. win \in WinStates /\ (\A t \in turns : t.ch \in Chans) /\ cls \in Seq(Clients) /\ Len(cls) \in Nat
      /\ win.client <= Len(cls)
  BY DEF EntryInv, EntryTypes
<1>2. CASE cls[i].closed BY <1>2, NothingKept DEF Entry!Disconnect
<1>3. CASE ~cls[i].closed
  <2> DEFINE cl == [ch |-> cls[i].ch, at |-> IF cls[i].at = "init" THEN "late" ELSE "gone", closed |-> TRUE]
             e == IF err /\ win.client # 0 THEN cls[win.client].ch ELSE win.error
  <2>1. cls[i] \in Clients BY <1>1
  <2>2. cls' = [cls EXCEPT ![i] = cl] BY <1>1, <1>3, <2>1 DEF Entry!Disconnect, Clients
  <2>3. cl \in Clients /\ Over(cl) /\ cl.closed BY <2>1 DEF Clients, Stages, Over
  <2>4. e \in Chans \cup {0}
    <3>1. CASE err /\ win.client # 0
      <4>1. win.client \in 1 .. Len(cls) BY <1>1, <3>1 DEF WinStates
      <4>2. cls[win.client] \in Clients BY <1>1, <4>1
      <4> QED BY <3>1, <4>2 DEF Clients
    <3>2. CASE ~(err /\ win.client # 0) BY <1>1, <3>2 DEF WinStates
    <3> QED BY <3>1, <3>2
  <2>5. win' = [client |-> 0, connecting |-> FALSE, switch |-> win.switch, error |-> e,
                caught |-> win.caught, unguarded |-> win.unguarded, race |-> win.race]
    BY <1>1, <1>3 DEF Entry!Disconnect, WinStates
  <2>6. win' \in WinStates BY <1>1, <2>4, <2>5 DEF WinStates
  <2>7. ~win'.race => win.client \in {0, i}
    <3>1. ~Over(cls[i]) BY <1>3 DEF EntryInv
    <3> QED BY <2>5, <3>1 DEF EntryInv
  <2>8. /\ win'.client = 0 /\ ~win'.connecting /\ win'.race = win.race
        /\ win'.caught = win.caught /\ win'.unguarded = win.unguarded
    BY <2>5
  <2> HIDE DEF cl, e
  <2>9. ~win'.race => /\ ~win.race /\ Over(cl) /\ win.client \in {0, i} /\ win'.client = 0
                      /\ ~win'.connecting
    BY <2>3, <2>7, <2>8
  <2>11. ASSUME ~win'.race PROVE Alone'
    <3>1. ~win.race /\ win.client = i
      <4>1. ~Over(cls[i]) BY <1>3 DEF EntryInv
      <4> QED BY <2>8, <2>11, <4>1 DEF EntryInv
    <3>2. win.client # 0 BY <3>1
    <3> QED BY <2>8, <3>1, <3>2 DEF EntryInv, Alone
  <2>10. win'.client <= Len(cls) /\ (cl.closed <=> Over(cl)) BY <1>1, <2>3, <2>8
  <2> QED BY <2>2, <2>3, <2>6, <2>8, <2>9, <2>10, <2>11, ChangedKept
<1> QED BY <1>2, <1>3

LEMMA OnJoinKept ==
    ASSUME EntryInv, NEW c \in Chans, Entry!onJoin(c), UNCHANGED <<cls, turns, site>>
    PROVE  EntryInv'
<1>1. win \in WinStates /\ msgs \in Seq(Chans) BY DEF EntryInv, EntryTypes
<1>2. CASE win' = [win EXCEPT !.switch = c] /\ UNCHANGED msgs
  <2> DEFINE e == win.error
  <2>1. win' = [win EXCEPT !.switch = c, !.error = e] BY <1>1, <1>2 DEF WinStates
  <2>2. e \in Chans \cup {0} /\ c \in Chans \cup {0} /\ msgs' \in Seq(Chans) BY <1>1, <1>2 DEF WinStates
  <2> HIDE DEF e
  <2> QED BY <2>1, <2>2, ModalKept
<1>3. CASE msgs' = Append(msgs, c) /\ UNCHANGED win
  <2>1. msgs' \in Seq(Chans) BY <1>1, <1>3
  <2> QED BY <1>3, <2>1, NothingKept
<1> QED BY <1>2, <1>3 DEF Entry!onJoin

LEMMA SwitchKept == ASSUME EntryInv, Entry!SwitchCallModal PROVE EntryInv'
<1>1. win \in WinStates /\ msgs \in Seq(Chans) /\ cls \in Seq(Clients) /\ Len(cls) \in Nat
      /\ win.client <= Len(cls)
  BY DEF EntryInv, EntryTypes
<1>2. win.switch \in Chans BY <1>1 DEF Entry!SwitchCallModal, WinStates
<1>3. msgs' \in Seq(Chans) /\ turns' = turns /\ site' = site BY <1>1, <1>2 DEF Entry!SwitchCallModal
<1>4. CASE win.client = 0 \/ cls[win.client].closed
  <2> DEFINE s == 0
             e == win.error
  <2>1. win' = [win EXCEPT !.switch = s, !.error = e] /\ UNCHANGED <<cls, turns>>
    BY <1>1, <1>4 DEF Entry!SwitchCallModal, WinStates
  <2>2. e \in Chans \cup {0} /\ s \in Chans \cup {0} BY <1>1 DEF WinStates
  <2> HIDE DEF s, e
  <2> QED BY <1>3, <2>1, <2>2, ModalKept
<1>5. CASE ~(win.client = 0 \/ cls[win.client].closed)
  <2> DEFINE i == win.client
             cl == [ch |-> cls[i].ch, at |-> IF cls[i].at = "init" THEN "late" ELSE "gone", closed |-> TRUE]
  <2>1. i \in 1 .. Len(cls) BY <1>1, <1>5 DEF WinStates
  <2>2. cls[i] \in Clients BY <1>1, <2>1
  <2>3. cls' = [cls EXCEPT ![i] = cl]
    BY <1>1, <1>5, <2>1, <2>2, ZenonT(60) DEF Entry!SwitchCallModal, Clients
  <2>4. cl \in Clients /\ Over(cl) /\ cl.closed BY <2>2 DEF Clients, Stages, Over
  <2>5. win' = [client |-> 0, connecting |-> FALSE, switch |-> 0, error |-> win.error,
                caught |-> win.caught, unguarded |-> win.unguarded, race |-> win.race]
    BY <1>1, <1>5 DEF Entry!SwitchCallModal, WinStates
  <2>6. win' \in WinStates BY <1>1, <2>5 DEF WinStates
  <2>7. /\ win'.client = 0 /\ ~win'.connecting /\ win'.race = win.race
        /\ win'.caught = win.caught /\ win'.unguarded = win.unguarded
    BY <2>5
  <2>11. ASSUME ~win'.race PROVE Alone'
    <3>1. ~win.race /\ win.client # 0 BY <1>5, <2>7, <2>11
    <3> QED BY <1>3, <2>7, <3>1 DEF EntryInv, Alone
  <2>8. win.client \in {0, i} OBVIOUS
  <2> HIDE DEF cl, i
  <2>9. ~win'.race => ~win.race /\ Over(cl) /\ win.client \in {0, i} /\ win'.client = 0 /\ ~win'.connecting
    BY <2>4, <2>7, <2>8
  <2>10. win'.client <= Len(cls) /\ (cl.closed <=> Over(cl)) BY <1>1, <2>4, <2>7
  <2> QED BY <1>3, <2>1, <2>3, <2>4, <2>6, <2>7, <2>9, <2>10, <2>11, ChangedKept
<1> QED BY <1>4, <1>5

\* What a client goes through that leaves the window alone.
LEMMA PassedKept ==
    ASSUME EntryInv, NEW i \in 1 .. Len(cls), NEW to \in Stages, cls' = [cls EXCEPT ![i].at = to],
           (cls[i].at = "init" /\ to = "socket") \/ (cls[i].at = "late" /\ to \in {"ghost", "gone"}),
           UNCHANGED <<win, turns, msgs, site>>
    PROVE  EntryInv'
<1> DEFINE cl == [ch |-> cls[i].ch, at |-> to, closed |-> cls[i].closed]
<1>1. win \in WinStates /\ msgs \in Seq(Chans) /\ cls \in Seq(Clients) /\ Len(cls) \in Nat
      /\ win.client <= Len(cls)
  BY DEF EntryInv, EntryTypes
<1>2. cls[i] \in Clients BY <1>1
<1>3. cls' = [cls EXCEPT ![i] = cl]
  <2>1. [cls[i] EXCEPT !.at = to] = cl BY <1>2 DEF Clients
  <2> QED BY <1>1, <2>1
<1>4. cl \in Clients BY <1>2 DEF Clients
<1>5. cl.closed = cls[i].closed /\ (Over(cl) <=> Over(cls[i])) /\ (OnItsWay(cls[i]) => OnItsWay(cl))
  BY DEF Over, OnItsWay
<1>6. cls[i].closed <=> Over(cls[i]) BY DEF EntryInv
<1>7. ~win'.race => ~win.race /\ Alone' BY DEF EntryInv, Alone
<1> HIDE DEF cl
<1> QED BY <1>1, <1>3, <1>4, <1>5, <1>6, <1>7, ChangedKept

LEMMA GoneClient ==
    ASSUME NEW k \in Clients
    PROVE  [k EXCEPT !.at = "gone", !.closed = TRUE] = [ch |-> k.ch, at |-> "gone", closed |-> TRUE]
<1> DEFINE l == [k EXCEPT !.at = "gone", !.closed = TRUE]
           r == [ch |-> k.ch, at |-> "gone", closed |-> TRUE]
<1>1. DOMAIN k = {"ch", "at", "closed"} BY DEF Clients
<1>2. DOMAIN l = DOMAIN r BY <1>1
<1>3. l.ch = r.ch /\ l.at = r.at /\ l.closed = r.closed BY <1>1
<1> QED BY <1>1, <1>2, <1>3

LEMMA ThrowsKept ==
    ASSUME EntryInv, NEW i \in 1 .. Len(cls), Entry!InitThrows(i)
    PROVE  EntryInv'
<1> DEFINE cl == [ch |-> cls[i].ch, at |-> "gone", closed |-> TRUE]
           r == win.race \/ win.client \notin {0, i}
           u == win.unguarded \/ turns # {}
<1>1. win \in WinStates /\ msgs \in Seq(Chans) /\ cls \in Seq(Clients) /\ Len(cls) \in Nat
      /\ win.client <= Len(cls)
  BY DEF EntryInv, EntryTypes
<1>2. cls[i] \in Clients BY <1>1
<1>3. cls' = [cls EXCEPT ![i] = cl] /\ UNCHANGED <<turns, msgs, site>>
  <2>1. [cls[i] EXCEPT !.at = "gone", !.closed = TRUE] = cl BY <1>2, GoneClient
  <2>2. cls' = [cls EXCEPT ![i] = [cls[i] EXCEPT !.at = "gone", !.closed = TRUE]]
    BY <1>1 DEF Entry!InitThrows
  <2> QED BY <2>1, <2>2 DEF Entry!InitThrows
<1>4. cl \in Clients /\ Over(cl) /\ cl.closed BY <1>2 DEF Clients, Over, Stages
<1>5. win' = [client |-> 0, connecting |-> FALSE, switch |-> win.switch, error |-> cls[i].ch,
              caught |-> win.caught, unguarded |-> u, race |-> r]
  BY <1>1 DEF Entry!InitThrows, WinStates
<1>6. r \in BOOLEAN /\ u \in BOOLEAN BY <1>1 DEF WinStates
<1>7. /\ win' \in WinStates /\ win'.client = 0 /\ ~win'.connecting /\ win'.race = r
      /\ win'.caught = win.caught /\ win'.unguarded = u
  <2> HIDE DEF r, u
  <2> QED BY <1>1, <1>2, <1>5, <1>6 DEF WinStates, Clients
<1>8. ~win'.race => ~win.race /\ win.client \in {0, i} BY <1>7
<1>10. Alone' BY <1>3, <1>7 DEF Alone
<1> HIDE DEF cl, r, u
<1>9. win'.client <= Len(cls) /\ (cl.closed <=> Over(cl)) BY <1>1, <1>4, <1>7
<1> QED BY <1>1, <1>3, <1>4, <1>7, <1>8, <1>9, <1>10, ChangedKept

LEMMA ConnectedKept ==
    ASSUME EntryInv, NEW i \in 1 .. Len(cls), Entry!Connected(i)
    PROVE  EntryInv'
<1> DEFINE cl == [ch |-> cls[i].ch, at |-> "joined", closed |-> cls[i].closed]
<1>1. win \in WinStates /\ msgs \in Seq(Chans) /\ cls \in Seq(Clients) /\ Len(cls) \in Nat
      /\ win.client <= Len(cls)
  BY DEF EntryInv, EntryTypes
<1>2. cls[i] \in Clients BY <1>1
<1>3. cls' = [cls EXCEPT ![i] = cl] /\ UNCHANGED <<turns, msgs, site>>
  <2>1. [cls[i] EXCEPT !.at = "joined"] = cl BY <1>2 DEF Clients
  <2>2. cls' = [cls EXCEPT ![i] = [cls[i] EXCEPT !.at = "joined"]] BY <1>1 DEF Entry!Connected
  <2> QED BY <2>1, <2>2 DEF Entry!Connected
<1>4. cl \in Clients BY <1>2 DEF Clients, Stages
<1>5. cl.closed = cls[i].closed /\ (Over(cl) <=> Over(cls[i]))
  BY DEF Over, Entry!Connected
<1>6. cls[i].closed <=> Over(cls[i]) BY DEF EntryInv
<1>7. /\ win' \in WinStates /\ win'.client = win.client /\ ~win'.connecting /\ win'.race = win.race
      /\ win'.caught = win.caught /\ win'.unguarded = win.unguarded
  BY <1>1 DEF WinStates, Entry!Connected
<1>8. ASSUME ~win'.race PROVE Alone'
  <2>1. ~win.race /\ ~Over(cls[i]) BY <1>7, <1>8 DEF Over, Entry!Connected
  <2>2. win.client # 0 BY <2>1 DEF EntryInv
  <2> QED BY <1>3, <1>7, <2>1, <2>2 DEF EntryInv, Alone
<1> HIDE DEF cl
<1> QED BY <1>1, <1>3, <1>4, <1>5, <1>6, <1>7, <1>8, ChangedKept

LEMMA ReconnectedKept == ASSUME EntryInv, Entry!Reconnected PROVE EntryInv'
<1> DEFINE u == win.unguarded \/ turns # {}
<1>1. /\ win \in WinStates /\ (\A t \in turns : t.ch \in Chans) /\ (turns # {} => site.turn)
      /\ msgs \in Seq(Chans)
  BY DEF EntryInv, EntryTypes
<1>2. UNCHANGED <<cls, turns, msgs, site>> /\ win' = [win EXCEPT !.connecting = FALSE, !.unguarded = u]
  BY DEF Entry!Reconnected
<1>3. u \in BOOLEAN BY <1>1 DEF WinStates
<1>4. /\ win' \in WinStates /\ win'.client = win.client /\ win'.race = win.race /\ ~win'.connecting
      /\ win'.caught = win.caught /\ win'.unguarded = u
  <2> HIDE DEF u
  <2> QED BY <1>1, <1>2, <1>3 DEF WinStates
<1>5. Alone' BY <1>2, <1>4 DEF Alone
<1> HIDE DEF u
<1> QED BY <1>1, <1>2, <1>4, <1>5, ClientsKept

LEMMA EntryStepKept == ASSUME EntryInv, Entry!EntryNext PROVE EntryInv'
<1>1. win \in WinStates /\ msgs \in Seq(Chans) /\ cls \in Seq(Clients) /\ Len(cls) \in Nat
      /\ win.client <= Len(cls) /\ DOMAIN cls = 1 .. Len(cls) /\ \A t \in turns : t.ch \in Chans
  BY DEF EntryInv, EntryTypes
<1> DEFINE e == win.error
           s == win.switch
           no == 0
<1>2. e \in Chans \cup {0} /\ s \in Chans \cup {0} /\ no \in Chans \cup {0} BY <1>1 DEF WinStates
<1>3. ASSUME NEW c \in Chans,
             \/ Entry!ChannelHeaderButton(c) \/ Entry!ChannelHeaderDropdownButton(c) \/ Entry!JoinCallLink(c)
             \/ \E start \in BOOLEAN : Entry!SlashJoin(c, start)
      PROVE  EntryInv'
  <2>1. Entry!joinCall(c) /\ UNCHANGED <<msgs, site>>
    BY <1>3 DEF Entry!ChannelHeaderButton, Entry!ChannelHeaderDropdownButton, Entry!JoinCallLink,
                Entry!SlashJoin
  <2> QED BY <1>1, <2>1, JoinKept
<1>4. ASSUME NEW c \in Chans, Entry!ChannelCallToast(c) \/ Entry!PostType(c)
      PROVE  EntryInv'
  <2>1. Entry!onJoin(c) /\ UNCHANGED <<cls, turns, site>>
    BY <1>4 DEF Entry!ChannelCallToast, Entry!PostType
  <2> QED BY <2>1, OnJoinKept
<1>5. ASSUME NEW c \in Chans,
             Entry!EndCall(c) \/ Entry!CallStarts(c) \/ Entry!ChannelHeaderMenuButton(c)
      PROVE  EntryInv'
  <2>1. UNCHANGED <<win, cls, turns, msgs, site>>
    BY <1>5 DEF Entry!EndCall, Entry!CallStarts, Entry!ChannelHeaderMenuButton
  <2> QED BY <1>1, <2>1, NothingKept
<1>6. ASSUME NEW c \in Chans, Entry!CallEnds(c)
      PROVE  EntryInv'
  <2>1. UNCHANGED <<turns, msgs, site>> BY <1>6 DEF Entry!CallEnds
  <2>2. CASE UNCHANGED <<win, cls>> BY <1>1, <2>1, <2>2, NothingKept
  <2>3. CASE win.client # 0 /\ Entry!Disconnect(win.client, FALSE)
    <3> DEFINE i == win.client
               err == FALSE
    <3>1. i \in 1 .. Len(cls) /\ err \in BOOLEAN BY <1>1, <2>3 DEF WinStates
    <3>2. Entry!Disconnect(i, err) BY <2>3, Zenon
    <3> HIDE DEF i, err
    <3> QED BY <1>1, <2>1, <3>1, <3>2, DisconnectKept
  <2> QED BY <1>6, <2>2, <2>3 DEF Entry!CallEnds
<1>7. CASE Entry!MessageReceived
  <2> DEFINE c == Head(msgs)
             w == [win EXCEPT !.unguarded = @ \/ site.turn]
  <2>1. c \in Chans /\ msgs' \in Seq(Chans) /\ Entry!connectCall(c, w) /\ site' = site
    BY <1>1, <1>7 DEF Entry!MessageReceived
  <2>2. w = [client |-> win.client, connecting |-> win.connecting, switch |-> win.switch,
             error |-> win.error, caught |-> win.caught, unguarded |-> win.unguarded \/ site.turn,
             race |-> win.race]
    BY <1>1 DEF WinStates
  <2>3. (win.unguarded \/ site.turn) \in BOOLEAN OBVIOUS
  <2>4. /\ w \in WinStates /\ w.client = win.client /\ w.race = win.race /\ w.caught = win.caught
        /\ w.connecting = win.connecting /\ w.unguarded = (win.unguarded \/ site.turn)
    <3> DEFINE u == win.unguarded \/ site.turn
    <3>1. w = [client |-> win.client, connecting |-> win.connecting, switch |-> win.switch,
               error |-> win.error, caught |-> win.caught, unguarded |-> u, race |-> win.race]
      BY <2>2
    <3>2. u \in BOOLEAN BY <2>3
    <3>3. w.unguarded = u BY <3>1
    <3> HIDE DEF w, u
    <3>4. /\ w \in WinStates /\ w.client = win.client /\ w.race = win.race /\ w.caught = win.caught
          /\ w.connecting = win.connecting
      BY <1>1, <3>1, <3>2 DEF WinStates
    <3>5. w.unguarded = (win.unguarded \/ site.turn) BY <3>3 DEF u
    <3> QED BY <3>4, <3>5
  <2>5. site.turn => w.unguarded BY <2>4
  <2> HIDE DEF c, w
  <2> QED BY <2>1, <2>4, <2>5, ConnectCallKept
<1>15. CASE Entry!Reconnected BY <1>15, ReconnectedKept
<1>8. CASE Entry!Leave
  <2> DEFINE i == win.client
             err == FALSE
  <2>1. i \in 1 .. Len(cls) /\ err \in BOOLEAN /\ UNCHANGED <<turns, msgs, site>>
    BY <1>1, <1>8 DEF Entry!Leave, WinStates
  <2>2. Entry!Disconnect(i, err) BY <1>8, Zenon DEF Entry!Leave
  <2> HIDE DEF i, err
  <2> QED BY <1>1, <2>1, <2>2, DisconnectKept
<1>9. CASE Entry!SwitchCallModal BY <1>9, SwitchKept
<1>10. CASE Entry!HideSwitchCallModal
  <2>1. win' = [win EXCEPT !.switch = no, !.error = e] /\ UNCHANGED <<cls, turns, msgs, site>>
    BY <1>1, <1>10 DEF Entry!HideSwitchCallModal, WinStates
  <2> HIDE DEF e, no
  <2> QED BY <1>1, <1>2, <2>1, ModalKept
<1>11. CASE Entry!CallErrorModal
  <2>1. win' = [win EXCEPT !.switch = s, !.error = no] /\ UNCHANGED <<cls, turns, site>>
    BY <1>1, <1>11 DEF Entry!CallErrorModal, WinStates
  <2>2. win.error \in Chans BY <1>1, <1>11 DEF Entry!CallErrorModal, WinStates
  <2>3. msgs' \in Seq(Chans)
    <3>1. msgs' \in {msgs, Append(msgs, win.error)} BY <1>11 DEF Entry!CallErrorModal
    <3> QED BY <1>1, <2>2, <3>1
  <2> HIDE DEF s, no
  <2> QED BY <1>2, <2>1, <2>3, ModalKept
<1>12. ASSUME NEW t \in turns, Entry!TurnAnswered(t) PROVE EntryInv'
  <2> DEFINE c == t.ch
             r == win.race \/ (win.client # 0 /\ win.unguarded)
             u == win.unguarded /\ turns # {t}
             w == [win EXCEPT !.race = @ \/ (win.client # 0 /\ win.unguarded),
                              !.unguarded = @ /\ turns # {t}]
  <2>1. c \in Chans /\ msgs' \in Seq(Chans) /\ site' = site BY <1>1, <1>12 DEF Entry!TurnAnswered
  <2>2. Entry!NewClient(c, w) /\ turns' = turns \ {t} BY <1>12 DEF Entry!TurnAnswered
  <2>3. r \in BOOLEAN /\ u \in BOOLEAN BY <1>1 DEF WinStates
  <2>4. w = [client |-> win.client, connecting |-> win.connecting, switch |-> win.switch,
             error |-> win.error, caught |-> win.caught, unguarded |-> u, race |-> r]
    <3>1. w = [win EXCEPT !.race = r, !.unguarded = u] OBVIOUS
    <3> HIDE DEF w, r, u
    <3> QED BY <1>1, <3>1 DEF WinStates
  <2>5. w \in WinStates /\ w.race = r /\ w.unguarded = u
    <3> HIDE DEF w, r, u
    <3> QED BY <1>1, <2>3, <2>4 DEF WinStates
  <2>6. ASSUME ~w.race PROVE ~win.race /\ win.client = 0 /\ (turns' # {} => w.unguarded)
    <3>1. ~win.race /\ (win.client = 0 \/ ~win.unguarded) BY <2>5, <2>6
    <3>2. ~win.unguarded => win.client = 0 /\ turns = {t} BY <3>1 DEF EntryInv, Alone
    <3>3. turns' # {} => turns # {t} BY <2>2
    <3> QED BY <2>5, <3>1, <3>2, <3>3
  <2>7. \E x \in turns : turns' = turns \ {x} BY <2>2
  <2> HIDE DEF c, w
  <2> QED BY <2>1, <2>2, <2>5, <2>6, <2>7, NewClientKept
<1>13. ASSUME NEW i \in 1 .. Len(cls), Entry!Initialised(i) \/ Entry!Refused(i) PROVE EntryInv'
  <2> DEFINE to == IF ~cls[i].closed THEN "socket" ELSE IF Entry!Initialised(i) THEN "gone" ELSE "ghost"
  <2>1. cls' = [cls EXCEPT ![i].at = to] /\ UNCHANGED <<win, turns, msgs, site>>
    BY <1>13 DEF Entry!Initialised, Entry!Refused
  <2>2. cls[i].at \in {"init", "late"} BY <1>13 DEF Entry!Initialised, Entry!Refused
  <2>3. cls[i].closed <=> Over(cls[i]) BY DEF EntryInv
  <2>4. to \in Stages BY DEF Stages
  <2>5. (cls[i].at = "init" /\ to = "socket") \/ (cls[i].at = "late" /\ to \in {"ghost", "gone"})
    BY <2>2, <2>3 DEF Over
  <2> HIDE DEF to
  <2> QED BY <2>1, <2>4, <2>5, PassedKept
<1>14. ASSUME NEW i \in 1 .. Len(cls), Entry!Fails(i) PROVE EntryInv'
  <2> DEFINE err == TRUE
  <2>1. err \in BOOLEAN /\ Entry!Disconnect(i, err) /\ UNCHANGED <<turns, msgs, site>>
    BY <1>14 DEF Entry!Fails
  <2> HIDE DEF err
  <2> QED BY <1>1, <2>1, DisconnectKept
<1> QED
  BY <1>1, <1>3, <1>4, <1>5, <1>6, <1>7, <1>8, <1>9, <1>10, <1>11, <1>12, <1>13, <1>14, <1>15, ThrowsKept,
     ConnectedKept DEF Entry!EntryNext

LEMMA EntryInvInit == WebInit => EntryInv
<1> SUFFICES ASSUME WebInit PROVE EntryInv OBVIOUS
<1>1. /\ win = [client |-> 0, connecting |-> FALSE, switch |-> 0, error |-> 0, caught |-> FALSE,
                unguarded |-> FALSE, race |-> FALSE]
      /\ cls = <<>> /\ turns = {} /\ msgs = <<>>
  BY DEF WebInit, Starts, Entry!EntryInit, Entry!EntryStart
<1>2. EntryTypes BY <1>1 DEF EntryTypes, WinStates
<1> QED BY <1>1, <1>2 DEF EntryInv, Alone

LEMMA EntryInvNext ==
    EntryInv /\ [WebNext]_<<part, adminVars, ringVars, mediaVars, entryVars, promptVars, windowVars>> => EntryInv'
<1> SUFFICES ASSUME EntryInv, [WebNext]_<<part, adminVars, ringVars, mediaVars, entryVars, promptVars, windowVars>>
             PROVE  EntryInv'
  OBVIOUS
<1>1. CASE UNCHANGED entryVars
  <2>1. UNCHANGED <<win, cls, turns, site>> /\ msgs' = msgs BY <1>1 DEF entryVars
  <2>2. msgs' \in Seq(Chans) BY <2>1 DEF EntryInv, EntryTypes
  <2> QED BY <2>1, <2>2, NothingKept
<1>2. CASE EntryStep BY <1>2, EntryStepKept DEF EntryStep
<1> QED
  BY <1>1, <1>2 DEF WebNext, AdminStep, RingStep, MediaStep, PromptStep, WindowStep

\* Clicking a join button twice, a leave, a call that ends, a client that fails
\* and the modals never leave a client that is not closed out of the window's
\* reach, nor the spinner spinning for nothing (connectToCall and connectCall,
\* index.tsx), unless a second connectCall came past the guard of connectToCall
\* while one waited for TURN credentials, a client that was left failed after
\* the next was made, or making a client threw.
THEOREM OneClientAtATime == WebSpec => []OneClient
<1>1. EntryInv => OneClient
  <2> SUFFICES ASSUME EntryInv, ~win.race
               PROVE  /\ \A i \in DOMAIN cls : Entry!Live(i) => win.client = i
                      /\ win.connecting => \/ turns # {} \/ win.caught
                                           \/ \E i \in DOMAIN cls : cls[i].at \in {"init", "socket"}
    BY DEF OneClient, Entry!OneClient
  <2>1. DOMAIN cls = 1 .. Len(cls) BY DEF EntryInv, EntryTypes
  <2> QED BY <2>1 DEF EntryInv, Entry!Live, Over, OnItsWay
<1> QED BY <1>1, EntryInvInit, EntryInvNext, PTL DEF WebSpec

-----------------------------------------------------------------------------
(* Alerts of the two windows *)

AlertNames == {"screen", "micPermissions", "mic", "cam", "quality"}
Alerts == [active : SUBSET AlertNames, show : SUBSET AlertNames]
PastFields ==
    {"skew", "kinds", "late", "seen", "refused", "locked", "micRefused", "carried"}

AlertTypes ==
    /\ al \in [Prompt!Windows -> Alerts]
    /\ DOMAIN data = {"dis", "noScreen"} /\ data.noScreen \in BOOLEAN
    /\ DOMAIN past = PastFields /\ past.carried \in BOOLEAN /\ past.micRefused \in BOOLEAN

\* What the widget's window remembers for a pop-out is what both show.
AlertInv ==
    /\ AlertTypes
    /\ ~past.carried =>
          /\ "screen" \in al["widget"].active <=> data.noScreen
          /\ pop = "open" => ("screen" \in al["pop"].active <=> data.noScreen)
    /\ "micPermissions" \in al["widget"].active <=> past.micRefused

\* Alerts other than the two: whatever becomes of them.
SameAlerts(s, t) ==
    /\ "screen" \in s.active <=> "screen" \in t.active
    /\ "micPermissions" \in s.active <=> "micPermissions" \in t.active

LEMMA SetAlertsType ==
    ASSUME NEW s \in Alerts, NEW a \in SUBSET AlertNames, NEW on \in BOOLEAN
    PROVE  /\ Prompt!SetAlerts(s, a, on) \in Alerts
           /\ Prompt!SetAlerts(s, a, on).active = IF on THEN s.active \cup a ELSE s.active \ a
BY DEF Alerts, Prompt!SetAlerts

LEMMA OtherAlert ==
    ASSUME NEW s \in Alerts, NEW a \in SUBSET AlertNames, NEW on \in BOOLEAN,
           "screen" \notin a, "micPermissions" \notin a
    PROVE  Prompt!SetAlerts(s, a, on) \in Alerts /\ SameAlerts(s, Prompt!SetAlerts(s, a, on))
<1>1. /\ Prompt!SetAlerts(s, a, on) \in Alerts
      /\ Prompt!SetAlerts(s, a, on).active = IF on THEN s.active \cup a ELSE s.active \ a
  BY SetAlertsType
<1> QED BY <1>1 DEF SameAlerts

LEMMA AlertsKept ==
    ASSUME AlertInv, al' \in [Prompt!Windows -> Alerts], data' = data, pop' = pop,
           DOMAIN past' = PastFields, past'.carried = past.carried, past'.micRefused = past.micRefused,
           \A w \in Prompt!Windows : SameAlerts(al[w], al'[w])
    PROVE  AlertInv'
<1>1. AlertTypes' BY DEF AlertInv, AlertTypes
<1>2. "widget" \in Prompt!Windows /\ "pop" \in Prompt!Windows BY DEF Prompt!Windows
<1> QED BY <1>1, <1>2 DEF AlertInv, SameAlerts

LEMMA AlertStepKept == ASSUME AlertInv, Prompt!PromptNext PROVE AlertInv'
<1>1. /\ al \in [Prompt!Windows -> Alerts] /\ DOMAIN data = {"dis", "noScreen"} /\ data.noScreen \in BOOLEAN
      /\ DOMAIN past = PastFields /\ past.carried \in BOOLEAN /\ past.micRefused \in BOOLEAN
  BY DEF AlertInv, AlertTypes
<1>2. "widget" \in Prompt!Windows /\ "pop" \in Prompt!Windows /\ Prompt!Windows = {"widget", "pop"}
  BY DEF Prompt!Windows
<1>3. ASSUME UNCHANGED <<al, data, pop>>, DOMAIN past' = PastFields, past'.carried = past.carried,
             past'.micRefused = past.micRefused
      PROVE  AlertInv'
  BY <1>1, <1>3, AlertsKept DEF SameAlerts
<1>4. CASE \/ Prompt!RecordingInitialised \/ Prompt!RecordingStarts \/ Prompt!RecordingEnds(TRUE)
           \/ Prompt!RecordingEnds(FALSE) \/ Prompt!HostChanges
  <2>1. UNCHANGED <<al, data, pop, past>>
    BY <1>4 DEF Prompt!RecordingInitialised, Prompt!RecordingStarts, Prompt!RecordingEnds, Prompt!HostChanges,
                Prompt!Publish, Prompt!Event
  <2> QED BY <1>1, <1>3, <2>1
<1>5. ASSUME NEW w \in Prompt!Windows, Prompt!Receive(w) \/ Prompt!startCallRecording(w)
      PROVE  AlertInv'
  <2>1. UNCHANGED <<al, data, pop>> /\ DOMAIN past' = PastFields /\ past'.carried = past.carried
        /\ past'.micRefused = past.micRefused
    BY <1>1, <1>5 DEF Prompt!Receive, Prompt!startCallRecording, PastFields
  <2> QED BY <1>3, <2>1
<1>6. ASSUME NEW w \in Prompt!Windows, Prompt!dismissRecordingPrompt(w)
      PROVE  AlertInv'
  <2>1. UNCHANGED <<al, pop>> /\ DOMAIN past' = PastFields /\ past'.carried = past.carried
        /\ past'.micRefused = past.micRefused /\ DOMAIN data' = DOMAIN data /\ data'.noScreen = data.noScreen
    BY <1>1, <1>6 DEF Prompt!dismissRecordingPrompt, PastFields
  <2> QED BY <1>1, <2>1 DEF AlertInv, AlertTypes
<1>7. CASE Prompt!AudioRefused
  <2> DEFINE s == Prompt!SetAlerts(al["widget"], {"micPermissions"}, TRUE)
  <2>1. s \in Alerts /\ s.active = al["widget"].active \cup {"micPermissions"}
    <3> DEFINE a == {"micPermissions"}
               on == TRUE
    <3>1. a \in SUBSET AlertNames /\ on \in BOOLEAN /\ al["widget"] \in Alerts BY <1>1, <1>2 DEF AlertNames
    <3>2. s = Prompt!SetAlerts(al["widget"], a, on) BY Zenon
    <3> HIDE DEF a, on, s
    <3>3. s \in Alerts /\ s.active = IF on THEN al["widget"].active \cup a ELSE al["widget"].active \ a
      BY <3>1, <3>2, SetAlertsType
    <3> QED BY <3>3 DEF a, on
  <2> HIDE DEF s
  <2>2. al' = [al EXCEPT !["widget"] = s] /\ UNCHANGED <<data, pop>>
    BY <1>1, <1>2, <1>7 DEF Prompt!AudioRefused, s
  <2>3. DOMAIN past' = PastFields /\ past'.carried = past.carried /\ past'.micRefused = TRUE
    BY <1>1, <1>7 DEF Prompt!AudioRefused, PastFields
  <2> QED BY <1>1, <1>2, <2>1, <2>2, <2>3 DEF AlertInv, AlertTypes
<1>8. CASE Prompt!initaudio
  <2>1. \A w \in Prompt!Windows :
           LET s == Prompt!SetAlerts(al[w], {"micPermissions"}, FALSE)
           IN  s \in Alerts /\ s.active = al[w].active \ {"micPermissions"}
    BY <1>1 DEF Alerts, Prompt!SetAlerts
  <2>2. /\ al' = [w \in Prompt!Windows |->
                     IF Prompt!Open(w) THEN Prompt!SetAlerts(al[w], {"micPermissions"}, FALSE) ELSE al[w]]
        /\ UNCHANGED <<data, pop>>
    BY <1>8 DEF Prompt!initaudio
  <2>3. al' \in [Prompt!Windows -> Alerts] BY <1>1, <2>1, <2>2
  <2>4. Prompt!Open("widget") BY DEF Prompt!Open
  <2>5. al'["widget"].active = al["widget"].active \ {"micPermissions"} BY <1>2, <2>1, <2>2, <2>4
  <2>6. "screen" \in al'["pop"].active <=> "screen" \in al["pop"].active BY <1>2, <2>1, <2>2
  <2>7. DOMAIN past' = PastFields /\ past'.carried = past.carried /\ past'.micRefused = FALSE
    BY <1>1, <1>8 DEF Prompt!initaudio, PastFields
  <2> QED BY <1>1, <2>2, <2>3, <2>5, <2>6, <2>7 DEF AlertInv, AlertTypes
<1>9. ASSUME NEW b \in BOOLEAN, Prompt!mos(b) PROVE AlertInv'
  <2>1. \A w \in Prompt!Windows :
           LET s == Prompt!SetAlerts(al[w], {"quality"}, b)
           IN  s \in Alerts /\ SameAlerts(al[w], s)
    <3> DEFINE a == {"quality"}
    <3>1. a \in SUBSET AlertNames /\ "screen" \notin a /\ "micPermissions" \notin a BY DEF AlertNames
    <3> HIDE DEF a
    <3>2. \A w \in Prompt!Windows :
             Prompt!SetAlerts(al[w], a, b) \in Alerts /\ SameAlerts(al[w], Prompt!SetAlerts(al[w], a, b))
      BY <1>1, <3>1, OtherAlert
    <3> QED BY <3>2 DEF a
  <2>2. \A w \in Prompt!Windows : SameAlerts(al[w], al[w]) BY DEF SameAlerts
  <2>3. /\ al' \in [Prompt!Windows -> Alerts]
        /\ \A w \in Prompt!Windows : SameAlerts(al[w], al'[w])
    BY <1>1, <1>9, <2>1, <2>2 DEF Prompt!mos
  <2> QED BY <1>1, <1>9, <2>3, AlertsKept DEF Prompt!mos
<1>10. ASSUME NEW b \in BOOLEAN, NEW c \in BOOLEAN, Prompt!devicechange(b, c) PROVE AlertInv'
  <2> DEFINE cut(s) == Prompt!SetAlerts(s, {"mic"}, ~b)
             v(s) == Prompt!SetAlerts(s, {"cam"}, ~c)
  <2>1. \A s \in Alerts : cut(s) \in Alerts /\ SameAlerts(s, cut(s))
    <3> DEFINE a == {"mic"}
               on == ~b
    <3>1. a \in SUBSET AlertNames /\ on \in BOOLEAN /\ "screen" \notin a /\ "micPermissions" \notin a BY DEF AlertNames
    <3> HIDE DEF a, on
    <3>2. \A s \in Alerts :
             Prompt!SetAlerts(s, a, on) \in Alerts /\ SameAlerts(s, Prompt!SetAlerts(s, a, on))
      BY <3>1, OtherAlert
    <3> QED BY <3>2 DEF a, on
  <2>2. \A s \in Alerts : v(s) \in Alerts /\ SameAlerts(s, v(s))
    <3> DEFINE a == {"cam"}
               on == ~c
    <3>1. a \in SUBSET AlertNames /\ on \in BOOLEAN /\ "screen" \notin a /\ "micPermissions" \notin a BY DEF AlertNames
    <3> HIDE DEF a, on
    <3>2. \A s \in Alerts :
             Prompt!SetAlerts(s, a, on) \in Alerts /\ SameAlerts(s, Prompt!SetAlerts(s, a, on))
      BY <3>1, OtherAlert
    <3> QED BY <3>2 DEF a, on
  <2>3. PICK p \in {v(cut(al["pop"])), v(al["pop"])} :
           al' = [widget |-> v(cut(al["widget"])), pop |-> IF pop = "open" THEN p ELSE al["pop"]]
    BY <1>10 DEF Prompt!devicechange
  <2> HIDE DEF cut, v
  <2>4. \A s \in Alerts : v(cut(s)) \in Alerts /\ SameAlerts(s, v(cut(s))) BY <2>1, <2>2 DEF SameAlerts
  <2>5. al'["widget"] = v(cut(al["widget"])) /\ al'["pop"] \in {v(cut(al["pop"])), v(al["pop"]), al["pop"]}
        /\ DOMAIN al' = {"widget", "pop"} /\ al' = [w \in Prompt!Windows |-> al'[w]]
    BY <1>2, <2>3
  <2>6. /\ al' \in [Prompt!Windows -> Alerts]
        /\ \A w \in Prompt!Windows : SameAlerts(al[w], al'[w])
    BY <1>1, <1>2, <2>2, <2>4, <2>5 DEF SameAlerts
  <2> QED BY <1>1, <1>10, <2>6, AlertsKept DEF Prompt!devicechange
<1>11. ASSUME NEW w \in Prompt!Windows, Prompt!renderAlertBanners(w) PROVE AlertInv'
  <2>1. PICK a : al' = [al EXCEPT ![w].show = @ \ {a}] BY <1>11 DEF Prompt!renderAlertBanners
  <2>2. /\ al' \in [Prompt!Windows -> Alerts]
        /\ \A x \in Prompt!Windows : SameAlerts(al[x], al'[x])
    BY <1>1, <2>1 DEF Alerts, SameAlerts
  <2>3. UNCHANGED <<data, pop>> /\ DOMAIN past' = PastFields /\ past'.carried = past.carried
        /\ past'.micRefused = past.micRefused
    BY <1>1, <1>11 DEF Prompt!renderAlertBanners, PastFields
  <2> QED BY <2>2, <2>3, AlertsKept
<1>12. ASSUME NEW w \in Prompt!Windows, Prompt!Unlocked(w) PROVE AlertInv'
  <2>1. UNCHANGED <<al, data, pop>> /\ DOMAIN past' = PastFields /\ past'.carried = past.carried
        /\ past'.micRefused = past.micRefused
    BY <1>1, <1>12 DEF Prompt!Unlocked, PastFields
  <2> QED BY <1>3, <2>1
<1>13. ASSUME NEW w \in Prompt!Windows, NEW b \in BOOLEAN, Prompt!shareScreen(w, b) PROVE AlertInv'
  <2>1. \A x \in Prompt!Windows :
           LET s == Prompt!SetAlerts(al[x], {"screen"}, b)
           IN  /\ s \in Alerts /\ s.active = IF b THEN al[x].active \cup {"screen"} ELSE al[x].active \ {"screen"}
    <3> DEFINE a == {"screen"}
    <3>1. a \in SUBSET AlertNames BY DEF AlertNames
    <3> HIDE DEF a
    <3>2. \A x \in Prompt!Windows :
             /\ Prompt!SetAlerts(al[x], a, b) \in Alerts
             /\ Prompt!SetAlerts(al[x], a, b).active = IF b THEN al[x].active \cup a ELSE al[x].active \ a
      <4> TAKE x \in Prompt!Windows
      <4> DEFINE s == al[x]
      <4>1. s \in Alerts BY <1>1
      <4> HIDE DEF s
      <4>2. /\ Prompt!SetAlerts(s, a, b) \in Alerts
            /\ Prompt!SetAlerts(s, a, b).active = IF b THEN s.active \cup a ELSE s.active \ a
        BY <3>1, <4>1, SetAlertsType
      <4> QED BY <4>2 DEF s
    <3> QED BY <3>2 DEF a
  <2>2. /\ al' = [x \in Prompt!Windows |->
                     IF Prompt!Open(x) THEN Prompt!SetAlerts(al[x], {"screen"}, b) ELSE al[x]]
        /\ data' = [data EXCEPT !.noScreen = b] /\ UNCHANGED <<pop, past>>
    BY <1>13 DEF Prompt!shareScreen, Prompt!setMissingScreenPermissions
  <2>3. al' \in [Prompt!Windows -> Alerts] BY <1>1, <2>1, <2>2
  <2>4. Prompt!Open("widget") /\ (Prompt!Open("pop") <=> pop = "open") BY DEF Prompt!Open
  <2>5. /\ "screen" \in al'["widget"].active <=> b
        /\ "micPermissions" \in al'["widget"].active <=> "micPermissions" \in al["widget"].active
        /\ pop = "open" => ("screen" \in al'["pop"].active <=> b)
    BY <1>2, <2>1, <2>2, <2>4
  <2>6. DOMAIN data' = DOMAIN data /\ data'.noScreen = b BY <1>1, <2>2
  <2> QED BY <1>1, <2>2, <2>3, <2>5, <2>6 DEF AlertInv, AlertTypes
<1>14. ASSUME NEW b \in BOOLEAN, Prompt!PopoutMounts(b) PROVE AlertInv'
  <2> DEFINE s == IF data.noScreen THEN Prompt!SetAlerts(Prompt!NoAlerts, {"screen"}, TRUE)
                  ELSE Prompt!SetAlerts(Prompt!NoAlerts, {"micPermissions"}, b)
  <2>1. s \in Alerts /\ ("screen" \in s.active <=> data.noScreen)
    <3> DEFINE no == Prompt!NoAlerts
               a == IF data.noScreen THEN {"screen"} ELSE {"micPermissions"}
               on == IF data.noScreen THEN TRUE ELSE b
    <3>1. no \in Alerts /\ no.active = {} BY DEF Prompt!NoAlerts, Alerts
    <3>2. a \in SUBSET AlertNames /\ on \in BOOLEAN BY DEF AlertNames
    <3>3. s = Prompt!SetAlerts(no, a, on) BY Zenon
    <3>4. /\ data.noScreen => "screen" \in a /\ on
          /\ ~data.noScreen => "screen" \notin a
      OBVIOUS
    <3> HIDE DEF a, no, on, s
    <3>5. s \in Alerts /\ s.active = IF on THEN no.active \cup a ELSE no.active \ a
      BY <3>1, <3>2, <3>3, SetAlertsType
    <3> QED BY <3>1, <3>4, <3>5
  <2> HIDE DEF s
  <2>2. al' = [al EXCEPT !["pop"] = s] /\ UNCHANGED <<data, past>>
    BY <1>14 DEF Prompt!PopoutMounts, s
  <2> QED BY <1>1, <1>2, <2>1, <2>2 DEF AlertInv, AlertTypes
<1>15. CASE Prompt!PopoutCloses
  <2>1. UNCHANGED <<al, data>> /\ pop' = "none" /\ DOMAIN past' = PastFields /\ past'.carried = past.carried
        /\ past'.micRefused = past.micRefused
    BY <1>1, <1>15 DEF Prompt!PopoutCloses, PastFields
  <2> QED BY <1>1, <2>1 DEF AlertInv, AlertTypes
<1>16. CASE Prompt!NextCall
  <2>1. al' = [w \in Prompt!Windows |-> Prompt!NoAlerts] /\ UNCHANGED data /\ pop' = "none"
    BY <1>16 DEF Prompt!NextCall
  <2>2. DOMAIN past' = PastFields /\ past'.micRefused = FALSE
        /\ past'.carried = (past.carried \/ data.noScreen)
    BY <1>1, <1>16 DEF Prompt!NextCall, PastFields
  <2>3. Prompt!NoAlerts \in Alerts /\ Prompt!NoAlerts.active = {} BY DEF Prompt!NoAlerts, Alerts
  <2>4. al' \in [Prompt!Windows -> Alerts] /\ al'["widget"].active = {} BY <1>2, <2>1, <2>3
  <2> QED BY <1>1, <2>1, <2>2, <2>4 DEF AlertInv, AlertTypes
<1> QED
  BY <1>4, <1>5, <1>6, <1>7, <1>8, <1>9, <1>10, <1>11, <1>12, <1>13, <1>14, <1>15, <1>16
  DEF Prompt!PromptNext

LEMMA AlertInvInit == WebInit => AlertInv
<1> SUFFICES ASSUME WebInit PROVE AlertInv OBVIOUS
<1>1. PICK skew, kinds : Prompt!PromptStart(skew, kinds) BY DEF WebInit, Starts, Prompt!PromptInit
<1>2. /\ al = [w \in Prompt!Windows |-> Prompt!NoAlerts] /\ data = [dis |-> 0, noScreen |-> FALSE]
      /\ pop = "none"
      /\ past = [skew |-> skew, kinds |-> kinds, late |-> FALSE, seen |-> 0, refused |-> FALSE,
                 locked |-> {}, micRefused |-> FALSE, carried |-> FALSE]
  BY <1>1 DEF Prompt!PromptStart
<1>3. Prompt!NoAlerts \in Alerts /\ Prompt!NoAlerts.active = {} BY DEF Prompt!NoAlerts, Alerts
<1>4. al \in [Prompt!Windows -> Alerts] /\ al["widget"].active = {} BY <1>2, <1>3 DEF Prompt!Windows
<1>5. DOMAIN past = PastFields BY <1>2 DEF PastFields
<1> QED BY <1>2, <1>4, <1>5 DEF AlertInv, AlertTypes

LEMMA PromptSteps ==
    ASSUME [WebNext]_<<part, adminVars, ringVars, mediaVars, entryVars, promptVars, windowVars>>
    PROVE  Prompt!PromptNext \/ UNCHANGED promptVars
BY DEF WebNext, AdminStep, RingStep, MediaStep, EntryStep, PromptStep, WindowStep

\* Whichever window asked for the screen, and whenever the pop-out was opened,
\* the two show the same alert about its permission, and the widget's alert
\* about the microphone follows the browser's last answer
\* (setMissingScreenPermissions, initaudio and componentDidMount), unless a
\* call handed its alert on to a later one.
THEOREM AlertsStayCurrent == WebSpec => []AlertsCurrent
<1>1. AlertInv /\ [WebNext]_<<part, adminVars, ringVars, mediaVars, entryVars, promptVars, windowVars>> => AlertInv'
  <2>1. AlertInv /\ UNCHANGED promptVars => AlertInv' BY DEF AlertInv, AlertTypes, promptVars
  <2> QED BY <2>1, AlertStepKept, PromptSteps
<1>2. AlertInv => AlertsCurrent BY DEF AlertInv, AlertsCurrent, Prompt!AlertsCurrent
<1> QED BY <1>1, <1>2, AlertInvInit, PTL DEF WebSpec

-----------------------------------------------------------------------------
(* The widget and the pop-out *)

ClientFields ==
    {"life", "mic", "added", "asks", "cam", "camAsks", "screen", "offs", "picks", "sets", "remote"}
RoomFields == {"focus", "dm", "admin", "host", "others", "refused", "twice", "stale"}
PopoutFields == {"st", "asked", "ptt", "track"}

\* A screen shared from the pop-out is the track the widget compares.
WindowInv ==
    /\ DOMAIN client = ClientFields /\ DOMAIN room = RoomFields /\ DOMAIN popout = PopoutFields
    /\ room.twice \in BOOLEAN
    /\ client.life = "closed" => popout.st # "open"
    /\ "pop" \in client.picks => popout.st = "open"
    /\ client.screen = "pop" /\ ~room.twice => popout.st = "open" /\ popout.track

\* A handler leaves alone the life, the picks and the screen of the client.
Handled(s, t) ==
    /\ DOMAIN t = DOMAIN s /\ DOMAIN t.c = DOMAIN s.c
    /\ t.c.life = s.c.life /\ t.c.screen = s.c.screen /\ t.c.picks = s.c.picks
Whole(s) == DOMAIN s = {"c", "v", "u"} /\ DOMAIN s.c = ClientFields

LEMMA HandledTwice ==
    ASSUME NEW s, NEW t, NEW u, Handled(s, t), Handled(t, u) PROVE Handled(s, u)
BY DEF Handled

LEMMA SendsHandled ==
    ASSUME NEW s, NEW k, Whole(s) PROVE Whole(Window!Sends(s, k)) /\ Handled(s, Window!Sends(s, k))
BY DEF Whole, Handled, Window!Sends

LEMMA MicHandled ==
    ASSUME NEW s, Whole(s)
    PROVE  /\ Handled(s, Window!mute(s)) /\ Handled(s, Window!unmute(s)) /\ Handled(s, Window!Unmuted(s))
           /\ Handled(s, [s EXCEPT !.c.asks = @ - 1])
           /\ Whole([s EXCEPT !.c.asks = @ - 1])
<1>1. Handled(s, s) BY DEF Handled
<1>2. Handled(s, Window!mute(s))
  <2> DEFINE t == [s EXCEPT !.c.mic = "off", !.v["widget"].mic = FALSE]
  <2>1. Whole(t) /\ Handled(s, t) BY DEF Whole, Handled, ClientFields
  <2> HIDE DEF t
  <2>2. Handled(s, Window!Sends(t, "mute")) BY <2>1, SendsHandled, HandledTwice
  <2> QED BY <1>1, <2>2 DEF Window!mute, t
<1>3. Handled(s, Window!Unmuted(s))
  <2> DEFINE t == [s EXCEPT !.c.mic = "on", !.c.added = TRUE, !.v["widget"].mic = TRUE]
  <2>1. Whole(t) /\ Handled(s, t) BY DEF Whole, Handled, ClientFields
  <2> HIDE DEF t
  <2>2. Handled(s, Window!Sends(t, "unmute")) BY <2>1, SendsHandled, HandledTwice
  <2> QED BY <2>2 DEF Window!Unmuted, t
<1>4. Handled(s, [s EXCEPT !.c.asks = @ + 1]) BY DEF Whole, Handled, ClientFields
<1>5. Handled(s, Window!unmute(s)) BY <1>1, <1>3, <1>4 DEF Window!unmute
<1>6. Handled(s, [s EXCEPT !.c.asks = @ - 1]) /\ Whole([s EXCEPT !.c.asks = @ - 1])
  BY DEF Whole, Handled, ClientFields
<1> QED BY <1>2, <1>3, <1>5, <1>6

LEMMA HandHandled ==
    ASSUME NEW s, Whole(s)
    PROVE  Handled(s, Window!raiseHand(s)) /\ Handled(s, Window!unraiseHand(s))
<1>1. /\ Whole([s EXCEPT !.v["widget"].hand = TRUE])
      /\ Handled(s, [s EXCEPT !.v["widget"].hand = TRUE])
  BY DEF Whole, Handled
<1>2. /\ Whole([s EXCEPT !.v["widget"].hand = FALSE])
      /\ Handled(s, [s EXCEPT !.v["widget"].hand = FALSE])
  BY DEF Whole, Handled
<1> QED BY <1>1, <1>2, SendsHandled, HandledTwice DEF Window!raiseHand, Window!unraiseHand

LEMMA VideoHandled ==
    ASSUME NEW s, Whole(s)
    PROVE  /\ Handled(s, Window!stopVideo(s))
           /\ Handled(s, [s EXCEPT !.c.camAsks = @ + 1])
           /\ Handled(s, Window!Sends([s EXCEPT !.c.camAsks = @ - 1, !.c.cam = TRUE, !.v["widget"].cam = TRUE], "video_on"))
           /\ Handled(s, Window!Sends([s EXCEPT !.c.offs = @ - 1], "screen_off"))
<1>1. Handled(s, s) BY DEF Handled
<1> DEFINE t == [s EXCEPT !.c.cam = FALSE, !.v["widget"].cam = FALSE]
           u == [s EXCEPT !.c.camAsks = @ - 1, !.c.cam = TRUE, !.v["widget"].cam = TRUE]
           v == [s EXCEPT !.c.offs = @ - 1]
<1>2. Whole(t) /\ Handled(s, t) BY DEF Whole, Handled, ClientFields
<1>3. Whole(u) /\ Handled(s, u) BY DEF Whole, Handled, ClientFields
<1>4. Whole(v) /\ Handled(s, v) BY DEF Whole, Handled, ClientFields
<1>5. Handled(s, [s EXCEPT !.c.camAsks = @ + 1]) BY DEF Whole, Handled, ClientFields
<1> HIDE DEF t, u, v
<1>6. Handled(s, Window!Sends(t, "video_off")) BY <1>2, SendsHandled, HandledTwice
<1>7. Handled(s, Window!Sends(u, "video_on")) BY <1>3, SendsHandled, HandledTwice
<1>8. Handled(s, Window!Sends(v, "screen_off")) BY <1>4, SendsHandled, HandledTwice
<1>9. Handled(s, Window!stopVideo(s)) BY <1>1, <1>6 DEF Window!stopVideo, t
<1> QED BY <1>5, <1>7, <1>8, <1>9 DEF u, v

\* A screen that is unshared is shared by nobody.
LEMMA Unshared ==
    ASSUME NEW s, Whole(s)
    PROVE  /\ Whole(Window!unshareScreen(s))
           /\ Window!unshareScreen(s).c.life = s.c.life /\ Window!unshareScreen(s).c.picks = s.c.picks
           /\ Window!unshareScreen(s).c.screen = "none"
BY DEF Whole, Window!unshareScreen, ClientFields

LEMMA SharedFrom ==
    ASSUME NEW s, NEW w, Whole(s)
    PROVE  /\ Whole(Window!setScreenStream(s, w))
           /\ Window!setScreenStream(s, w).c.life = s.c.life /\ Window!setScreenStream(s, w).c.picks = s.c.picks
           /\ Window!setScreenStream(s, w).c.screen \in {s.c.screen, w}
           /\ s.c.screen # "none" => Window!setScreenStream(s, w).c.screen = s.c.screen
<1> DEFINE t == [s EXCEPT !.c.screen = w, !.v["widget"].stream = "local",
                          !.v["pop"].stream = IF popout.st = "open" THEN "local" ELSE @]
<1>1. Whole(t) /\ t.c.life = s.c.life /\ t.c.picks = s.c.picks /\ t.c.screen = w
  BY DEF Whole, ClientFields
<1> HIDE DEF t
<1>2. Whole(Window!Sends(t, "screen_on")) /\ Handled(t, Window!Sends(t, "screen_on"))
  BY <1>1, SendsHandled
<1>3. Window!setScreenStream(s, w) \in {s, Window!Sends(t, "screen_on")}
      /\ (s.c.screen # "none" => Window!setScreenStream(s, w) = s)
  BY DEF Window!setScreenStream, t
<1> QED BY <1>1, <1>2, <1>3 DEF Handled

\* What neither closes nor opens anything, and shares no screen.
Calm ==
    /\ DOMAIN client' = ClientFields /\ DOMAIN room' = RoomFields /\ DOMAIN popout' = PopoutFields
    /\ room'.twice = room.twice
    /\ client'.life = "closed" => client.life = "closed"
    /\ client'.screen \in {client.screen, "none"}
    /\ client'.picks \subseteq client.picks
    /\ popout'.st = popout.st /\ popout'.track = popout.track

LEMMA CalmKept == ASSUME WindowInv, Calm PROVE WindowInv' BY DEF WindowInv, Calm

\* A step of the client's handlers.
LEMMA HandledKept ==
    ASSUME WindowInv, NEW s, Handled(Window!Now, s), Window!Becomes(s),
           DOMAIN room' = RoomFields, DOMAIN popout' = PopoutFields, room'.twice = room.twice,
           popout'.st = popout.st, popout'.track = popout.track
    PROVE  WindowInv'
<1>1. client' = s.c BY DEF Window!Becomes
<1>2. DOMAIN client' = ClientFields /\ client'.life = client.life /\ client'.screen = client.screen
      /\ client'.picks = client.picks
  BY <1>1 DEF Handled, Window!Now, WindowInv
<1> QED BY <1>2, CalmKept DEF Calm, WindowInv

LEMMA NowWhole == WindowInv => Whole(Window!Now) BY DEF WindowInv, Whole, Window!Now

LEMMA DisconnectKeeps ==
    ASSUME WindowInv, NEW closing \in BOOLEAN, Window!disconnect(closing)
    PROVE  WindowInv'
<1>1. /\ DOMAIN client' = ClientFields /\ client'.screen = "none" /\ client'.picks = {}
      /\ room' = room /\ popout' = IF popout.st = "open" \/ closing THEN Window!NoWindow ELSE popout
  BY DEF WindowInv, Window!disconnect, ClientFields
<1>2. DOMAIN popout' = PopoutFields /\ popout'.st # "open"
  BY <1>1 DEF WindowInv, Window!NoWindow, PopoutFields
<1> QED BY <1>1, <1>2 DEF WindowInv

LEMMA TalkKept ==
    ASSUME WindowInv,
           \/ \E w \in Window!Wins : Window!onMuteToggle(w) \/ Window!onVideoToggle(w) \/ Window!onRaiseHandToggle(w)
           \/ Window!handleKBShortcuts \/ Window!handleKeyUp \/ Window!MicReady \/ Window!MicDenied
           \/ Window!CamReady \/ Window!TrackRemoved
    PROVE  WindowInv'
<1>1. Whole(Window!Now) BY NowWhole
<1>2. Handled(Window!Now, Window!Now) BY DEF Handled
<1>3. DOMAIN room = RoomFields /\ DOMAIN popout = PopoutFields BY DEF WindowInv
<1>4. ASSUME NEW w \in Window!Wins, Window!onMuteToggle(w) PROVE WindowInv'
  <2>1. /\ Window!Becomes(Window!unmute(Window!Now)) \/ Window!Becomes(Window!mute(Window!Now))
        /\ UNCHANGED <<popout, room>>
    BY <1>4 DEF Window!onMuteToggle, Window!Rest
  <2> QED BY <1>1, <1>3, <2>1, MicHandled, HandledKept
<1>5. ASSUME NEW w \in Window!Wins, Window!onVideoToggle(w) PROVE WindowInv'
  <2>1. /\ \/ Window!Becomes(Window!stopVideo(Window!Now))
           \/ Window!Becomes([Window!Now EXCEPT !.c.camAsks = @ + 1])
        /\ UNCHANGED <<popout, room>>
    BY <1>5 DEF Window!onVideoToggle, Window!Rest
  <2> QED BY <1>1, <1>3, <2>1, VideoHandled, HandledKept
<1>6. ASSUME NEW w \in Window!Wins, Window!onRaiseHandToggle(w) PROVE WindowInv'
  <2>1. /\ Window!Becomes(Window!unraiseHand(Window!Now)) \/ Window!Becomes(Window!raiseHand(Window!Now))
        /\ UNCHANGED <<popout, room>>
    BY <1>6 DEF Window!onRaiseHandToggle, Window!Rest
  <2> QED BY <1>1, <1>3, <2>1, HandHandled, HandledKept
<1>7. CASE Window!handleKBShortcuts
  <2>1. /\ Window!Becomes(Window!unmute(Window!Now)) /\ UNCHANGED room
        /\ popout' = [popout EXCEPT !.ptt = TRUE]
    BY <1>7 DEF Window!handleKBShortcuts
  <2>2. DOMAIN popout' = PopoutFields /\ popout'.st = popout.st /\ popout'.track = popout.track
    BY <1>3, <2>1 DEF PopoutFields
  <2> QED BY <1>1, <1>3, <2>1, <2>2, MicHandled, HandledKept
<1>8. CASE Window!handleKeyUp
  <2>1. /\ Window!Becomes(Window!mute(Window!Now)) /\ UNCHANGED room
        /\ popout' = [popout EXCEPT !.ptt = FALSE]
    BY <1>8 DEF Window!handleKeyUp
  <2>2. DOMAIN popout' = PopoutFields /\ popout'.st = popout.st /\ popout'.track = popout.track
    BY <1>3, <2>1 DEF PopoutFields
  <2> QED BY <1>1, <1>3, <2>1, <2>2, MicHandled, HandledKept
<1>9. CASE Window!MicReady
  <2> DEFINE s == [Window!Now EXCEPT !.c.asks = @ - 1]
  <2>1. Whole(s) /\ Handled(Window!Now, s) BY <1>1, MicHandled
  <2>2. Window!Becomes(Window!Unmuted(s)) /\ UNCHANGED <<popout, room>>
    BY <1>9 DEF Window!MicReady, Window!Rest
  <2> HIDE DEF s
  <2>3. Handled(Window!Now, Window!Unmuted(s)) BY <2>1, MicHandled, HandledTwice
  <2> QED BY <1>3, <2>2, <2>3, HandledKept
<1>10. CASE Window!MicDenied
  <2>1. Window!Becomes([Window!Now EXCEPT !.c.asks = @ - 1]) /\ UNCHANGED <<popout, room>>
    BY <1>10 DEF Window!MicDenied, Window!Rest
  <2> QED BY <1>1, <1>3, <2>1, MicHandled, HandledKept
<1>11. CASE Window!CamReady
  <2>1. /\ Window!Becomes(Window!Sends([Window!Now EXCEPT !.c.camAsks = @ - 1, !.c.cam = TRUE,
                                                          !.v["widget"].cam = TRUE], "video_on"))
        /\ UNCHANGED <<popout, room>>
    BY <1>11 DEF Window!CamReady, Window!Rest
  <2> QED BY <1>1, <1>3, <2>1, VideoHandled, HandledKept
<1>12. CASE Window!TrackRemoved
  <2>1. /\ Window!Becomes(Window!Sends([Window!Now EXCEPT !.c.offs = @ - 1], "screen_off"))
        /\ UNCHANGED <<popout, room>>
    BY <1>12 DEF Window!TrackRemoved, Window!Rest
  <2> QED BY <1>1, <1>3, <2>1, VideoHandled, HandledKept
<1> QED BY <1>4, <1>5, <1>6, <1>7, <1>8, <1>9, <1>10, <1>11, <1>12

LEMMA ScreenKept ==
    ASSUME WindowInv, NEW w \in Window!Wins,
           \/ Window!onShareScreenToggle(w) \/ Window!shareScreen(w) \/ Window!PickCancelled(w)
           \/ Window!StreamAdded(w) \/ Window!CaptureEnds
    PROVE  WindowInv'
<1>1. Whole(Window!Now) /\ Window!Now.c = client BY NowWhole DEF Window!Now
<1>2. DOMAIN room = RoomFields /\ DOMAIN popout = PopoutFields /\ DOMAIN client = ClientFields BY DEF WindowInv
<1>3. CASE Window!onShareScreenToggle(w)
  <2>1. popout' = popout /\ DOMAIN room' = RoomFields /\ room'.twice = room.twice
    BY <1>2, <1>3 DEF Window!onShareScreenToggle, RoomFields
  <2>2. CASE Window!IsSharing(w)
    <3> DEFINE s == Window!unshareScreen(Window!Now)
    <3>1. Whole(s) /\ s.c.life = client.life /\ s.c.picks = client.picks /\ s.c.screen = "none"
      BY <1>1, Unshared
    <3>2. client' = [s EXCEPT !.v[w].stream = "none"].c
      BY <1>3, <2>2 DEF Window!onShareScreenToggle, Window!Becomes
    <3> HIDE DEF s
    <3>3. client' = s.c BY <3>1, <3>2 DEF Whole
    <3> QED BY <1>2, <2>1, <3>1, <3>3, CalmKept DEF Calm, Whole
  <2>3. CASE ~Window!IsSharing(w)
    <3>1. client' = [client EXCEPT !.picks = IF Window!SharerSeen(w) = "none" THEN @ \cup {w} ELSE @]
      BY <1>1, <1>3, <2>3 DEF Window!onShareScreenToggle, Window!Becomes, Whole
    <3>2. DOMAIN client' = ClientFields /\ client'.life = client.life /\ client'.screen = client.screen
          /\ client'.picks \subseteq client.picks \cup {w}
      BY <1>2, <3>1 DEF ClientFields
    <3>3. w = "pop" => popout.st = "open" BY <1>3 DEF Window!onShareScreenToggle, Window!Pressed, Window!Shown
    <3> QED BY <2>1, <3>2, <3>3 DEF WindowInv
  <2> QED BY <2>2, <2>3
<1>4. CASE Window!shareScreen(w)
  <2> DEFINE s == [Window!Now EXCEPT !.c.picks = @ \ {w}]
             t == Window!setScreenStream(s, w)
             taken == client.screen = "none"
  <2>1. /\ popout' = [popout EXCEPT !.track = IF w = "pop" THEN taken ELSE @]
        /\ room' = [room EXCEPT !.twice = @ \/ ~taken] /\ w \in client.picks
        /\ client' = [t EXCEPT !.c.sets = @ \cup {w}].c
    BY <1>4 DEF Window!shareScreen, Window!Becomes
  <2>2. Whole(s) /\ s.c.life = client.life /\ s.c.picks = client.picks \ {w} /\ s.c.screen = client.screen
    BY <1>1 DEF Whole, ClientFields
  <2> HIDE DEF s
  <2>3. Whole(t) /\ t.c.life = client.life /\ t.c.picks = client.picks \ {w}
        /\ t.c.screen \in {client.screen, w} /\ (client.screen # "none" => t.c.screen = client.screen)
    BY <2>2, SharedFrom
  <2> HIDE DEF t
  <2>4. DOMAIN client' = ClientFields /\ client'.life = client.life /\ client'.picks = client.picks \ {w}
        /\ client'.screen \in {client.screen, w} /\ (client.screen # "none" => client'.screen = client.screen)
    BY <2>1, <2>3 DEF Whole, ClientFields
  <2>5. DOMAIN popout' = PopoutFields /\ popout'.st = popout.st
        /\ (w = "pop" => popout'.track = taken) /\ (w # "pop" => popout'.track = popout.track)
    BY <1>2, <2>1 DEF PopoutFields
  <2>6. room.twice \in BOOLEAN BY DEF WindowInv
  <2>7. DOMAIN room' = RoomFields /\ room'.twice \in BOOLEAN /\ (room'.twice <=> room.twice \/ ~taken)
    BY <1>2, <2>1, <2>6 DEF RoomFields
  <2> QED BY <2>1, <2>4, <2>5, <2>7 DEF WindowInv
<1>5. CASE Window!PickCancelled(w)
  <2>1. client' = [client EXCEPT !.picks = @ \ {w}] /\ UNCHANGED <<popout, room>>
    BY <1>1, <1>5 DEF Window!PickCancelled, Window!Becomes, Window!Rest, Whole
  <2> QED BY <1>2, <2>1, CalmKept DEF Calm, ClientFields
<1>6. CASE Window!StreamAdded(w)
  <2>1. client' = [client EXCEPT !.sets = @ \ {w}] /\ popout' = popout
        /\ DOMAIN room' = RoomFields /\ room'.twice = room.twice
    BY <1>2, <1>6 DEF Window!StreamAdded, RoomFields
  <2> QED BY <1>2, <2>1, CalmKept DEF Calm, ClientFields
<1>7. CASE Window!CaptureEnds
  <2> DEFINE s == Window!unshareScreen(Window!Now)
  <2>1. Whole(s) /\ s.c.life = client.life /\ s.c.picks = client.picks /\ s.c.screen = "none"
    BY <1>1, Unshared
  <2>2. client' = s.c /\ UNCHANGED <<popout, room>>
    BY <1>7 DEF Window!CaptureEnds, Window!Becomes, Window!Rest
  <2> QED BY <1>2, <2>1, <2>2, CalmKept DEF Calm, Whole
<1> QED BY <1>3, <1>4, <1>5, <1>6, <1>7

LEMMA EventKept ==
    ASSUME WindowInv,
           \/ Window!connect \/ Window!Handle \/ Window!OtherShares \/ Window!RemoteTrack \/ Window!OtherStops
           \/ \E k \in {"host_mute", "host_lower_hand", "host_screen_off"} : Window!HostAsks(k)
           \/ \E w \in Window!Wins : Window!Receives(w)
    PROVE  WindowInv'
<1>1. Whole(Window!Now) /\ Window!Now.c = client BY NowWhole DEF Window!Now
<1>2. DOMAIN room = RoomFields /\ DOMAIN popout = PopoutFields /\ DOMAIN client = ClientFields BY DEF WindowInv
<1>3. Handled(Window!Now, Window!Now) BY DEF Handled
<1>4. CASE Window!connect
  <2> DEFINE s == [Window!Now EXCEPT !.c.life = "connected"]
  <2>1. Whole(s) /\ s.c.screen = client.screen /\ s.c.picks = client.picks /\ s.c.life = "connected"
    BY <1>1 DEF Whole, ClientFields
  <2>2. client' \in {s.c, Window!unmute(s).c} /\ UNCHANGED <<popout, room>> /\ client.life = "joined"
    BY <1>4 DEF Window!connect, Window!Becomes, Window!Rest
  <2> HIDE DEF s
  <2>3. Handled(s, Window!unmute(s)) BY <2>1, MicHandled
  <2>4. DOMAIN client' = ClientFields /\ client'.screen = client.screen /\ client'.picks = client.picks
        /\ client'.life = "connected"
    BY <2>1, <2>2, <2>3 DEF Handled, Whole
  <2> QED BY <1>2, <2>2, <2>4, CalmKept DEF Calm
<1>5. CASE Window!Handle
  <2>1. UNCHANGED <<client, popout>> /\ room' \in {room, [room EXCEPT !.refused = TRUE]}
    BY <1>5 DEF Window!Handle
  <2> QED BY <1>2, <2>1, CalmKept DEF Calm, RoomFields
<1>6. CASE Window!OtherShares BY <1>2, <1>6, CalmKept DEF Window!OtherShares, Calm
<1>7. CASE Window!RemoteTrack
  <2>1. DOMAIN client' = ClientFields /\ client'.life = client.life /\ client'.screen = client.screen
        /\ client'.picks = client.picks /\ popout' = popout
        /\ DOMAIN room' = RoomFields /\ room'.twice = room.twice
    BY <1>2, <1>7 DEF Window!RemoteTrack, ClientFields, RoomFields
  <2> QED BY <1>2, <2>1, CalmKept DEF Calm
<1>8. CASE Window!OtherStops
  <2>1. DOMAIN client' = ClientFields /\ client'.life = client.life /\ client'.screen = client.screen
        /\ client'.picks = client.picks /\ UNCHANGED <<popout, room>>
    BY <1>2, <1>8 DEF Window!OtherStops, ClientFields
  <2> QED BY <1>2, <2>1, CalmKept DEF Calm
<1>9. ASSUME NEW k, Window!HostAsks(k) PROVE WindowInv'
  BY <1>2, <1>9, CalmKept DEF Window!HostAsks, Calm
<1>10. ASSUME NEW w \in Window!Wins, Window!Receives(w) PROVE WindowInv'
  <2>1. PICK s : /\ Window!Becomes(s)
                 /\ \/ s \in {Window!mute(Window!Now), Window!unshareScreen(Window!Now), Window!unraiseHand(Window!Now)}
                    \/ \E v : s = [Window!Now EXCEPT !.v[w] = v]
    <3> DEFINE e == Head(down[w])
    <3>1. Window!Becomes(CASE e.k = "host_mute" -> Window!handleHostMute(Window!Now, w)
                           [] e.k = "host_screen_off" -> Window!handleHostScreenOff(Window!Now)
                           [] e.k = "host_lower_hand" -> Window!handleHostLowerHand(Window!Now)
                           [] e.k = "state" -> [Window!Now EXCEPT !.v[w] = Window!State(@, e.st)]
                           [] OTHER -> [Window!Now EXCEPT !.v[w] = Window!Flag(@, e.k)])
      BY <1>10 DEF Window!Receives
    <3> HIDE DEF e
    <3>2. CASE e.k = "host_mute" BY <3>1, <3>2 DEF Window!handleHostMute
    <3>3. CASE e.k = "host_screen_off" BY <3>1, <3>3 DEF Window!handleHostScreenOff
    <3>4. CASE e.k = "host_lower_hand" BY <3>1, <3>4 DEF Window!handleHostLowerHand
    <3>5. CASE e.k = "state"
      <4> DEFINE v == Window!State(Window!Now.v[w], e.st)
      <4>1. Window!Becomes([Window!Now EXCEPT !.v[w] = v]) BY <3>1, <3>5
      <4> HIDE DEF v
      <4> QED BY <4>1
    <3>6. CASE e.k \notin {"host_mute", "host_screen_off", "host_lower_hand", "state"}
      <4> DEFINE v == Window!Flag(Window!Now.v[w], e.k)
      <4>1. Window!Becomes([Window!Now EXCEPT !.v[w] = v]) BY <3>1, <3>6
      <4> HIDE DEF v
      <4> QED BY <4>1
    <3> QED BY <3>2, <3>3, <3>4, <3>5, <3>6
  <2>2. client' = s.c /\ UNCHANGED <<popout, room>> BY <1>10, <2>1 DEF Window!Receives, Window!Becomes
  <2>3. \/ Handled(Window!Now, s)
        \/ /\ Whole(s) /\ s.c.life = client.life /\ s.c.picks = client.picks
           /\ s.c.screen \in {client.screen, "none"}
    <3>1. \A v : s = [Window!Now EXCEPT !.v[w] = v] => Handled(Window!Now, s)
      BY <1>1 DEF Handled, Whole
    <3> QED BY <1>1, <2>1, <3>1, MicHandled, HandHandled, Unshared
  <2>4. DOMAIN client' = ClientFields /\ client'.life = client.life /\ client'.picks = client.picks
        /\ client'.screen \in {client.screen, "none"}
    BY <1>1, <2>2, <2>3 DEF Handled, Whole
  <2> QED BY <1>2, <2>2, <2>4, CalmKept DEF Calm
<1> QED BY <1>4, <1>5, <1>6, <1>7, <1>8, <1>9, <1>10

LEMMA PopoutKept ==
    ASSUME WindowInv,
           \/ Window!onExpandClick \/ Window!componentDidMount \/ Window!requestCallState
           \/ Window!onCloseViewClick \/ Window!Closed
           \/ \E w \in Window!Wins : Window!onDisconnectClick(w) \/ Window!LeaveCallMenu(w)
    PROVE  WindowInv'
<1>1. Whole(Window!Now) /\ Window!Now.c = client BY NowWhole DEF Window!Now
<1>2. DOMAIN room = RoomFields /\ DOMAIN popout = PopoutFields /\ DOMAIN client = ClientFields BY DEF WindowInv
<1>3. CASE Window!onExpandClick
  <2>1. popout.st = "none" /\ client.life # "closed" /\ UNCHANGED <<client, room>>
        /\ popout' = [Window!NoWindow EXCEPT !.st = "loading"]
    BY <1>3 DEF Window!onExpandClick, Window!Shown
  <2>2. DOMAIN popout' = PopoutFields BY <2>1 DEF Window!NoWindow, PopoutFields
  <2> QED BY <2>1, <2>2 DEF WindowInv
<1>4. CASE Window!componentDidMount
  <2>1. popout.st = "loading" /\ UNCHANGED <<client, room>>
        /\ popout' = [popout EXCEPT !.st = IF client.life = "closed" THEN "orphan" ELSE "open",
                                    !.asked = client.life # "closed"]
    BY <1>4 DEF Window!componentDidMount
  <2>2. DOMAIN popout' = PopoutFields /\ popout'.st = IF client.life = "closed" THEN "orphan" ELSE "open"
    BY <1>2, <2>1 DEF PopoutFields
  <2> QED BY <2>1, <2>2 DEF WindowInv
<1>5. CASE Window!requestCallState
  <2>1. UNCHANGED <<client, room>> /\ popout' = [popout EXCEPT !.asked = FALSE]
    BY <1>5 DEF Window!requestCallState
  <2> QED BY <1>2, <2>1, CalmKept DEF Calm, PopoutFields
<1>6. CASE Window!onCloseViewClick
  <2> DEFINE s == Window!beforeunload(Window!Now)
  <2>1. /\ client' = [s EXCEPT !.c.picks = @ \ {"pop"}, !.c.sets = @ \ {"pop"}, !.v["pop"] = Window!Blank].c
        /\ popout' = Window!NoWindow /\ UNCHANGED room
    BY <1>6 DEF Window!onCloseViewClick, Window!Becomes
  <2>2. Whole(s) /\ s.c.life = client.life /\ s.c.picks = client.picks
        /\ s.c.screen = IF client.screen = "pop" /\ popout.track THEN "none" ELSE client.screen
    BY <1>1, Unshared DEF Window!beforeunload
  <2> HIDE DEF s
  <2>3. DOMAIN client' = ClientFields /\ client'.life = client.life /\ client'.screen = s.c.screen
        /\ client'.picks = client.picks \ {"pop"}
    BY <2>1, <2>2 DEF Whole, ClientFields
  <2>4. DOMAIN popout' = PopoutFields /\ popout'.st = "none" BY <2>1 DEF Window!NoWindow, PopoutFields
  <2> QED BY <2>1, <2>2, <2>3, <2>4 DEF WindowInv
<1>7. ASSUME Window!disconnect(TRUE) \/ Window!disconnect(FALSE) PROVE WindowInv'
  <2> DEFINE yes == TRUE
             no == FALSE
  <2>1. yes \in BOOLEAN /\ no \in BOOLEAN OBVIOUS
  <2>2. Window!disconnect(yes) \/ Window!disconnect(no) BY <1>7, Zenon
  <2> HIDE DEF yes, no
  <2> QED BY <2>1, <2>2, DisconnectKeeps
<1>8. ASSUME NEW w \in Window!Wins, Window!disconnect(w = "widget") PROVE WindowInv'
  <2> DEFINE closing == w = "widget"
  <2>1. closing \in BOOLEAN OBVIOUS
  <2>2. Window!disconnect(closing) BY <1>8, Zenon
  <2> HIDE DEF closing
  <2> QED BY <2>1, <2>2, DisconnectKeeps
<1>9. CASE Window!Closed
  <2>1. Window!disconnect(FALSE) BY <1>9, Zenon DEF Window!Closed
  <2> QED BY <1>7, <2>1, Zenon
<1>10. ASSUME NEW w \in Window!Wins, Window!onDisconnectClick(w) PROVE WindowInv'
  <2>1. Window!disconnect(w = "widget") BY <1>10, Zenon DEF Window!onDisconnectClick
  <2> QED BY <1>8, <2>1, Zenon
<1>11. ASSUME NEW w \in Window!Wins, Window!LeaveCallMenu(w) PROVE WindowInv'
  <2>1. Window!disconnect(w = "widget") \/ Window!disconnect(FALSE)
    BY <1>11, Zenon DEF Window!LeaveCallMenu
  <2> QED BY <1>7, <1>8, <2>1, Zenon
<1> QED BY <1>3, <1>4, <1>5, <1>6, <1>9, <1>10, <1>11

LEMMA MenuKept ==
    ASSUME WindowInv, UNCHANGED <<client, popout>>,
           \/ UNCHANGED room
           \/ \E S : room' = [room EXCEPT !.others = S]
           \/ \E h : room' = [room EXCEPT !.host = h]
    PROVE  WindowInv'
<1>1. DOMAIN room' = RoomFields /\ room'.twice = room.twice BY DEF WindowInv, RoomFields
<1> QED BY <1>1, CalmKept DEF Calm, WindowInv

LEMMA MenusKept ==
    ASSUME WindowInv,
           \/ \E w \in Window!Wins : \/ Window!onLeaveMenuOpen(w) \/ Window!onRemove(w)
                                     \/ Window!onRemoveConfirm(w) \/ Window!onRemoveCancel(w)
                                     \/ \E p \in Others : Window!onOpenChange(w, p)
           \/ Window!onMenuClick \/ Window!onParticipantsButtonClick \/ Window!keyboardClose
           \/ Window!onDeviceClick \/ \E k \in {"audioinput", "audiooutput", "videoinput"} : Window!renderDevices(k)
           \/ Window!onParticipantsListToggle \/ Window!onLiveCaptionsToggle \/ Window!onSwitchViewClick
           \/ Window!toggleReactions \/ Window!toggleShowPicker \/ Window!handleUserPicksEmoji
           \/ Window!closeOnEscape
    PROVE  WindowInv'
<1>1. UNCHANGED <<client, popout>>
  BY DEF Window!onLeaveMenuOpen, Window!onRemove, Window!onRemoveConfirm, Window!onRemoveCancel,
         Window!onOpenChange, Window!onMenuClick, Window!onParticipantsButtonClick, Window!keyboardClose,
         Window!onDeviceClick, Window!renderDevices, Window!onParticipantsListToggle,
         Window!onLiveCaptionsToggle, Window!onSwitchViewClick, Window!toggleReactions,
         Window!toggleShowPicker, Window!handleUserPicksEmoji, Window!closeOnEscape, Window!Menus
<1>2. UNCHANGED room \/ \E S : room' = [room EXCEPT !.others = S]
  <2>1. ASSUME NEW w \in Window!Wins, Window!onRemoveConfirm(w)
        PROVE  \E S : room' = [room EXCEPT !.others = S]
    <3> DEFINE S == IF Window!useHostControls THEN room.others \ {ui[w].del} ELSE room.others
    <3>1. room' = [room EXCEPT !.others = S] BY <2>1 DEF Window!onRemoveConfirm
    <3> HIDE DEF S
    <3> QED BY <3>1
  <2> QED
    BY <2>1 DEF Window!onLeaveMenuOpen, Window!onRemove, Window!onRemoveCancel,
         Window!onOpenChange, Window!onMenuClick, Window!onParticipantsButtonClick, Window!keyboardClose,
         Window!onDeviceClick, Window!renderDevices, Window!onParticipantsListToggle,
         Window!onLiveCaptionsToggle, Window!onSwitchViewClick, Window!toggleReactions,
         Window!toggleShowPicker, Window!handleUserPicksEmoji, Window!closeOnEscape, Window!Set
<1> QED BY <1>1, <1>2, MenuKept

LEMMA OthersKept ==
    ASSUME WindowInv, Window!HostChanges \/ \E p \in Others : Window!OtherLeaves(p)
    PROVE  WindowInv'
<1>1. CASE Window!HostChanges
  <2> DEFINE h == ~room.host
  <2>1. room' = [room EXCEPT !.host = h] /\ UNCHANGED <<client, popout>>
    BY <1>1 DEF Window!HostChanges, Window!Menus
  <2> HIDE DEF h
  <2> QED BY <2>1, MenuKept
<1>2. ASSUME NEW p \in Others, Window!OtherLeaves(p) PROVE WindowInv'
  <2> DEFINE S == room.others \ {p}
  <2>1. room' = [room EXCEPT !.others = S] /\ UNCHANGED <<client, popout>>
    BY <1>2 DEF Window!OtherLeaves, Window!Menus
  <2> HIDE DEF S
  <2> QED BY <2>1, MenuKept
<1> QED BY <1>1, <1>2

LEMMA WindowInvInit == WebInit => WindowInv
<1> SUFFICES ASSUME WebInit PROVE WindowInv OBVIOUS
<1>1. \E focus, dm, admin, mic : Window!WindowsStart(focus, dm, admin, mic)
  BY DEF WebInit, Starts, Window!WindowsInit
<1>2. PICK focus, dm, admin, mic : Window!WindowsStart(focus, dm, admin, mic) BY <1>1
<1>3. DOMAIN client = ClientFields /\ client.life = "joined" /\ client.picks = {} /\ client.screen = "none"
  BY <1>2 DEF Window!WindowsStart, ClientFields
<1>4. DOMAIN room = RoomFields /\ room.twice = FALSE BY <1>2 DEF Window!WindowsStart, RoomFields
<1>5. DOMAIN popout = PopoutFields BY <1>2 DEF Window!WindowsStart, Window!NoWindow, PopoutFields
<1> QED BY <1>3, <1>4, <1>5 DEF WindowInv

LEMMA WindowInvNext ==
    WindowInv /\ [WebNext]_<<part, adminVars, ringVars, mediaVars, entryVars, promptVars, windowVars>> => WindowInv'
<1>1. ASSUME WindowInv, UNCHANGED windowVars PROVE WindowInv' BY <1>1 DEF windowVars, WindowInv
<1>2. ASSUME WindowInv, Window!WindowsNext PROVE WindowInv'
  BY <1>2, TalkKept, ScreenKept, EventKept, PopoutKept, MenusKept, OthersKept
  DEF Window!WindowsNext, Window!Wins
<1> QED BY <1>1, <1>2 DEF WebNext, AdminStep, RingStep, MediaStep, EntryStep, PromptStep, WindowStep

\* A call that ends leaves no pop-out that had registered with the client, and
\* a pop-out that closes leaves no screen shared from it (the listeners of
\* close and beforeunload of the widget, component.tsx), unless a second pick
\* overwrote the track the widget compares.
THEOREM PopoutEndsWithCall == WebSpec => []PopoutEnds
<1>1. WindowInv => PopoutEnds BY DEF WindowInv, PopoutEnds, Window!PopoutEnds
<1> QED BY <1>1, WindowInvInit, WindowInvNext, PTL DEF WebSpec

-----------------------------------------------------------------------------
(* Both windows of a call show what the client does *)

\* The flags of a session, and the messages that set and clear one.
SessFlags == {"mic", "cam", "hand"}
OnMsg(f) == CASE f = "mic" -> "unmute" [] f = "cam" -> "video_on" [] f = "hand" -> "raise_hand"
OffMsg(f) == CASE f = "mic" -> "mute" [] f = "cam" -> "video_off" [] f = "hand" -> "unraise_hand"
FlagMsgs(f) == {OnMsg(f), OffMsg(f)}
FlagMsg(f, b) == IF b THEN OnMsg(f) ELSE OffMsg(f)

UpMsgs ==
    {"mute", "unmute", "video_on", "video_off", "raise_hand", "unraise_hand", "screen_on", "screen_off"}
HostAsked == {"host_mute", "host_lower_hand", "host_screen_off"}
DownKinds == UpMsgs \cup HostAsked \cup {"other_on", "state"}
Sharers == {"none", "me", "other"}
Kepts == [mic : BOOLEAN, cam : BOOLEAN, hand : BOOLEAN, sharer : Sharers]
DownEvts == [k : DownKinds, st : Kepts]
WinViews ==
    [sess : BOOLEAN, mic : BOOLEAN, cam : BOOLEAN, hand : BOOLEAN, sharer : Sharers,
     stream : {"none", "local", "remote"}]

\* The last member of K in the queue q is one of G; if there is none, p.
EndsIn(q, K, G, p) ==
    /\ \A i \in 1 .. Len(q) : q[i] \in K /\ (\A j \in i + 1 .. Len(q) : q[j] \notin K) => q[i] \in G
    /\ (\A i \in 1 .. Len(q) : q[i] \notin K) => p
HasOne(q, K) == \E i \in 1 .. Len(q) : q[i] \in K
CountOf(q, x) == Cardinality({i \in 1 .. Len(q) : q[i] = x})

\* The events that set flag f, and those that set it to b; likewise the sharer.
FlagEvts(f) == {e \in DownEvts : e.k \in FlagMsgs(f) \cup {"state"}}
FlagSaid(e, f) == IF e.k = "state" THEN e.st[f] ELSE e.k = OnMsg(f)
FlagIs(f, b) == {e \in FlagEvts(f) : FlagSaid(e, f) = b}
ShareEvts == {e \in DownEvts : e.k \in {"screen_on", "screen_off", "other_on", "state"}}
SharerSaid(e) ==
    CASE e.k = "state" -> e.st.sharer [] e.k = "screen_on" -> "me" [] e.k = "other_on" -> "other"
      [] OTHER -> "none"
SharerIs(x) == {e \in ShareEvts : SharerSaid(e) = x}

\* What the client and the server have, the last message about it makes equal.
Mirrored(c, kp, u) ==
    /\ EndsIn(u, FlagMsgs("mic"), {FlagMsg("mic", c.mic = "on")}, kp.mic = (c.mic = "on"))
    /\ EndsIn(u, FlagMsgs("cam"), {FlagMsg("cam", c.cam)}, kp.cam = c.cam)

\* What the server keeps and a window shows, the last event about it makes
\* equal.  The widget is ahead while a message is on its way, a pop-out that has
\* not asked for the state knows nothing.
Ahead(w, u, po, f) == (w = "widget" /\ HasOne(u, FlagMsgs(f))) \/ (w = "pop" /\ po.asked)
Told(w, kp, u, dn, vw, po) ==
    /\ \A f \in SessFlags : EndsIn(dn[w], FlagEvts(f), FlagIs(f, kp[f]), vw[w][f] = kp[f] \/ Ahead(w, u, po, f))
    /\ EndsIn(dn[w], ShareEvts, SharerIs(kp.sharer), vw[w].sharer = kp.sharer \/ (w = "pop" /\ po.asked))

\* Unless the server refused one, the messages about the screen and the tracks
\* that are being removed make up for what the two have.
One(b) == IF b THEN 1 ELSE 0
Balanced(c, kp, u) ==
    One(kp.sharer = "me") + CountOf(u, "screen_on") = One(c.screen # "none") + CountOf(u, "screen_off") + c.offs

\* A window shows the own stream while there is one, and otherwise the other's.
Streaming(w, c, u, vw, r) ==
    ~r.stale =>
        /\ c.screen # "none" => vw[w].stream = "local"
        /\ c.remote /\ ~r.refused => vw[w].stream = "remote" \/ HasOne(u, {"screen_on"})

AgreeTypes(c, kp, u, dn, vw, po) ==
    /\ c.mic \in {"none", "off", "on"} /\ c.cam \in BOOLEAN /\ c.offs \in Nat
    /\ kp \in Kepts /\ u \in Seq(UpMsgs) /\ dn \in [Window!Wins -> Seq(DownEvts)]
    /\ vw \in [Window!Wins -> WinViews]
    /\ po.st # "open" => dn["pop"] = <<>>

Agreeing(c, kp, u, dn, vw, po, r) ==
    /\ AgreeTypes(c, kp, u, dn, vw, po)
    /\ Mirrored(c, kp, u)
    /\ \A w \in Window!Wins : (w = "pop" => po.st = "open") =>
          Told(w, kp, u, dn, vw, po) /\ Streaming(w, c, u, vw, r)
    /\ ~r.refused => Balanced(c, kp, u)
    /\ c.remote => kp.sharer = "other"
AgreeInv == client.life # "closed" => Agreeing(client, kept, up, down, view, popout, room)

LEMMA AppendAt ==
    ASSUME NEW S, NEW q \in Seq(S), NEW e \in S
    PROVE  /\ Append(q, e) \in Seq(S) /\ Len(q) \in Nat /\ Len(Append(q, e)) = Len(q) + 1
           /\ \A i \in 1 .. Len(q) : Append(q, e)[i] = q[i]
           /\ Append(q, e)[Len(q) + 1] = e
OBVIOUS

LEMMA TailAt ==
    ASSUME NEW S, NEW q \in Seq(S), q # <<>>
    PROVE  /\ Tail(q) \in Seq(S) /\ Head(q) = q[1] /\ Head(q) \in S
           /\ Len(q) \in Nat \ {0} /\ Len(Tail(q)) = Len(q) - 1
           /\ \A i \in 1 .. Len(q) - 1 : Tail(q)[i] = q[i + 1]
OBVIOUS

LEMMA EndsAppended ==
    ASSUME NEW S, NEW q \in Seq(S), NEW e \in S, NEW K, NEW G, NEW p, e \in G
    PROVE  e \in K => EndsIn(Append(q, e), K, G, p)
<1>1. SUFFICES ASSUME e \in K PROVE EndsIn(Append(q, e), K, G, p) OBVIOUS
<1> DEFINE r == Append(q, e)
           len == Len(q)
<1>2. len \in Nat /\ Len(r) = len + 1 /\ r[len + 1] = e BY AppendAt
<1> HIDE DEF r, len
<1>3. ASSUME NEW i \in 1 .. Len(r), r[i] \in K, \A j \in i + 1 .. Len(r) : r[j] \notin K PROVE r[i] \in G
  <2>1. CASE i = len + 1 BY <1>2, <2>1
  <2>2. CASE i # len + 1
    <3>1. len + 1 \in i + 1 .. Len(r) BY <1>2, <2>2
    <3> QED BY <1>1, <1>2, <1>3, <3>1
  <2> QED BY <2>1, <2>2
<1>4. len + 1 \in 1 .. Len(r) BY <1>2
<1>5. EndsIn(r, K, G, p) BY <1>1, <1>2, <1>3, <1>4 DEF EndsIn
<1> QED BY <1>5 DEF r

LEMMA EndsPassed ==
    ASSUME NEW S, NEW q \in Seq(S), NEW e \in S, NEW K, NEW G, NEW p, EndsIn(q, K, G, p), e \notin K
    PROVE  EndsIn(Append(q, e), K, G, p)
<1> DEFINE r == Append(q, e)
           len == Len(q)
<1>1. len \in Nat /\ Len(r) = len + 1 /\ r[len + 1] = e /\ \A i \in 1 .. len : r[i] = q[i] BY AppendAt
<1>2. /\ \A i \in 1 .. len : q[i] \in K /\ (\A j \in i + 1 .. len : q[j] \notin K) => q[i] \in G
      /\ (\A i \in 1 .. len : q[i] \notin K) => p
  BY DEF EndsIn
<1> HIDE DEF r, len
<1>3. ASSUME NEW i \in 1 .. Len(r), r[i] \in K, \A j \in i + 1 .. Len(r) : r[j] \notin K PROVE r[i] \in G
  <2>1. i \in 1 .. len BY <1>1, <1>3
  <2>2. \A j \in i + 1 .. len : q[j] \notin K
    <3> SUFFICES ASSUME NEW j \in i + 1 .. len PROVE q[j] \notin K OBVIOUS
    <3>1. j \in 1 .. len /\ j \in i + 1 .. Len(r) BY <1>1, <2>1
    <3> QED BY <1>1, <1>3, <3>1
  <2> QED BY <1>1, <1>2, <1>3, <2>1, <2>2
<1>4. ASSUME \A i \in 1 .. Len(r) : r[i] \notin K PROVE p
  <2>1. \A i \in 1 .. len : q[i] \notin K
    <3> SUFFICES ASSUME NEW i \in 1 .. len PROVE q[i] \notin K OBVIOUS
    <3>1. i \in 1 .. Len(r) BY <1>1
    <3> QED BY <1>1, <1>4, <3>1
  <2> QED BY <1>2, <2>1
<1>5. EndsIn(r, K, G, p) BY <1>3, <1>4 DEF EndsIn
<1> QED BY <1>5 DEF r

LEMMA EndsTail ==
    ASSUME NEW S, NEW q \in Seq(S), q # <<>>, NEW K, NEW G, NEW p, NEW r,
           EndsIn(q, K, G, p),
           Head(q) \in K => (Head(q) \in G => r),
           Head(q) \notin K => (p => r)
    PROVE  EndsIn(Tail(q), K, G, r)
<1> DEFINE t == Tail(q)
           len == Len(q)
<1>1. len \in Nat \ {0} /\ Len(t) = len - 1 /\ Head(q) = q[1] /\ \A i \in 1 .. len - 1 : t[i] = q[i + 1]
  BY TailAt
<1>2. /\ \A i \in 1 .. len : q[i] \in K /\ (\A j \in i + 1 .. len : q[j] \notin K) => q[i] \in G
      /\ (\A i \in 1 .. len : q[i] \notin K) => p
  BY DEF EndsIn
<1> HIDE DEF t, len
<1>3. ASSUME NEW i \in 1 .. Len(t), t[i] \in K, \A j \in i + 1 .. Len(t) : t[j] \notin K PROVE t[i] \in G
  <2>1. i \in 1 .. len - 1 /\ i + 1 \in 1 .. len /\ t[i] = q[i + 1] BY <1>1, <1>3
  <2>2. \A j \in (i + 1) + 1 .. len : q[j] \notin K
    <3> SUFFICES ASSUME NEW j \in (i + 1) + 1 .. len PROVE q[j] \notin K OBVIOUS
    <3> DEFINE h == j - 1
    <3>1. h \in 1 .. len - 1 /\ h \in i + 1 .. Len(t) /\ h + 1 = j BY <1>1, <2>1
    <3> HIDE DEF h
    <3> QED BY <1>1, <1>3, <3>1
  <2> QED BY <1>2, <1>3, <2>1, <2>2
<1>4. ASSUME \A i \in 1 .. Len(t) : t[i] \notin K PROVE r
  <2>1. \A j \in 2 .. len : q[j] \notin K
    <3> SUFFICES ASSUME NEW j \in 2 .. len PROVE q[j] \notin K OBVIOUS
    <3> DEFINE h == j - 1
    <3>1. h \in 1 .. len - 1 /\ h + 1 = j BY <1>1
    <3>2. h \in 1 .. Len(t) BY <1>1, <3>1
    <3> HIDE DEF h
    <3> QED BY <1>1, <1>4, <3>1, <3>2
  <2>2. CASE q[1] \in K
    <3>1. 1 \in 1 .. len /\ 1 + 1 = 2 BY <1>1
    <3>2. q[1] \in G BY <1>2, <2>1, <2>2, <3>1
    <3> QED BY <1>1, <2>2, <3>2
  <2>3. CASE q[1] \notin K
    <3>1. \A i \in 1 .. len : q[i] \notin K
      <4> SUFFICES ASSUME NEW i \in 1 .. len PROVE q[i] \notin K OBVIOUS
      <4>1. i = 1 \/ i \in 2 .. len BY <1>1
      <4> QED BY <2>1, <2>3, <4>1
    <3> QED BY <1>1, <1>2, <2>3, <3>1
  <2> QED BY <2>2, <2>3
<1>5. EndsIn(t, K, G, r) BY <1>3, <1>4 DEF EndsIn
<1> QED BY <1>5 DEF t

LEMMA EndsEmpty ==
    ASSUME NEW K, NEW G, NEW p PROVE EndsIn(<<>>, K, G, p) <=> p
BY DEF EndsIn

LEMMA EndsWeaker ==
    ASSUME NEW q, NEW K, NEW G, NEW p, NEW r, EndsIn(q, K, G, p), p => r PROVE EndsIn(q, K, G, r)
BY DEF EndsIn

LEMMA HasAppended ==
    ASSUME NEW S, NEW q \in Seq(S), NEW e \in S, NEW K
    PROVE  HasOne(Append(q, e), K) <=> HasOne(q, K) \/ e \in K
<1> DEFINE r == Append(q, e)
           len == Len(q)
<1>1. len \in Nat /\ Len(r) = len + 1 /\ r[len + 1] = e /\ \A i \in 1 .. len : r[i] = q[i] BY AppendAt
<1>2. HasOne(q, K) <=> \E i \in 1 .. len : q[i] \in K BY DEF HasOne
<1> HIDE DEF r, len
<1>3. HasOne(r, K) <=> HasOne(q, K) \/ e \in K
  <2>1. 1 .. Len(r) = 1 .. len \cup {len + 1} BY <1>1
  <2> QED BY <1>1, <1>2, <2>1 DEF HasOne
<1> QED BY <1>3 DEF r

LEMMA HasTail ==
    ASSUME NEW S, NEW q \in Seq(S), q # <<>>, NEW K
    PROVE  /\ HasOne(q, K) => Head(q) \in K \/ HasOne(Tail(q), K)
           /\ HasOne(Tail(q), K) => HasOne(q, K)
<1> DEFINE t == Tail(q)
           len == Len(q)
<1>1. len \in Nat \ {0} /\ Len(t) = len - 1 /\ Head(q) = q[1] /\ \A i \in 1 .. len - 1 : t[i] = q[i + 1]
  BY TailAt
<1>2. HasOne(q, K) <=> \E i \in 1 .. len : q[i] \in K BY DEF HasOne
<1> HIDE DEF t, len
<1>3. ASSUME NEW i \in 1 .. len, q[i] \in K PROVE Head(q) \in K \/ HasOne(t, K)
  <2>1. CASE i = 1 BY <1>1, <1>3, <2>1
  <2>2. CASE i # 1
    <3> DEFINE h == i - 1
    <3>1. h \in 1 .. len - 1 /\ h + 1 = i /\ h \in 1 .. Len(t) BY <1>1, <2>2
    <3> HIDE DEF h
    <3> QED BY <1>1, <1>3, <3>1 DEF HasOne
  <2> QED BY <2>1, <2>2
<1>4. ASSUME NEW i \in 1 .. Len(t), t[i] \in K PROVE HasOne(q, K)
  <2>1. i \in 1 .. len - 1 /\ i + 1 \in 1 .. len BY <1>1
  <2> QED BY <1>1, <1>2, <1>4, <2>1
<1>5. (HasOne(q, K) => Head(q) \in K \/ HasOne(t, K)) /\ (HasOne(t, K) => HasOne(q, K))
  BY <1>2, <1>3, <1>4 DEF HasOne
<1> QED BY <1>5 DEF t

LEMMA HasEmpty == ASSUME NEW K PROVE ~HasOne(<<>>, K) BY DEF HasOne

LEMMA CountsAreNat ==
    ASSUME NEW S, NEW q \in Seq(S), NEW x
    PROVE  IsFiniteSet({i \in 1 .. Len(q) : q[i] = x}) /\ CountOf(q, x) \in Nat
<1>1. Len(q) \in Nat /\ 1 \in Int OBVIOUS
<1>2. IsFiniteSet(1 .. Len(q)) BY <1>1, FS_Interval
<1>3. {i \in 1 .. Len(q) : q[i] = x} \subseteq 1 .. Len(q) OBVIOUS
<1>4. IsFiniteSet({i \in 1 .. Len(q) : q[i] = x}) BY <1>2, <1>3, FS_Subset
<1> QED BY <1>4, FS_CardinalityType DEF CountOf

LEMMA CountAppended ==
    ASSUME NEW S, NEW q \in Seq(S), NEW e \in S, NEW x
    PROVE  CountOf(Append(q, e), x) = CountOf(q, x) + One(e = x)
<1> DEFINE r == Append(q, e)
           len == Len(q)
           A == {i \in 1 .. len : q[i] = x}
           B == {i \in 1 .. Len(r) : r[i] = x}
<1>1. len \in Nat /\ Len(r) = len + 1 /\ r[len + 1] = e /\ \A i \in 1 .. len : r[i] = q[i] BY AppendAt
<1>2. IsFiniteSet(A) /\ Cardinality(A) \in Nat BY CountsAreNat DEF CountOf
<1>3. B = IF e = x THEN A \cup {len + 1} ELSE A
  <2> HIDE DEF r, len
  <2>1. 1 .. Len(r) = 1 .. len \cup {len + 1} BY <1>1
  <2> QED BY <1>1, <2>1
<1>4. len + 1 \notin A BY <1>1
<1> HIDE DEF A, len
<1>5. e = x => Cardinality(B) = Cardinality(A) + 1
  <2>1. Cardinality(A \cup {len + 1}) = Cardinality(A) + 1 BY <1>2, <1>4, FS_AddElement
  <2> QED BY <1>3, <2>1
<1>6. e # x => Cardinality(B) = Cardinality(A) BY <1>3
<1>7. CountOf(r, x) = Cardinality(B) /\ CountOf(q, x) = Cardinality(A) BY DEF CountOf, A, len
<1> HIDE DEF B, r
<1>8. CountOf(r, x) = CountOf(q, x) + One(e = x) BY <1>2, <1>5, <1>6, <1>7 DEF One
<1> QED BY <1>8 DEF r

LEMMA CountTail ==
    ASSUME NEW S, NEW q \in Seq(S), q # <<>>, NEW x
    PROVE  CountOf(q, x) = CountOf(Tail(q), x) + One(Head(q) = x)
<1> DEFINE t == Tail(q)
           len == Len(q)
           A == {i \in 1 .. len : q[i] = x}
           B == {i \in 1 .. Len(t) : t[i] = x}
           C == A \ {1}
           f == [i \in B |-> i + 1]
<1>1. len \in Nat \ {0} /\ Len(t) = len - 1 /\ Head(q) = q[1] /\ \A i \in 1 .. len - 1 : t[i] = q[i + 1]
  BY TailAt
<1>2. t \in Seq(S) BY TailAt
<1>3. IsFiniteSet(A) /\ Cardinality(A) \in Nat BY CountsAreNat DEF CountOf
<1>4. IsFiniteSet(B) /\ Cardinality(B) \in Nat BY <1>2, CountsAreNat DEF CountOf
<1>5. CountOf(q, x) = Cardinality(A) /\ CountOf(t, x) = Cardinality(B) BY DEF CountOf
<1> HIDE DEF t, len
<1>6. f \in Bijection(B, C)
  <2>1. \A i \in B : i \in 1 .. len - 1 /\ i + 1 \in 1 .. len /\ i + 1 # 1 /\ q[i + 1] = x BY <1>1
  <2>2. f \in [B -> C] BY <2>1
  <2>3. \A a, b \in B : f[a] = f[b] => a = b BY <2>1
  <2>4. \A c \in C : \E b \in B : f[b] = c
    <3> SUFFICES ASSUME NEW c \in C PROVE \E b \in B : f[b] = c OBVIOUS
    <3> DEFINE b == c - 1
    <3>1. c \in 1 .. len /\ c # 1 /\ q[c] = x OBVIOUS
    <3>2. b \in 1 .. len - 1 /\ b + 1 = c BY <1>1, <3>1
    <3> HIDE DEF b
    <3>3. b \in B BY <1>1, <3>1, <3>2
    <3> QED BY <3>2, <3>3
  <2> HIDE DEF f, B, C
  <2> QED BY <2>2, <2>3, <2>4, Fun_IsBij
<1>7. IsFiniteSet(C) BY <1>3, FS_Subset
<1> HIDE DEF f
<1>8. Cardinality(B) = Cardinality(C)
  <2> HIDE DEF B, C
  <2> QED BY <1>4, <1>6, FS_Bijection DEF ExistsBijection
<1>9. Cardinality(C) = Cardinality(A) - One(1 \in A)
  <2> HIDE DEF A
  <2>1. Cardinality(A \ {1}) = IF 1 \in A THEN Cardinality(A) - 1 ELSE Cardinality(A)
    BY <1>3, FS_RemoveElement
  <2> QED BY <1>3, <2>1 DEF One
<1>10. 1 \in A <=> Head(q) = x BY <1>1
<1> HIDE DEF A, B, C
<1>11. CountOf(q, x) = CountOf(t, x) + One(Head(q) = x)
  BY <1>3, <1>4, <1>5, <1>8, <1>9, <1>10 DEF One
<1> QED BY <1>11 DEF t

LEMMA CountedHas ==
    ASSUME NEW S, NEW q \in Seq(S), NEW x, CountOf(q, x) # 0 PROVE HasOne(q, {x})
<1>1. ASSUME ~HasOne(q, {x}) PROVE FALSE
  <2>1. {i \in 1 .. Len(q) : q[i] = x} = {} BY <1>1 DEF HasOne
  <2> QED BY <2>1, FS_EmptySet DEF CountOf
<1> QED BY <1>1

LEMMA CountEmpty == ASSUME NEW x PROVE CountOf(<<>>, x) = 0
<1>1. {i \in 1 .. Len(<<>>) : <<>>[i] = x} = {} OBVIOUS
<1> QED BY <1>1, FS_EmptySet DEF CountOf

LEMMA FlagNames ==
    ASSUME NEW f \in SessFlags, NEW b \in BOOLEAN
    PROVE  /\ FlagMsg(f, b) \in UpMsgs /\ FlagMsg(f, b) \in FlagMsgs(f)
           /\ FlagMsg(f, b) \notin {"screen_on", "screen_off"}
           /\ \A g \in SessFlags : g # f => FlagMsg(f, b) \notin FlagMsgs(g)
BY DEF SessFlags, FlagMsg, FlagMsgs, OnMsg, OffMsg, UpMsgs

LEMMA ViewFields ==
    ASSUME NEW v \in WinViews
    PROVE  /\ \A f \in SessFlags : v[f] \in BOOLEAN
           /\ v.sharer \in Sharers /\ v.stream \in {"none", "local", "remote"} /\ v.sess \in BOOLEAN
BY DEF WinViews, SessFlags

LEMMA ViewFlagged ==
    ASSUME NEW v \in WinViews, NEW f \in SessFlags, NEW b \in BOOLEAN
    PROVE  /\ [v EXCEPT ![f] = b] \in WinViews
           /\ \A g \in SessFlags : [v EXCEPT ![f] = b][g] = IF g = f THEN b ELSE v[g]
           /\ [v EXCEPT ![f] = b].sharer = v.sharer /\ [v EXCEPT ![f] = b].stream = v.stream
<1>1. CASE f = "mic" BY <1>1 DEF WinViews, SessFlags
<1>2. CASE f = "cam" BY <1>2 DEF WinViews, SessFlags
<1>3. CASE f = "hand" BY <1>3 DEF WinViews, SessFlags
<1> QED BY <1>1, <1>2, <1>3 DEF SessFlags

LEMMA ViewStreamed ==
    ASSUME NEW v \in WinViews, NEW x \in {"none", "local", "remote"}, NEW v2, v2 = [v EXCEPT !.stream = x]
    PROVE  v2 \in WinViews /\ (\A g \in SessFlags : v2[g] = v[g]) /\ v2.sharer = v.sharer /\ v2.stream = x
BY DEF WinViews, SessFlags

\* What a window was told survives what leaves its view and the queue alone.
LEMMA ToldKept ==
    ASSUME NEW w \in Window!Wins, NEW kp, NEW u, NEW u2, NEW dn, NEW vw, NEW vw2, NEW po,
           Told(w, kp, u, dn, vw, po),
           \A f \in SessFlags : HasOne(u, FlagMsgs(f)) => HasOne(u2, FlagMsgs(f)),
           \A f \in SessFlags : vw2[w][f] = vw[w][f] \/ (w = "widget" /\ HasOne(u2, FlagMsgs(f))),
           vw2[w].sharer = vw[w].sharer
    PROVE  Told(w, kp, u2, dn, vw2, po)
<1>1. ASSUME NEW f \in SessFlags
      PROVE  EndsIn(dn[w], FlagEvts(f), FlagIs(f, kp[f]), vw2[w][f] = kp[f] \/ Ahead(w, u2, po, f))
  <2> DEFINE p == vw[w][f] = kp[f] \/ Ahead(w, u, po, f)
             q == vw2[w][f] = kp[f] \/ Ahead(w, u2, po, f)
  <2>1. p => q BY DEF Ahead
  <2>2. EndsIn(dn[w], FlagEvts(f), FlagIs(f, kp[f]), p) BY DEF Told
  <2> HIDE DEF p, q
  <2>3. EndsIn(dn[w], FlagEvts(f), FlagIs(f, kp[f]), q) BY <2>1, <2>2, EndsWeaker
  <2> QED BY <2>3 DEF q
<1> QED BY <1>1 DEF Told

\* The message of a flag: the client and the widget have changed it.
LEMMA FlagAgrees ==
    ASSUME NEW c, NEW c2, NEW kp, NEW u, NEW dn, NEW vw, NEW po, NEW r,
           Agreeing(c, kp, u, dn, vw, po, r),
           NEW f \in SessFlags, NEW b \in BOOLEAN,
           c2.screen = c.screen, c2.offs = c.offs, c2.remote = c.remote,
           c2.mic \in {"none", "off", "on"}, c2.cam \in BOOLEAN,
           (c2.mic = "on") = IF f = "mic" THEN b ELSE c.mic = "on",
           c2.cam = IF f = "cam" THEN b ELSE c.cam
    PROVE  Agreeing(c2, kp, Append(u, FlagMsg(f, b)), dn, [vw EXCEPT !["widget"][f] = b], po, r)
<1> DEFINE msg == FlagMsg(f, b)
           u2 == Append(u, msg)
           vw2 == [vw EXCEPT !["widget"][f] = b]
<1>1. AgreeTypes(c, kp, u, dn, vw, po) BY DEF Agreeing
<1>2. u \in Seq(UpMsgs) /\ vw \in [Window!Wins -> WinViews] BY <1>1 DEF AgreeTypes
<1>3. /\ msg \in UpMsgs /\ msg \in FlagMsgs(f) /\ msg \notin {"screen_on", "screen_off"}
      /\ \A g \in SessFlags : g # f => msg \notin FlagMsgs(g)
  BY FlagNames
<1>4. /\ vw2 \in [Window!Wins -> WinViews] /\ vw2["pop"] = vw["pop"]
      /\ \A g \in SessFlags : vw2["widget"][g] = IF g = f THEN b ELSE vw["widget"][g]
      /\ vw2["widget"].sharer = vw["widget"].sharer /\ vw2["widget"].stream = vw["widget"].stream
  <2> DEFINE v == vw["widget"]
             v2 == [v EXCEPT ![f] = b]
  <2>1. v \in WinViews BY <1>2 DEF Window!Wins
  <2>2. vw2 = [vw EXCEPT !["widget"] = v2] BY <1>2
  <2> HIDE DEF v, vw2
  <2>3. /\ v2 \in WinViews /\ v2.sharer = v.sharer /\ v2.stream = v.stream
        /\ \A g \in SessFlags : v2[g] = IF g = f THEN b ELSE v[g]
    BY <2>1, ViewFlagged
  <2> HIDE DEF v2
  <2>4. vw2["widget"] = v2 /\ vw2["pop"] = vw["pop"] /\ vw2 \in [Window!Wins -> WinViews]
    BY <1>2, <2>2, <2>3 DEF Window!Wins
  <2> QED BY <2>3, <2>4 DEF v
<1>5. msg = FlagMsg(f, b) OBVIOUS
<1> HIDE DEF msg, vw2
<1>6. u2 \in Seq(UpMsgs) BY <1>2, <1>3, AppendAt
<1>7. \A K : HasOne(u2, K) <=> HasOne(u, K) \/ msg \in K BY <1>2, <1>3, HasAppended
<1>8. CountOf(u2, "screen_on") = CountOf(u, "screen_on") /\ CountOf(u2, "screen_off") = CountOf(u, "screen_off")
  <2>1. \A x : CountOf(u2, x) = CountOf(u, x) + One(msg = x) BY <1>2, <1>3, CountAppended
  <2>2. \A x : CountOf(u, x) \in Nat BY <1>2, CountsAreNat
  <2> QED BY <1>3, <2>1, <2>2 DEF One
<1> DEFINE mic == c.mic = "on"
           mic2 == c2.mic = "on"
           Kept(g, y, kb, q) == EndsIn(q, FlagMsgs(g), {FlagMsg(g, y)}, kb = y)
<1>9. Mirrored(c2, kp, u2)
  <2>1. EndsIn(u, FlagMsgs("mic"), {FlagMsg("mic", mic)}, kp.mic = mic)
        /\ EndsIn(u, FlagMsgs("cam"), {FlagMsg("cam", c.cam)}, kp.cam = c.cam)
    BY DEF Agreeing, Mirrored
  <2>2. EndsIn(u2, FlagMsgs("mic"), {FlagMsg("mic", mic2)}, kp.mic = mic2)
    <3> DEFINE K == FlagMsgs("mic")
               G == {FlagMsg("mic", mic2)}
               p == kp.mic = mic2
    <3>1. CASE f = "mic"
      <4>1. msg \in K /\ msg \in G BY <1>3, <1>5, <3>1
      <4> HIDE DEF K, G, p
      <4>2. EndsIn(u2, K, G, p) BY <1>2, <1>3, <4>1, EndsAppended
      <4> QED BY <4>2 DEF K, G, p
    <3>2. CASE f # "mic"
      <4>1. mic2 = mic BY <3>2
      <4>2. EndsIn(u, K, G, p) BY <2>1, <4>1
      <4>3. msg \notin K BY <1>3, <3>2 DEF SessFlags
      <4> HIDE DEF K, G, p
      <4>4. EndsIn(u2, K, G, p) BY <1>2, <1>3, <4>2, <4>3, EndsPassed
      <4> QED BY <4>4 DEF K, G, p
    <3> QED BY <3>1, <3>2
  <2>3. EndsIn(u2, FlagMsgs("cam"), {FlagMsg("cam", c2.cam)}, kp.cam = c2.cam)
    <3> DEFINE K == FlagMsgs("cam")
               G == {FlagMsg("cam", c2.cam)}
               p == kp.cam = c2.cam
    <3>1. CASE f = "cam"
      <4>1. msg \in K /\ msg \in G BY <1>3, <1>5, <3>1
      <4> HIDE DEF K, G, p
      <4>2. EndsIn(u2, K, G, p) BY <1>2, <1>3, <4>1, EndsAppended
      <4> QED BY <4>2 DEF K, G, p
    <3>2. CASE f # "cam"
      <4>1. c2.cam = c.cam BY <3>2
      <4>2. EndsIn(u, K, G, p) BY <2>1, <4>1
      <4>3. msg \notin K BY <1>3, <3>2 DEF SessFlags
      <4> HIDE DEF K, G, p
      <4>4. EndsIn(u2, K, G, p) BY <1>2, <1>3, <4>2, <4>3, EndsPassed
      <4> QED BY <4>4 DEF K, G, p
    <3> QED BY <3>1, <3>2
  <2> QED BY <2>2, <2>3 DEF Mirrored
<1>10. ASSUME NEW w \in Window!Wins, w = "pop" => po.st = "open"
       PROVE  Told(w, kp, u2, dn, vw2, po) /\ Streaming(w, c2, u2, vw2, r)
  <2>1. Told(w, kp, u, dn, vw, po) /\ Streaming(w, c, u, vw, r) BY <1>10 DEF Agreeing
  <2>2. vw2[w].sharer = vw[w].sharer /\ vw2[w].stream = vw[w].stream BY <1>4 DEF Window!Wins
  <2>3. \A g \in SessFlags : vw2[w][g] = vw[w][g] \/ (w = "widget" /\ HasOne(u2, FlagMsgs(g)))
    BY <1>3, <1>4, <1>7 DEF Window!Wins
  <2>4. Told(w, kp, u2, dn, vw2, po)
    <3> HIDE DEF u2
    <3> QED BY <1>7, <2>1, <2>2, <2>3, ToldKept
  <2>5. Streaming(w, c2, u2, vw2, r)
    <3> HIDE DEF u2
    <3> QED BY <1>7, <2>1, <2>2 DEF Streaming
  <2> QED BY <2>4, <2>5
<1> HIDE DEF u2
<1>11. AgreeTypes(c2, kp, u2, dn, vw2, po) BY <1>1, <1>4, <1>6 DEF AgreeTypes
<1>12. ~r.refused => Balanced(c2, kp, u2) BY <1>8 DEF Agreeing, Balanced
<1>13. c2.remote => kp.sharer = "other" BY DEF Agreeing
<1>14. Agreeing(c2, kp, u2, dn, vw2, po, r) BY <1>9, <1>10, <1>11, <1>12, <1>13 DEF Agreeing
<1> QED BY <1>14 DEF u2, msg, vw2

\* What the client waits for is nothing the windows show.
LEMMA WaitAgrees ==
    ASSUME NEW c, NEW c2, NEW kp, NEW u, NEW dn, NEW vw, NEW po, NEW r,
           Agreeing(c, kp, u, dn, vw, po, r),
           c2.screen = c.screen, c2.offs = c.offs, c2.remote = c.remote, c2.mic = c.mic, c2.cam = c.cam
    PROVE  Agreeing(c2, kp, u, dn, vw, po, r)
BY DEF Agreeing, AgreeTypes, Mirrored, Streaming, Balanced

\* A screen that is unshared is being removed.
LEMMA UnshareAgrees ==
    ASSUME NEW c, NEW c2, NEW kp, NEW u, NEW dn, NEW vw, NEW po, NEW r,
           Agreeing(c, kp, u, dn, vw, po, r),
           c.screen # "none", c2.screen = "none", c2.offs = c.offs + 1,
           c2.remote = c.remote, c2.mic = c.mic, c2.cam = c.cam
    PROVE  Agreeing(c2, kp, u, dn, vw, po, r)
<1>1. u \in Seq(UpMsgs) /\ c.offs \in Nat BY DEF Agreeing, AgreeTypes
<1>2. CountOf(u, "screen_on") \in Nat /\ CountOf(u, "screen_off") \in Nat BY <1>1, CountsAreNat
<1>3. ~r.refused => Balanced(c2, kp, u) BY <1>1, <1>2 DEF Agreeing, Balanced, One
<1> QED BY <1>1, <1>3 DEF Agreeing, AgreeTypes, Mirrored, Streaming

LEMMA RemovedAgrees ==
    ASSUME NEW c, NEW c2, NEW kp, NEW u, NEW dn, NEW vw, NEW po, NEW r,
           Agreeing(c, kp, u, dn, vw, po, r),
           c.offs > 0, c2.screen = c.screen, c2.offs = c.offs - 1,
           c2.remote = c.remote, c2.mic = c.mic, c2.cam = c.cam
    PROVE  Agreeing(c2, kp, Append(u, "screen_off"), dn, vw, po, r)
<1> DEFINE msg == "screen_off"
           u2 == Append(u, msg)
<1>1. u \in Seq(UpMsgs) /\ c.offs \in Nat BY DEF Agreeing, AgreeTypes
<1>2. msg \in UpMsgs /\ \A g \in SessFlags : msg \notin FlagMsgs(g)
  BY DEF UpMsgs, FlagMsgs, OnMsg, OffMsg, SessFlags
<1> HIDE DEF msg
<1>3. u2 \in Seq(UpMsgs) BY <1>1, <1>2, AppendAt
<1>4. \A K : HasOne(u, K) => HasOne(u2, K) BY <1>1, <1>2, HasAppended
<1>5. \A x : CountOf(u2, x) = CountOf(u, x) + One(msg = x) BY <1>1, <1>2, CountAppended
<1>6. CountOf(u, "screen_on") \in Nat /\ CountOf(u, "screen_off") \in Nat BY <1>1, CountsAreNat
<1>7. \A g \in SessFlags : \A G, p : EndsIn(u, FlagMsgs(g), G, p) => EndsIn(u2, FlagMsgs(g), G, p)
  BY <1>1, <1>2, EndsPassed
<1>8. Mirrored(c2, kp, u2)
  <2> HIDE DEF u2
  <2> QED BY <1>7 DEF Agreeing, Mirrored, SessFlags
<1>9. ~r.refused => Balanced(c2, kp, u2)
  <2>1. CountOf(u2, "screen_on") = CountOf(u, "screen_on") BY <1>5, <1>6 DEF One, msg
  <2>2. CountOf(u2, "screen_off") = CountOf(u, "screen_off") + 1 BY <1>5, <1>6 DEF One, msg
  <2> HIDE DEF u2
  <2> QED BY <1>1, <1>6, <2>1, <2>2 DEF Agreeing, Balanced, One
<1>10. ASSUME NEW w \in Window!Wins, w = "pop" => po.st = "open"
       PROVE  Told(w, kp, u2, dn, vw, po) /\ Streaming(w, c2, u2, vw, r)
  <2>1. Told(w, kp, u, dn, vw, po) /\ Streaming(w, c, u, vw, r) BY <1>10 DEF Agreeing
  <2> HIDE DEF u2
  <2> QED BY <1>4, <2>1, ToldKept DEF Streaming
<1> HIDE DEF u2
<1>11. Agreeing(c2, kp, u2, dn, vw, po, r) BY <1>1, <1>3, <1>8, <1>9, <1>10 DEF Agreeing, AgreeTypes
<1> QED BY <1>11 DEF u2, msg

\* A screen that is shared is what both windows show at once.
LEMMA ShareAgrees ==
    ASSUME NEW c, NEW c2, NEW kp, NEW u, NEW dn, NEW vw, NEW vw2, NEW po, NEW r,
           Agreeing(c, kp, u, dn, vw, po, r),
           c.screen = "none", c2.screen # "none", c2.offs = c.offs,
           c2.remote = c.remote, c2.mic = c.mic, c2.cam = c.cam,
           vw2 \in [Window!Wins -> WinViews],
           \A w \in Window!Wins : /\ \A f \in SessFlags : vw2[w][f] = vw[w][f]
                                  /\ vw2[w].sharer = vw[w].sharer
                                  /\ (w = "pop" => po.st = "open") => vw2[w].stream = "local"
    PROVE  Agreeing(c2, kp, Append(u, "screen_on"), dn, vw2, po, r)
<1> DEFINE msg == "screen_on"
           u2 == Append(u, msg)
<1>1. u \in Seq(UpMsgs) /\ c.offs \in Nat BY DEF Agreeing, AgreeTypes
<1>2. msg \in UpMsgs /\ \A g \in SessFlags : msg \notin FlagMsgs(g)
  BY DEF UpMsgs, FlagMsgs, OnMsg, OffMsg, SessFlags
<1>3. msg \in {"screen_on"} OBVIOUS
<1> HIDE DEF msg
<1>4. u2 \in Seq(UpMsgs) BY <1>1, <1>2, AppendAt
<1>5. \A K : HasOne(u2, K) <=> HasOne(u, K) \/ msg \in K BY <1>1, <1>2, HasAppended
<1>6. \A x : CountOf(u2, x) = CountOf(u, x) + One(msg = x) BY <1>1, <1>2, CountAppended
<1>7. CountOf(u, "screen_on") \in Nat /\ CountOf(u, "screen_off") \in Nat BY <1>1, CountsAreNat
<1>8. \A g \in SessFlags : \A G, p : EndsIn(u, FlagMsgs(g), G, p) => EndsIn(u2, FlagMsgs(g), G, p)
  BY <1>1, <1>2, EndsPassed
<1>9. Mirrored(c2, kp, u2)
  <2> HIDE DEF u2
  <2> QED BY <1>8 DEF Agreeing, Mirrored, SessFlags
<1>10. ~r.refused => Balanced(c2, kp, u2)
  <2>1. CountOf(u2, "screen_on") = CountOf(u, "screen_on") + 1 BY <1>6, <1>7 DEF One, msg
  <2>2. CountOf(u2, "screen_off") = CountOf(u, "screen_off") BY <1>6, <1>7 DEF One, msg
  <2> HIDE DEF u2
  <2> QED BY <1>1, <1>7, <2>1, <2>2 DEF Agreeing, Balanced, One
<1>11. ASSUME NEW w \in Window!Wins, w = "pop" => po.st = "open"
       PROVE  Told(w, kp, u2, dn, vw2, po) /\ Streaming(w, c2, u2, vw2, r)
  <2>1. Told(w, kp, u, dn, vw, po) BY <1>11 DEF Agreeing
  <2>2. vw2[w].stream = "local" BY <1>11
  <2>3. HasOne(u2, {"screen_on"}) BY <1>3, <1>5
  <2> HIDE DEF u2
  <2>4. Told(w, kp, u2, dn, vw2, po) BY <1>5, <2>1, ToldKept
  <2> QED BY <2>2, <2>3, <2>4 DEF Streaming
<1> HIDE DEF u2
<1>12. Agreeing(c2, kp, u2, dn, vw2, po, r) BY <1>1, <1>4, <1>9, <1>10, <1>11 DEF Agreeing, AgreeTypes
<1> QED BY <1>12 DEF u2, msg

\* A window that shows another stream still shows the right one, or the streams
\* of two shares overlapped.
LEMMA StreamAgrees ==
    ASSUME NEW c, NEW c2, NEW kp, NEW u, NEW dn, NEW vw, NEW vw2, NEW po, NEW r, NEW r2,
           Agreeing(c, kp, u, dn, vw, po, r),
           c2.screen = c.screen, c2.offs = c.offs, c2.mic = c.mic, c2.cam = c.cam,
           c2.remote => kp.sharer = "other",
           r2.refused = r.refused,
           vw2 \in [Window!Wins -> WinViews],
           \A w \in Window!Wins : (\A f \in SessFlags : vw2[w][f] = vw[w][f]) /\ vw2[w].sharer = vw[w].sharer,
           \A w \in Window!Wins : (w = "pop" => po.st = "open") => Streaming(w, c2, u, vw2, r2)
    PROVE  Agreeing(c2, kp, u, dn, vw2, po, r2)
<1>1. ASSUME NEW w \in Window!Wins, w = "pop" => po.st = "open" PROVE Told(w, kp, u, dn, vw2, po)
  <2>1. Told(w, kp, u, dn, vw, po) BY <1>1 DEF Agreeing
  <2> QED BY <2>1, ToldKept
<1> QED BY <1>1 DEF Agreeing, AgreeTypes, Mirrored, Balanced

\* What an event says.
LEMMA EventKinds ==
    ASSUME NEW e \in DownEvts
    PROVE  /\ e.k \in DownKinds /\ e.st \in Kepts
           /\ \A f \in SessFlags : e \in FlagEvts(f) <=> e.k \in FlagMsgs(f) \cup {"state"}
           /\ e \in ShareEvts <=> e.k \in {"screen_on", "screen_off", "other_on", "state"}
           /\ \A f \in SessFlags : \A b : e \in FlagIs(f, b) <=> e \in FlagEvts(f) /\ FlagSaid(e, f) = b
           /\ \A x : e \in SharerIs(x) <=> e \in ShareEvts /\ SharerSaid(e) = x
BY DEF DownEvts, FlagEvts, ShareEvts, FlagIs, SharerIs

\* A window hears the next event: its view is what the event said.
LEMMA HeardAgrees ==
    ASSUME NEW c, NEW kp, NEW u, NEW dn, NEW vw, NEW po, NEW r, NEW w0 \in Window!Wins, NEW v2 \in WinViews,
           Agreeing(c, kp, u, dn, vw, po, r),
           w0 = "pop" => po.st = "open", dn[w0] # <<>>,
           \A f \in SessFlags :
              v2[f] = IF Head(dn[w0]) \in FlagEvts(f) THEN FlagSaid(Head(dn[w0]), f) ELSE vw[w0][f],
           v2.sharer = IF Head(dn[w0]) \in ShareEvts THEN SharerSaid(Head(dn[w0])) ELSE vw[w0].sharer,
           v2.stream = vw[w0].stream
    PROVE  Agreeing(c, kp, u, [dn EXCEPT ![w0] = Tail(@)], [vw EXCEPT ![w0] = v2], po, r)
<1> DEFINE q == dn[w0]
           e == Head(q)
           dn2 == [dn EXCEPT ![w0] = Tail(@)]
           vw2 == [vw EXCEPT ![w0] = v2]
<1>1. AgreeTypes(c, kp, u, dn, vw, po) BY DEF Agreeing
<1>2. dn \in [Window!Wins -> Seq(DownEvts)] /\ vw \in [Window!Wins -> WinViews] BY <1>1 DEF AgreeTypes
<1>3. q \in Seq(DownEvts) /\ q # <<>> BY <1>2
<1>4. e \in DownEvts /\ Tail(q) \in Seq(DownEvts) BY <1>3, TailAt
<1>5. dn2 \in [Window!Wins -> Seq(DownEvts)] /\ dn2[w0] = Tail(q) BY <1>2, <1>4
<1>6. vw2 \in [Window!Wins -> WinViews] /\ vw2[w0] = v2 BY <1>2
<1>7. \A w \in Window!Wins : w # w0 => dn2[w] = dn[w] /\ vw2[w] = vw[w] BY <1>2
<1>8. /\ \A f \in SessFlags : v2[f] = IF e \in FlagEvts(f) THEN FlagSaid(e, f) ELSE vw[w0][f]
      /\ v2.sharer = IF e \in ShareEvts THEN SharerSaid(e) ELSE vw[w0].sharer
  OBVIOUS
<1> HIDE DEF dn2, vw2, e, q
<1>9. ASSUME NEW w \in Window!Wins, w = "pop" => po.st = "open", w # w0
      PROVE  Told(w, kp, u, dn2, vw2, po) /\ Streaming(w, c, u, vw2, r)
  <2>1. Told(w, kp, u, dn, vw, po) /\ Streaming(w, c, u, vw, r) BY <1>9 DEF Agreeing
  <2> QED BY <1>7, <1>9, <2>1 DEF Told, Streaming
<1>10. Told(w0, kp, u, dn2, vw2, po)
  <2>1. Told(w0, kp, u, dn, vw, po) BY DEF Agreeing
  <2>2. ASSUME NEW f \in SessFlags
        PROVE  EndsIn(dn2[w0], FlagEvts(f), FlagIs(f, kp[f]), vw2[w0][f] = kp[f] \/ Ahead(w0, u, po, f))
    <3> DEFINE K == FlagEvts(f)
               G == FlagIs(f, kp[f])
               p == vw[w0][f] = kp[f] \/ Ahead(w0, u, po, f)
               p2 == vw2[w0][f] = kp[f] \/ Ahead(w0, u, po, f)
    <3>1. EndsIn(q, K, G, p) BY <2>1 DEF Told, q
    <3>2. e \in G => e \in K /\ FlagSaid(e, f) = kp[f] BY <1>4, EventKinds
    <3>3. e \in K => (e \in G => p2) BY <1>6, <1>8, <3>2
    <3>4. e \notin K => (p => p2) BY <1>6, <1>8
    <3> HIDE DEF K, G, p, p2
    <3>5. EndsIn(Tail(q), K, G, p2) BY <1>3, <3>1, <3>3, <3>4, EndsTail DEF e
    <3> QED BY <1>5, <3>5 DEF K, G, p2
  <2>3. EndsIn(dn2[w0], ShareEvts, SharerIs(kp.sharer), vw2[w0].sharer = kp.sharer \/ (w0 = "pop" /\ po.asked))
    <3> DEFINE G == SharerIs(kp.sharer)
               p == vw[w0].sharer = kp.sharer \/ (w0 = "pop" /\ po.asked)
               p2 == vw2[w0].sharer = kp.sharer \/ (w0 = "pop" /\ po.asked)
    <3>1. EndsIn(q, ShareEvts, G, p) BY <2>1 DEF Told, q
    <3>2. e \in G => e \in ShareEvts /\ SharerSaid(e) = kp.sharer BY <1>4, EventKinds
    <3>3. e \in ShareEvts => (e \in G => p2) BY <1>6, <1>8, <3>2
    <3>4. e \notin ShareEvts => (p => p2) BY <1>6, <1>8
    <3> HIDE DEF G, p, p2
    <3>5. EndsIn(Tail(q), ShareEvts, G, p2) BY <1>3, <3>1, <3>3, <3>4, EndsTail DEF e
    <3> QED BY <1>5, <3>5 DEF G, p2
  <2> QED BY <2>2, <2>3 DEF Told
<1>11. Streaming(w0, c, u, vw2, r)
  <2>1. Streaming(w0, c, u, vw, r) BY DEF Agreeing
  <2> QED BY <1>6, <2>1 DEF Streaming
<1>12. po.st # "open" => dn2["pop"] = <<>>
  BY <1>1, <1>7 DEF AgreeTypes, Window!Wins
<1>13. Agreeing(c, kp, u, dn2, vw2, po, r)
  BY <1>1, <1>5, <1>6, <1>9, <1>10, <1>11, <1>12 DEF Agreeing, AgreeTypes
<1> QED BY <1>13 DEF dn2, vw2

\* A window is told of what the server keeps by now.
LEMMA ToldMore ==
    ASSUME NEW w \in Window!Wins, NEW kp \in Kepts, NEW kp2 \in Kepts, NEW u, NEW u2, NEW dn, NEW dn2, NEW vw,
           NEW po, NEW po2, NEW e \in DownEvts, dn[w] \in Seq(DownEvts), dn2[w] = Append(dn[w], e),
           Told(w, kp, u, dn, vw, po),
           \A f \in SessFlags :
              IF e \in FlagEvts(f) THEN FlagSaid(e, f) = kp2[f]
              ELSE kp2[f] = kp[f] /\ (Ahead(w, u, po, f) => Ahead(w, u2, po2, f)),
           IF e \in ShareEvts THEN SharerSaid(e) = kp2.sharer
           ELSE kp2.sharer = kp.sharer /\ po2.asked = po.asked
    PROVE  Told(w, kp2, u2, dn2, vw, po2)
<1> DEFINE q == dn[w]
           q2 == Append(q, e)
<1>1. q \in Seq(DownEvts) /\ dn2[w] = q2 OBVIOUS
<1>2. ASSUME NEW f \in SessFlags
      PROVE  EndsIn(dn2[w], FlagEvts(f), FlagIs(f, kp2[f]), vw[w][f] = kp2[f] \/ Ahead(w, u2, po2, f))
  <2> DEFINE K == FlagEvts(f)
             G == FlagIs(f, kp2[f])
             p == vw[w][f] = kp[f] \/ Ahead(w, u, po, f)
             p2 == vw[w][f] = kp2[f] \/ Ahead(w, u2, po2, f)
  <2>1. CASE e \in K
    <3>1. FlagSaid(e, f) = kp2[f] BY <2>1
    <3>2. e \in G BY <2>1, <3>1, EventKinds
    <3> HIDE DEF K, G, p2, q
    <3>3. EndsIn(q2, K, G, p2) BY <1>1, <2>1, <3>2, EndsAppended
    <3> QED BY <1>1, <3>3 DEF K, G, p2
  <2>2. CASE e \notin K
    <3>1. kp2[f] = kp[f] /\ (Ahead(w, u, po, f) => Ahead(w, u2, po2, f)) BY <2>2
    <3>2. EndsIn(q, K, G, p) /\ (p => p2) BY <3>1 DEF Told
    <3> HIDE DEF K, G, p2, p, q
    <3>3. EndsIn(q, K, G, p2) BY <3>2, EndsWeaker
    <3>4. EndsIn(q2, K, G, p2) BY <1>1, <2>2, <3>3, EndsPassed
    <3> QED BY <1>1, <3>4 DEF K, G, p2
  <2> QED BY <2>1, <2>2
<1>3. EndsIn(dn2[w], ShareEvts, SharerIs(kp2.sharer), vw[w].sharer = kp2.sharer \/ (w = "pop" /\ po2.asked))
  <2> DEFINE G == SharerIs(kp2.sharer)
             p == vw[w].sharer = kp.sharer \/ (w = "pop" /\ po.asked)
             p2 == vw[w].sharer = kp2.sharer \/ (w = "pop" /\ po2.asked)
  <2>1. CASE e \in ShareEvts
    <3>1. SharerSaid(e) = kp2.sharer BY <2>1
    <3>2. e \in G BY <2>1, <3>1, EventKinds
    <3> HIDE DEF G, p2, q
    <3>3. EndsIn(q2, ShareEvts, G, p2) BY <1>1, <2>1, <3>2, EndsAppended
    <3> QED BY <1>1, <3>3 DEF G, p2
  <2>2. CASE e \notin ShareEvts
    <3>1. kp2.sharer = kp.sharer /\ po2.asked = po.asked BY <2>2
    <3>2. EndsIn(q, ShareEvts, G, p2) BY <3>1 DEF Told
    <3> HIDE DEF G, p2, q
    <3>4. EndsIn(q2, ShareEvts, G, p2) BY <1>1, <2>2, <3>2, EndsPassed
    <3> QED BY <1>1, <3>4 DEF G, p2
  <2> QED BY <2>1, <2>2
<1> QED BY <1>2, <1>3 DEF Told

\* The events the windows get: those that are shown.
Tells(dn, dn2, po, e) ==
    dn2 = [w \in Window!Wins |-> IF w = "pop" => po.st = "open" THEN Append(dn[w], e) ELSE dn[w]]

LEMMA TellTypes ==
    ASSUME NEW dn \in [Window!Wins -> Seq(DownEvts)], NEW dn2, NEW po, NEW e \in DownEvts, Tells(dn, dn2, po, e)
    PROVE  /\ dn2 \in [Window!Wins -> Seq(DownEvts)]
           /\ \A w \in Window!Wins : (w = "pop" => po.st = "open") => dn2[w] = Append(dn[w], e)
           /\ po.st # "open" => dn2["pop"] = dn["pop"]
<1>1. \A w \in Window!Wins : Append(dn[w], e) \in Seq(DownEvts) BY AppendAt
<1> QED BY <1>1 DEF Tells, Window!Wins

\* The server tells what it keeps by now, and handled nothing.
LEMMA TellAgrees ==
    ASSUME NEW c, NEW c2, NEW kp, NEW kp2 \in Kepts, NEW u, NEW dn, NEW dn2, NEW vw, NEW po, NEW r,
           NEW e \in DownEvts, Agreeing(c, kp, u, dn, vw, po, r), Tells(dn, dn2, po, e),
           c2.screen = c.screen, c2.offs = c.offs, c2.mic = c.mic, c2.cam = c.cam,
           c2.remote => c.remote, c2.remote => kp2.sharer = "other",
           kp2.sharer = "me" <=> kp.sharer = "me",
           \A f \in SessFlags : kp2[f] = kp[f] /\ e \notin FlagEvts(f),
           IF e \in ShareEvts THEN SharerSaid(e) = kp2.sharer ELSE kp2.sharer = kp.sharer
    PROVE  Agreeing(c2, kp2, u, dn2, vw, po, r)
<1>1. AgreeTypes(c, kp, u, dn, vw, po) BY DEF Agreeing
<1>2. dn \in [Window!Wins -> Seq(DownEvts)] /\ kp \in Kepts BY <1>1 DEF AgreeTypes
<1>3. /\ dn2 \in [Window!Wins -> Seq(DownEvts)]
      /\ \A w \in Window!Wins : (w = "pop" => po.st = "open") => dn2[w] = Append(dn[w], e)
      /\ po.st # "open" => dn2["pop"] = dn["pop"]
  BY <1>2, TellTypes
<1>4. kp2.mic = kp.mic /\ kp2.cam = kp.cam BY DEF SessFlags
<1>5. ASSUME NEW w \in Window!Wins, w = "pop" => po.st = "open"
      PROVE  Told(w, kp2, u, dn2, vw, po) /\ Streaming(w, c2, u, vw, r)
  <2>1. Told(w, kp, u, dn, vw, po) /\ Streaming(w, c, u, vw, r) BY <1>5 DEF Agreeing
  <2>2. dn[w] \in Seq(DownEvts) /\ dn2[w] = Append(dn[w], e) BY <1>2, <1>3, <1>5
  <2>3. \A f \in SessFlags :
           IF e \in FlagEvts(f) THEN FlagSaid(e, f) = kp2[f]
           ELSE kp2[f] = kp[f] /\ (Ahead(w, u, po, f) => Ahead(w, u, po, f))
    OBVIOUS
  <2>4. IF e \in ShareEvts THEN SharerSaid(e) = kp2.sharer
        ELSE kp2.sharer = kp.sharer /\ po.asked = po.asked
    OBVIOUS
  <2>5. Told(w, kp2, u, dn2, vw, po) BY <1>2, <2>1, <2>2, <2>3, <2>4, ToldMore
  <2> QED BY <2>1, <2>5 DEF Streaming
<1>6. AgreeTypes(c2, kp2, u, dn2, vw, po) BY <1>1, <1>3 DEF AgreeTypes
<1>7. Mirrored(c2, kp2, u) BY <1>4 DEF Agreeing, Mirrored
<1>8. ~r.refused => Balanced(c2, kp2, u) BY DEF Agreeing, Balanced, One
<1> QED BY <1>5, <1>6, <1>7, <1>8 DEF Agreeing

LEMMA TailKeeps ==
    ASSUME NEW u \in Seq(UpMsgs), u # <<>>
    PROVE  /\ Tail(u) \in Seq(UpMsgs) /\ Head(u) \in UpMsgs
           /\ \A K : Head(u) \notin K => (HasOne(u, K) => HasOne(Tail(u), K))
           /\ \A x : /\ CountOf(u, x) = CountOf(Tail(u), x) + One(Head(u) = x)
                     /\ CountOf(u, x) \in Nat /\ CountOf(Tail(u), x) \in Nat
           /\ \A K, G, p, q : EndsIn(u, K, G, p)
                              /\ (Head(u) \in K => (Head(u) \in G => q)) /\ (Head(u) \notin K => (p => q))
                              => EndsIn(Tail(u), K, G, q)
<1>1. Tail(u) \in Seq(UpMsgs) /\ Head(u) \in UpMsgs BY TailAt
<1>2. \A K : Head(u) \notin K => (HasOne(u, K) => HasOne(Tail(u), K)) BY HasTail
<1>3. \A x : /\ CountOf(u, x) = CountOf(Tail(u), x) + One(Head(u) = x)
             /\ CountOf(u, x) \in Nat /\ CountOf(Tail(u), x) \in Nat
  <2>1. \A x : CountOf(u, x) = CountOf(Tail(u), x) + One(Head(u) = x) BY CountTail
  <2> DEFINE t == Tail(u)
  <2>2. t \in Seq(UpMsgs) BY <1>1
  <2> HIDE DEF t
  <2>3. \A x : CountOf(u, x) \in Nat /\ CountOf(t, x) \in Nat BY <2>2, CountsAreNat
  <2> QED BY <2>1, <2>3 DEF t
<1>4. \A K, G, p, q : EndsIn(u, K, G, p)
                      /\ (Head(u) \in K => (Head(u) \in G => q)) /\ (Head(u) \notin K => (p => q))
                      => EndsIn(Tail(u), K, G, q)
  BY EndsTail
<1> QED BY <1>1, <1>2, <1>3, <1>4

LEMMA FlagMsgSays ==
    ASSUME NEW f \in SessFlags, NEW b \in BOOLEAN, NEW y \in BOOLEAN
    PROVE  /\ FlagMsg(f, b) = FlagMsg(f, y) => b = y
           /\ (FlagMsg(f, b) = OnMsg(f)) = b
           /\ FlagMsg(f, b) \notin {"state", "screen_on", "screen_off", "other_on"} /\ FlagMsg(f, b) \in DownKinds
           /\ \A g \in SessFlags : g # f => FlagMsg(f, b) \notin FlagMsgs(g) \cup {"state"}
BY DEF SessFlags, FlagMsg, FlagMsgs, OnMsg, OffMsg, UpMsgs, DownKinds

\* The server handles the message of a flag, and tells the windows.
LEMMA HandleFlag ==
    ASSUME NEW c, NEW kp, NEW kp2 \in Kepts, NEW u, NEW dn, NEW dn2, NEW vw, NEW po, NEW r,
           NEW f \in SessFlags, NEW b \in BOOLEAN, NEW e \in DownEvts,
           Agreeing(c, kp, u, dn, vw, po, r), u # <<>>, Head(u) = FlagMsg(f, b), e.k = Head(u),
           Tells(dn, dn2, po, e),
           \A g \in SessFlags : kp2[g] = IF g = f THEN b ELSE kp[g], kp2.sharer = kp.sharer
    PROVE  Agreeing(c, kp2, Tail(u), dn2, vw, po, r)
<1>1. AgreeTypes(c, kp, u, dn, vw, po) BY DEF Agreeing
<1>2. u \in Seq(UpMsgs) /\ dn \in [Window!Wins -> Seq(DownEvts)] /\ kp \in Kepts BY <1>1 DEF AgreeTypes
<1>3. /\ dn2 \in [Window!Wins -> Seq(DownEvts)]
      /\ \A w \in Window!Wins : (w = "pop" => po.st = "open") => dn2[w] = Append(dn[w], e)
      /\ po.st # "open" => dn2["pop"] = dn["pop"]
  BY <1>2, TellTypes
<1> DEFINE t == Tail(u)
           h == Head(u)
<1>4. /\ t \in Seq(UpMsgs) /\ h \in UpMsgs
      /\ \A K : h \notin K => (HasOne(u, K) => HasOne(t, K))
      /\ \A x : CountOf(u, x) = CountOf(t, x) + One(h = x) /\ CountOf(u, x) \in Nat /\ CountOf(t, x) \in Nat
      /\ \A K, G, p, q : EndsIn(u, K, G, p) /\ (h \in K => (h \in G => q)) /\ (h \notin K => (p => q))
                         => EndsIn(t, K, G, q)
  BY <1>2, TailKeeps
<1>5. h = FlagMsg(f, b) /\ e.k = h OBVIOUS
<1>6. /\ h \in FlagMsgs(f) /\ \A y \in BOOLEAN : h = FlagMsg(f, y) => b = y
      /\ (h = OnMsg(f)) = b /\ h \notin {"state", "screen_on", "screen_off", "other_on"}
      /\ \A g \in SessFlags : g # f => h \notin FlagMsgs(g) \cup {"state"}
  BY <1>5, FlagNames, FlagMsgSays
<1> HIDE DEF t, h
<1>7. Mirrored(c, kp2, t)
  <2> DEFINE mic == c.mic = "on"
  <2>1. c.cam \in BOOLEAN /\ mic \in BOOLEAN BY <1>1 DEF AgreeTypes
  <2>2. EndsIn(u, FlagMsgs("mic"), {FlagMsg("mic", mic)}, kp.mic = mic)
        /\ EndsIn(u, FlagMsgs("cam"), {FlagMsg("cam", c.cam)}, kp.cam = c.cam)
    BY DEF Agreeing, Mirrored
  <2>3. kp2.mic = (IF f = "mic" THEN b ELSE kp.mic) /\ kp2.cam = (IF f = "cam" THEN b ELSE kp.cam)
    BY DEF SessFlags
  <2> HIDE DEF mic
  <2>4. EndsIn(t, FlagMsgs("mic"), {FlagMsg("mic", mic)}, kp2.mic = mic)
    <3> DEFINE K == FlagMsgs("mic")
               G == {FlagMsg("mic", mic)}
               p == kp.mic = mic
               q == kp2.mic = mic
    <3>1. h \in K => (h \in G => q) BY <1>6, <2>1, <2>3 DEF SessFlags
    <3>2. h \notin K => (p => q) BY <1>6, <2>3
    <3>3. EndsIn(u, K, G, p) BY <2>2
    <3> HIDE DEF K, G, p, q
    <3>4. EndsIn(t, K, G, q) BY <1>4, <3>1, <3>2, <3>3
    <3> QED BY <3>4 DEF K, G, q
  <2>5. EndsIn(t, FlagMsgs("cam"), {FlagMsg("cam", c.cam)}, kp2.cam = c.cam)
    <3> DEFINE K == FlagMsgs("cam")
               G == {FlagMsg("cam", c.cam)}
               p == kp.cam = c.cam
               q == kp2.cam = c.cam
    <3>1. h \in K => (h \in G => q) BY <1>6, <2>1, <2>3 DEF SessFlags
    <3>2. h \notin K => (p => q) BY <1>6, <2>3
    <3>3. EndsIn(u, K, G, p) BY <2>2
    <3> HIDE DEF K, G, p, q
    <3>4. EndsIn(t, K, G, q) BY <1>4, <3>1, <3>2, <3>3
    <3> QED BY <3>4 DEF K, G, q
  <2> QED BY <2>4, <2>5 DEF Mirrored, mic
<1>8. ASSUME NEW w \in Window!Wins, w = "pop" => po.st = "open"
      PROVE  Told(w, kp2, t, dn2, vw, po) /\ Streaming(w, c, t, vw, r)
  <2>1. Told(w, kp, u, dn, vw, po) /\ Streaming(w, c, u, vw, r) BY <1>8 DEF Agreeing
  <2>2. dn[w] \in Seq(DownEvts) /\ dn2[w] = Append(dn[w], e) BY <1>2, <1>3, <1>8
  <2>3. \A g \in SessFlags :
           IF e \in FlagEvts(g) THEN FlagSaid(e, g) = kp2[g]
           ELSE kp2[g] = kp[g] /\ (Ahead(w, u, po, g) => Ahead(w, t, po, g))
    <3> SUFFICES ASSUME NEW g \in SessFlags
                 PROVE  IF e \in FlagEvts(g) THEN FlagSaid(e, g) = kp2[g]
                        ELSE kp2[g] = kp[g] /\ (Ahead(w, u, po, g) => Ahead(w, t, po, g))
      OBVIOUS
    <3>1. e \in FlagEvts(g) <=> h \in FlagMsgs(g) \cup {"state"} BY <1>5, EventKinds
    <3>2. CASE g = f BY <1>5, <1>6, <3>1, <3>2 DEF FlagSaid
    <3>3. CASE g # f
      <4>1. e \notin FlagEvts(g) /\ kp2[g] = kp[g] BY <1>6, <3>1, <3>3
      <4>2. HasOne(u, FlagMsgs(g)) => HasOne(t, FlagMsgs(g)) BY <1>4, <1>6, <3>3
      <4> QED BY <4>1, <4>2 DEF Ahead
    <3> QED BY <3>2, <3>3
  <2>4. IF e \in ShareEvts THEN SharerSaid(e) = kp2.sharer ELSE kp2.sharer = kp.sharer /\ po.asked = po.asked
    BY <1>5, <1>6, EventKinds
  <2>5. Told(w, kp2, t, dn2, vw, po) BY <1>2, <2>1, <2>2, <2>3, <2>4, ToldMore
  <2>6. HasOne(u, {"screen_on"}) => HasOne(t, {"screen_on"}) BY <1>4, <1>6
  <2> QED BY <2>1, <2>5, <2>6 DEF Streaming
<1>9. AgreeTypes(c, kp2, t, dn2, vw, po) BY <1>1, <1>3, <1>4 DEF AgreeTypes
<1>10. ~r.refused => Balanced(c, kp2, t)
  <2>1. CountOf(u, "screen_on") = CountOf(t, "screen_on") /\ CountOf(u, "screen_off") = CountOf(t, "screen_off")
    BY <1>4, <1>6 DEF One
  <2> QED BY <2>1 DEF Agreeing, Balanced
<1>11. c.remote => kp2.sharer = "other" BY DEF Agreeing
<1>12. Agreeing(c, kp2, t, dn2, vw, po, r) BY <1>7, <1>8, <1>9, <1>10, <1>11 DEF Agreeing
<1> QED BY <1>12 DEF t

LEMMA NoFlagMsg ==
    ASSUME NEW x \in {"screen_on", "screen_off", "other_on", "host_mute", "host_lower_hand", "host_screen_off"},
           NEW f \in SessFlags
    PROVE  x \notin FlagMsgs(f) \cup {"state"}
BY DEF SessFlags, FlagMsgs, OnMsg, OffMsg

\* The messages about the screen, in the two ways the server handles them.
LEMMA HandleScreen ==
    ASSUME NEW c, NEW kp, NEW kp2 \in Kepts, NEW u, NEW dn, NEW dn2, NEW vw, NEW po, NEW r,
           NEW e \in DownEvts,
           Agreeing(c, kp, u, dn, vw, po, r), u # <<>>, e.k = Head(u),
           \/ Head(u) = "screen_on" /\ kp.sharer = "none" /\ kp2.sharer = "me"
           \/ Head(u) = "screen_off" /\ kp.sharer = "me" /\ kp2.sharer = "none",
           Tells(dn, dn2, po, e),
           \A g \in SessFlags : kp2[g] = kp[g]
    PROVE  Agreeing(c, kp2, Tail(u), dn2, vw, po, r)
<1>1. AgreeTypes(c, kp, u, dn, vw, po) BY DEF Agreeing
<1>2. /\ u \in Seq(UpMsgs) /\ dn \in [Window!Wins -> Seq(DownEvts)] /\ kp \in Kepts /\ c.offs \in Nat
  BY <1>1 DEF AgreeTypes
<1>3. /\ dn2 \in [Window!Wins -> Seq(DownEvts)]
      /\ \A w \in Window!Wins : (w = "pop" => po.st = "open") => dn2[w] = Append(dn[w], e)
      /\ po.st # "open" => dn2["pop"] = dn["pop"]
  BY <1>2, TellTypes
<1> DEFINE t == Tail(u)
           h == Head(u)
<1>4. /\ t \in Seq(UpMsgs) /\ h \in UpMsgs
      /\ \A K : h \notin K => (HasOne(u, K) => HasOne(t, K))
      /\ \A x : CountOf(u, x) = CountOf(t, x) + One(h = x) /\ CountOf(u, x) \in Nat /\ CountOf(t, x) \in Nat
      /\ \A K, G, p, q : EndsIn(u, K, G, p) /\ (h \in K => (h \in G => q)) /\ (h \notin K => (p => q))
                         => EndsIn(t, K, G, q)
  BY <1>2, TailKeeps
<1>5. /\ e.k = h
      /\ \/ h = "screen_on" /\ kp.sharer = "none" /\ kp2.sharer = "me"
         \/ h = "screen_off" /\ kp.sharer = "me" /\ kp2.sharer = "none"
  OBVIOUS
<1>6. \A g \in SessFlags : h \notin FlagMsgs(g) \cup {"state"} BY <1>5, NoFlagMsg
<1> HIDE DEF t, h
<1>7. kp2.mic = kp.mic /\ kp2.cam = kp.cam BY DEF SessFlags
<1>8. Mirrored(c, kp2, t)
  <2>1. h \notin FlagMsgs("mic") /\ h \notin FlagMsgs("cam") BY <1>6 DEF SessFlags
  <2>2. \A G, p : /\ EndsIn(u, FlagMsgs("mic"), G, p) => EndsIn(t, FlagMsgs("mic"), G, p)
                  /\ EndsIn(u, FlagMsgs("cam"), G, p) => EndsIn(t, FlagMsgs("cam"), G, p)
    BY <1>4, <2>1
  <2> QED BY <1>7, <2>2 DEF Agreeing, Mirrored
<1>9. ~c.remote BY <1>5 DEF Agreeing
<1>10. ASSUME NEW w \in Window!Wins, w = "pop" => po.st = "open"
      PROVE  Told(w, kp2, t, dn2, vw, po) /\ Streaming(w, c, t, vw, r)
  <2>1. Told(w, kp, u, dn, vw, po) /\ Streaming(w, c, u, vw, r) BY <1>10 DEF Agreeing
  <2>2. dn[w] \in Seq(DownEvts) /\ dn2[w] = Append(dn[w], e) BY <1>2, <1>3, <1>10
  <2>3. \A g \in SessFlags :
           IF e \in FlagEvts(g) THEN FlagSaid(e, g) = kp2[g]
           ELSE kp2[g] = kp[g] /\ (Ahead(w, u, po, g) => Ahead(w, t, po, g))
    <3> SUFFICES ASSUME NEW g \in SessFlags
                 PROVE  e \notin FlagEvts(g) /\ (Ahead(w, u, po, g) => Ahead(w, t, po, g))
      OBVIOUS
    <3>1. e \notin FlagEvts(g) BY <1>5, <1>6, EventKinds
    <3>2. HasOne(u, FlagMsgs(g)) => HasOne(t, FlagMsgs(g)) BY <1>4, <1>6
    <3> QED BY <3>1, <3>2 DEF Ahead
  <2>4. IF e \in ShareEvts THEN SharerSaid(e) = kp2.sharer ELSE kp2.sharer = kp.sharer /\ po.asked = po.asked
    BY <1>5, EventKinds DEF SharerSaid
  <2>5. Told(w, kp2, t, dn2, vw, po) BY <1>2, <2>1, <2>2, <2>3, <2>4, ToldMore
  <2> QED BY <1>9, <2>1, <2>5 DEF Streaming
<1>11. AgreeTypes(c, kp2, t, dn2, vw, po) BY <1>1, <1>3, <1>4 DEF AgreeTypes
<1>12. ~r.refused => Balanced(c, kp2, t)
  <2>1. CountOf(u, "screen_on") = CountOf(t, "screen_on") + One(h = "screen_on")
        /\ CountOf(u, "screen_off") = CountOf(t, "screen_off") + One(h = "screen_off")
        /\ CountOf(t, "screen_on") \in Nat /\ CountOf(t, "screen_off") \in Nat
    BY <1>4
  <2>2. ~r.refused => Balanced(c, kp, u) BY DEF Agreeing
  <2>3. CASE h = "screen_on"
    <3>1. /\ CountOf(u, "screen_on") = CountOf(t, "screen_on") + 1
          /\ CountOf(u, "screen_off") = CountOf(t, "screen_off")
      BY <2>1, <2>3 DEF One
    <3>2. One(kp.sharer = "me") = 0 /\ One(kp2.sharer = "me") = 1 BY <1>5, <2>3 DEF One
    <3>3. One(c.screen # "none") \in {0, 1} BY DEF One
    <3> QED BY <1>2, <2>1, <2>2, <3>1, <3>2, <3>3 DEF Balanced
  <2>4. CASE h = "screen_off"
    <3>1. /\ CountOf(u, "screen_on") = CountOf(t, "screen_on")
          /\ CountOf(u, "screen_off") = CountOf(t, "screen_off") + 1
      BY <2>1, <2>4 DEF One
    <3>2. One(kp.sharer = "me") = 1 /\ One(kp2.sharer = "me") = 0 BY <1>5, <2>4 DEF One
    <3>3. One(c.screen # "none") \in {0, 1} BY DEF One
    <3> DEFINE on == CountOf(t, "screen_on")
               off == CountOf(t, "screen_off")
               offs == c.offs
               own == One(c.screen # "none")
    <3>4. ~r.refused => 1 + on = own + (off + 1) + offs BY <2>2, <3>1, <3>2 DEF Balanced
    <3>5. on \in Nat /\ off \in Nat /\ offs \in Nat /\ own \in {0, 1} BY <1>2, <2>1, <3>3
    <3>6. Balanced(c, kp2, t) <=> 0 + on = own + off + offs BY <3>2 DEF Balanced
    <3> HIDE DEF on, off, offs, own
    <3> QED BY <3>4, <3>5, <3>6
  <2> QED BY <1>5, <2>3, <2>4
<1>13. Agreeing(c, kp2, t, dn2, vw, po, r) BY <1>8, <1>9, <1>10, <1>11, <1>12 DEF Agreeing
<1> QED BY <1>13 DEF t

LEMMA HandleRefused ==
    ASSUME NEW c, NEW kp, NEW u, NEW dn, NEW vw, NEW po, NEW r, NEW r2,
           Agreeing(c, kp, u, dn, vw, po, r), u # <<>>, Head(u) \in {"screen_on", "screen_off"},
           r2.refused, r2.stale = r.stale
    PROVE  Agreeing(c, kp, Tail(u), dn, vw, po, r2)
<1>1. AgreeTypes(c, kp, u, dn, vw, po) BY DEF Agreeing
<1>2. u \in Seq(UpMsgs) BY <1>1 DEF AgreeTypes
<1> DEFINE t == Tail(u)
           h == Head(u)
<1>3. /\ t \in Seq(UpMsgs)
      /\ \A K : h \notin K => (HasOne(u, K) => HasOne(t, K))
      /\ \A K, G, p, q : EndsIn(u, K, G, p) /\ (h \in K => (h \in G => q)) /\ (h \notin K => (p => q))
                         => EndsIn(t, K, G, q)
  BY <1>2, TailKeeps
<1>4. \A g \in SessFlags : h \notin FlagMsgs(g) BY NoFlagMsg
<1> HIDE DEF t, h
<1>5. Mirrored(c, kp, t)
  <2>1. h \notin FlagMsgs("mic") /\ h \notin FlagMsgs("cam") BY <1>4 DEF SessFlags
  <2>2. \A G, p : /\ EndsIn(u, FlagMsgs("mic"), G, p) => EndsIn(t, FlagMsgs("mic"), G, p)
                  /\ EndsIn(u, FlagMsgs("cam"), G, p) => EndsIn(t, FlagMsgs("cam"), G, p)
    BY <1>3, <2>1
  <2> QED BY <2>2 DEF Agreeing, Mirrored
<1>6. ASSUME NEW w \in Window!Wins, w = "pop" => po.st = "open"
      PROVE  Told(w, kp, t, dn, vw, po) /\ Streaming(w, c, t, vw, r2)
  <2>1. Told(w, kp, u, dn, vw, po) /\ Streaming(w, c, u, vw, r) BY <1>6 DEF Agreeing
  <2>2. \A f \in SessFlags : HasOne(u, FlagMsgs(f)) => HasOne(t, FlagMsgs(f)) BY <1>3, <1>4
  <2>3. Told(w, kp, t, dn, vw, po) BY <2>1, <2>2, ToldKept
  <2> QED BY <2>1, <2>3 DEF Streaming
<1>7. AgreeTypes(c, kp, t, dn, vw, po) BY <1>1, <1>3 DEF AgreeTypes
<1>8. Agreeing(c, kp, t, dn, vw, po, r2) BY <1>5, <1>6, <1>7 DEF Agreeing
<1> QED BY <1>8 DEF t

\* The client's record s, the messages and the views fit the rest.
Fits(s, dn) == Agreeing(s.c, kept, s.u, dn, s.v, popout, room)

LEMMA FlagMsgNames ==
    /\ FlagMsg("mic", TRUE) = "unmute" /\ FlagMsg("mic", FALSE) = "mute"
    /\ FlagMsg("cam", TRUE) = "video_on" /\ FlagMsg("cam", FALSE) = "video_off"
    /\ FlagMsg("hand", TRUE) = "raise_hand" /\ FlagMsg("hand", FALSE) = "unraise_hand"
    /\ {"mic", "cam", "hand"} = SessFlags
BY DEF FlagMsg, OnMsg, OffMsg, SessFlags

LEMMA SentRecord ==
    ASSUME NEW t, NEW x, Whole(t)
    PROVE  /\ Window!Sends(t, x).c = t.c /\ Window!Sends(t, x).v = t.v
           /\ Window!Sends(t, x).u = Append(t.u, x)
BY DEF Window!Sends, Whole

LEMMA SendFits ==
    ASSUME NEW s, NEW t, NEW dn, Whole(t), Fits(s, dn), NEW f \in SessFlags, NEW b \in BOOLEAN,
           t.u = s.u, t.v = [s.v EXCEPT !["widget"][f] = b],
           t.c.screen = s.c.screen, t.c.offs = s.c.offs, t.c.remote = s.c.remote,
           t.c.mic \in {"none", "off", "on"}, t.c.cam \in BOOLEAN,
           (t.c.mic = "on") = IF f = "mic" THEN b ELSE s.c.mic = "on",
           t.c.cam = IF f = "cam" THEN b ELSE s.c.cam
    PROVE  Fits(Window!Sends(t, FlagMsg(f, b)), dn)
<1> DEFINE c == s.c
           c2 == t.c
           u == s.u
           vw == s.v
           x == FlagMsg(f, b)
           y == Window!Sends(t, x)
<1>1. Agreeing(c, kept, u, dn, vw, popout, room) BY DEF Fits
<1>2. /\ c2.screen = c.screen /\ c2.offs = c.offs /\ c2.remote = c.remote
      /\ c2.mic \in {"none", "off", "on"} /\ c2.cam \in BOOLEAN
      /\ (c2.mic = "on") = (IF f = "mic" THEN b ELSE c.mic = "on")
      /\ c2.cam = (IF f = "cam" THEN b ELSE c.cam)
  OBVIOUS
<1>3. y.c = c2 /\ y.v = [vw EXCEPT !["widget"][f] = b] /\ y.u = Append(u, x) BY SentRecord
<1> HIDE DEF c, c2, u, vw
<1>4. Agreeing(c2, kept, Append(u, x), dn, [vw EXCEPT !["widget"][f] = b], popout, room)
  BY <1>1, <1>2, FlagAgrees
<1> HIDE DEF y, x
<1>5. Fits(y, dn) BY <1>3, <1>4 DEF Fits
<1> QED BY <1>5 DEF x, y

LEMMA MicFits ==
    ASSUME NEW s, NEW dn, Whole(s), Fits(s, dn)
    PROVE  /\ Fits(Window!mute(s), dn) /\ Fits(Window!unmute(s), dn) /\ Fits(Window!Unmuted(s), dn)
           /\ Fits([s EXCEPT !.c.asks = @ - 1], dn)
<1>1. /\ s.c.mic \in {"none", "off", "on"} /\ s.c.cam \in BOOLEAN
  BY DEF Fits, Agreeing, AgreeTypes
<1>2. Fits(Window!mute(s), dn)
  <2> DEFINE t == [s EXCEPT !.c.mic = "off", !.v["widget"].mic = FALSE]
             f == "mic"
             b == FALSE
  <2>1. /\ Whole(t) /\ t.u = s.u /\ t.v = [s.v EXCEPT !["widget"].mic = FALSE]
        /\ t.c.screen = s.c.screen /\ t.c.offs = s.c.offs /\ t.c.remote = s.c.remote
        /\ t.c.mic = "off" /\ t.c.cam = s.c.cam
    BY DEF Whole, ClientFields
  <2>2. f \in SessFlags /\ b \in BOOLEAN /\ FlagMsg(f, b) = "mute" BY FlagMsgNames
  <2>3. /\ t.v = [s.v EXCEPT !["widget"][f] = b]
        /\ t.c.mic \in {"none", "off", "on"} /\ t.c.cam \in BOOLEAN
        /\ (t.c.mic = "on") = (IF f = "mic" THEN b ELSE s.c.mic = "on")
        /\ t.c.cam = (IF f = "cam" THEN b ELSE s.c.cam)
    BY <1>1, <2>1
  <2> HIDE DEF t, f, b
  <2>4. Fits(Window!Sends(t, FlagMsg(f, b)), dn) BY <2>1, <2>2, <2>3, SendFits
  <2>5. Fits(Window!Sends(t, "mute"), dn) BY <2>2, <2>4
  <2> QED BY <2>5 DEF Window!mute, t
<1>3. Fits(Window!Unmuted(s), dn)
  <2> DEFINE t == [s EXCEPT !.c.mic = "on", !.c.added = TRUE, !.v["widget"].mic = TRUE]
             f == "mic"
             b == TRUE
  <2>1. /\ Whole(t) /\ t.u = s.u /\ t.v = [s.v EXCEPT !["widget"].mic = TRUE]
        /\ t.c.screen = s.c.screen /\ t.c.offs = s.c.offs /\ t.c.remote = s.c.remote
        /\ t.c.mic = "on" /\ t.c.cam = s.c.cam
    BY DEF Whole, ClientFields
  <2>2. f \in SessFlags /\ b \in BOOLEAN /\ FlagMsg(f, b) = "unmute" BY FlagMsgNames
  <2>3. /\ t.v = [s.v EXCEPT !["widget"][f] = b]
        /\ t.c.mic \in {"none", "off", "on"} /\ t.c.cam \in BOOLEAN
        /\ (t.c.mic = "on") = (IF f = "mic" THEN b ELSE s.c.mic = "on")
        /\ t.c.cam = (IF f = "cam" THEN b ELSE s.c.cam)
    BY <1>1, <2>1
  <2> HIDE DEF t, f, b
  <2>4. Fits(Window!Sends(t, FlagMsg(f, b)), dn) BY <2>1, <2>2, <2>3, SendFits
  <2>5. Fits(Window!Sends(t, "unmute"), dn) BY <2>2, <2>4
  <2> QED BY <2>5 DEF Window!Unmuted, t
<1>4. ASSUME NEW t, t.c.screen = s.c.screen, t.c.offs = s.c.offs, t.c.remote = s.c.remote, t.c.mic = s.c.mic,
             t.c.cam = s.c.cam, t.u = s.u, t.v = s.v
      PROVE  Fits(t, dn)
  <2> DEFINE c == s.c
             c2 == t.c
             u == s.u
             vw == s.v
  <2>1. Agreeing(c, kept, u, dn, vw, popout, room) BY DEF Fits
  <2>2. c2.screen = c.screen /\ c2.offs = c.offs /\ c2.remote = c.remote /\ c2.mic = c.mic /\ c2.cam = c.cam
    BY <1>4
  <2>3. t.u = u /\ t.v = vw BY <1>4
  <2> HIDE DEF c, u, vw, c2
  <2>4. Agreeing(c2, kept, u, dn, vw, popout, room) BY <2>1, <2>2, WaitAgrees
  <2> QED BY <2>3, <2>4 DEF Fits, c2
<1>5. Fits([s EXCEPT !.c.asks = @ + 1], dn) /\ Fits([s EXCEPT !.c.asks = @ - 1], dn)
  <2> DEFINE t == [s EXCEPT !.c.asks = @ + 1]
             y == [s EXCEPT !.c.asks = @ - 1]
  <2>1. /\ t.c.screen = s.c.screen /\ t.c.offs = s.c.offs /\ t.c.remote = s.c.remote /\ t.c.mic = s.c.mic
        /\ t.c.cam = s.c.cam /\ t.u = s.u /\ t.v = s.v
    BY DEF Whole, ClientFields
  <2>2. /\ y.c.screen = s.c.screen /\ y.c.offs = s.c.offs /\ y.c.remote = s.c.remote /\ y.c.mic = s.c.mic
        /\ y.c.cam = s.c.cam /\ y.u = s.u /\ y.v = s.v
    BY DEF Whole, ClientFields
  <2> HIDE DEF t, y
  <2>3. Fits(t, dn) /\ Fits(y, dn) BY <1>4, <2>1, <2>2
  <2> QED BY <2>3 DEF t, y
<1>6. Fits(Window!unmute(s), dn) BY <1>3, <1>5 DEF Window!unmute
<1> QED BY <1>2, <1>3, <1>5, <1>6

LEMMA WaitFits ==
    ASSUME NEW s, NEW t, NEW dn, Fits(s, dn),
           t.c.screen = s.c.screen, t.c.offs = s.c.offs, t.c.remote = s.c.remote, t.c.mic = s.c.mic,
           t.c.cam = s.c.cam, t.u = s.u, t.v = s.v
    PROVE  Fits(t, dn)
<1> DEFINE c == s.c
           c2 == t.c
           u == s.u
           vw == s.v
<1>1. Agreeing(c, kept, u, dn, vw, popout, room) BY DEF Fits
<1>2. c2.screen = c.screen /\ c2.offs = c.offs /\ c2.remote = c.remote /\ c2.mic = c.mic /\ c2.cam = c.cam
  OBVIOUS
<1>3. t.u = u /\ t.v = vw OBVIOUS
<1> HIDE DEF c, u, vw, c2
<1>4. Agreeing(c2, kept, u, dn, vw, popout, room) BY <1>1, <1>2, WaitAgrees
<1> QED BY <1>3, <1>4 DEF Fits, c2

LEMMA HandFits ==
    ASSUME NEW s, NEW dn, Whole(s), Fits(s, dn)
    PROVE  Fits(Window!raiseHand(s), dn) /\ Fits(Window!unraiseHand(s), dn)
<1> DEFINE f == "hand"
           t(b) == [s EXCEPT !.v["widget"].hand = b]
<1>1. f \in SessFlags /\ FlagMsg(f, TRUE) = "raise_hand" /\ FlagMsg(f, FALSE) = "unraise_hand" BY FlagMsgNames
<1>2. s.c.mic \in {"none", "off", "on"} /\ s.c.cam \in BOOLEAN
  BY DEF Fits, Agreeing, AgreeTypes
<1>3. ASSUME NEW b \in BOOLEAN PROVE Fits(Window!Sends(t(b), FlagMsg(f, b)), dn)
  <2> DEFINE y == t(b)
  <2>1. Whole(y) /\ y.u = s.u /\ y.v = [s.v EXCEPT !["widget"][f] = b] BY DEF Whole
  <2>2. /\ y.c.screen = s.c.screen /\ y.c.offs = s.c.offs /\ y.c.remote = s.c.remote
        /\ y.c.mic \in {"none", "off", "on"} /\ y.c.cam \in BOOLEAN
        /\ (y.c.mic = "on") = (IF f = "mic" THEN b ELSE s.c.mic = "on")
        /\ y.c.cam = (IF f = "cam" THEN b ELSE s.c.cam)
    BY <1>2 DEF Whole
  <2> HIDE DEF f, y
  <2>3. Fits(Window!Sends(y, FlagMsg(f, b)), dn) BY <1>1, <2>1, <2>2, SendFits
  <2> QED BY <2>3 DEF y
<1>4. Fits(Window!raiseHand(s), dn)
  <2> DEFINE b == TRUE
  <2>1. b \in BOOLEAN OBVIOUS
  <2>2. Fits(Window!Sends(t(b), FlagMsg(f, b)), dn)
    <3> HIDE DEF b, f
    <3> QED BY <1>3, <2>1
  <2> QED BY <1>1, <2>2, Zenon DEF Window!raiseHand
<1>5. Fits(Window!unraiseHand(s), dn)
  <2> DEFINE b == FALSE
  <2>1. b \in BOOLEAN OBVIOUS
  <2>2. Fits(Window!Sends(t(b), FlagMsg(f, b)), dn)
    <3> HIDE DEF b, f
    <3> QED BY <1>3, <2>1
  <2> QED BY <1>1, <2>2, Zenon DEF Window!unraiseHand
<1> QED BY <1>4, <1>5

LEMMA VideoFits ==
    ASSUME NEW s, NEW dn, Whole(s), Fits(s, dn)
    PROVE  /\ Fits(Window!stopVideo(s), dn)
           /\ Fits([s EXCEPT !.c.camAsks = @ + 1], dn)
           /\ Fits(Window!Sends([s EXCEPT !.c.camAsks = @ - 1, !.c.cam = TRUE, !.v["widget"].cam = TRUE], "video_on"), dn)
<1>1. /\ s.c.mic \in {"none", "off", "on"} /\ s.c.cam \in BOOLEAN
  BY DEF Fits, Agreeing, AgreeTypes
<1>2. Fits(Window!stopVideo(s), dn)
  <2> DEFINE t == [s EXCEPT !.c.cam = FALSE, !.v["widget"].cam = FALSE]
             f == "cam"
             b == FALSE
  <2>1. /\ Whole(t) /\ t.u = s.u /\ t.v = [s.v EXCEPT !["widget"].cam = FALSE]
        /\ t.c.screen = s.c.screen /\ t.c.offs = s.c.offs /\ t.c.remote = s.c.remote
        /\ t.c.mic = s.c.mic /\ t.c.cam = FALSE
    BY DEF Whole, ClientFields
  <2>2. f \in SessFlags /\ b \in BOOLEAN /\ FlagMsg(f, b) = "video_off" BY FlagMsgNames
  <2>3. /\ t.v = [s.v EXCEPT !["widget"][f] = b]
        /\ t.c.mic \in {"none", "off", "on"} /\ t.c.cam \in BOOLEAN
        /\ (t.c.mic = "on") = (IF f = "mic" THEN b ELSE s.c.mic = "on")
        /\ t.c.cam = (IF f = "cam" THEN b ELSE s.c.cam)
    BY <1>1, <2>1
  <2> HIDE DEF t, f, b
  <2>4. Fits(Window!Sends(t, FlagMsg(f, b)), dn) BY <2>1, <2>2, <2>3, SendFits
  <2>5. Fits(Window!Sends(t, "video_off"), dn) BY <2>2, <2>4
  <2> QED BY <2>5 DEF Window!stopVideo, t
<1>3. Fits(Window!Sends([s EXCEPT !.c.camAsks = @ - 1, !.c.cam = TRUE, !.v["widget"].cam = TRUE], "video_on"), dn)
  <2> DEFINE t == [s EXCEPT !.c.camAsks = @ - 1, !.c.cam = TRUE, !.v["widget"].cam = TRUE]
             f == "cam"
             b == TRUE
  <2>1. /\ Whole(t) /\ t.u = s.u /\ t.v = [s.v EXCEPT !["widget"].cam = TRUE]
        /\ t.c.screen = s.c.screen /\ t.c.offs = s.c.offs /\ t.c.remote = s.c.remote
        /\ t.c.mic = s.c.mic /\ t.c.cam = TRUE
    BY DEF Whole, ClientFields
  <2>2. f \in SessFlags /\ b \in BOOLEAN /\ FlagMsg(f, b) = "video_on" BY FlagMsgNames
  <2>3. /\ t.v = [s.v EXCEPT !["widget"][f] = b]
        /\ t.c.mic \in {"none", "off", "on"} /\ t.c.cam \in BOOLEAN
        /\ (t.c.mic = "on") = (IF f = "mic" THEN b ELSE s.c.mic = "on")
        /\ t.c.cam = (IF f = "cam" THEN b ELSE s.c.cam)
    BY <1>1, <2>1
  <2> HIDE DEF t, f, b
  <2>4. Fits(Window!Sends(t, FlagMsg(f, b)), dn) BY <2>1, <2>2, <2>3, SendFits
  <2>5. Fits(Window!Sends(t, "video_on"), dn) BY <2>2, <2>4
  <2> QED BY <2>5 DEF t
<1>4. Fits([s EXCEPT !.c.camAsks = @ + 1], dn)
  <2> DEFINE t == [s EXCEPT !.c.camAsks = @ + 1]
  <2>1. /\ t.c.screen = s.c.screen /\ t.c.offs = s.c.offs /\ t.c.remote = s.c.remote /\ t.c.mic = s.c.mic
        /\ t.c.cam = s.c.cam /\ t.u = s.u /\ t.v = s.v
    BY DEF Whole, ClientFields
  <2> HIDE DEF t
  <2>2. Fits(t, dn) BY <2>1, WaitFits
  <2> QED BY <2>2 DEF t
<1> QED BY <1>2, <1>3, <1>4

LEMMA ScreenFits ==
    ASSUME NEW s, NEW dn, Whole(s), Fits(s, dn)
    PROVE  /\ Fits(Window!unshareScreen(s), dn)
           /\ s.c.offs > 0 => Fits(Window!Sends([s EXCEPT !.c.offs = @ - 1], "screen_off"), dn)
<1> DEFINE c == s.c
           u == s.u
           vw == s.v
<1>1. Agreeing(c, kept, u, dn, vw, popout, room) BY DEF Fits
<1>2. ASSUME c.screen # "none" PROVE Fits(Window!unshareScreen(s), dn)
  <2> DEFINE t == Window!unshareScreen(s)
             c2 == t.c
  <2>1. /\ c2.screen = "none" /\ c2.offs = c.offs + 1 /\ c2.remote = c.remote /\ c2.mic = c.mic
        /\ c2.cam = c.cam /\ t.u = u /\ t.v = vw
    BY <1>2 DEF Whole, ClientFields, Window!unshareScreen
  <2> HIDE DEF c, u, vw, t, c2
  <2>2. Agreeing(c2, kept, u, dn, vw, popout, room) BY <1>1, <1>2, <2>1, UnshareAgrees
  <2>3. Fits(t, dn) BY <2>1, <2>2 DEF Fits, c2
  <2> QED BY <2>3 DEF t
<1>3. c.screen = "none" => Fits(Window!unshareScreen(s), dn) BY DEF Window!unshareScreen
<1>4. ASSUME s.c.offs > 0 PROVE Fits(Window!Sends([s EXCEPT !.c.offs = @ - 1], "screen_off"), dn)
  <2> DEFINE t == [s EXCEPT !.c.offs = @ - 1]
             y == Window!Sends(t, "screen_off")
             c2 == t.c
  <2>1. /\ c2.screen = c.screen /\ c2.offs = c.offs - 1 /\ c2.remote = c.remote /\ c2.mic = c.mic
        /\ c2.cam = c.cam /\ t.u = u /\ t.v = vw /\ Whole(t)
    BY DEF Whole, ClientFields
  <2>2. c.offs > 0 BY <1>4
  <2>3. y.c = c2 /\ y.v = vw /\ y.u = Append(u, "screen_off") BY <2>1, SentRecord
  <2> HIDE DEF c, u, vw, t, c2
  <2>4. Agreeing(c2, kept, Append(u, "screen_off"), dn, vw, popout, room) BY <1>1, <2>1, <2>2, RemovedAgrees
  <2> HIDE DEF y
  <2>5. Fits(y, dn) BY <2>3, <2>4 DEF Fits
  <2> QED BY <2>5 DEF t, y
<1> QED BY <1>2, <1>3, <1>4

LEMMA ShareFits ==
    ASSUME NEW s, NEW dn, NEW w \in Window!Wins, Whole(s), Fits(s, dn)
    PROVE  Fits(Window!setScreenStream(s, w), dn)
<1> DEFINE c == s.c
           u == s.u
           vw == s.v
           t == [s EXCEPT !.c.screen = w, !.v["widget"].stream = "local",
                          !.v["pop"].stream = IF popout.st = "open" THEN "local" ELSE @]
           y == Window!Sends(t, "screen_on")
           c2 == t.c
           vw2 == t.v
<1>1. Agreeing(c, kept, u, dn, vw, popout, room) BY DEF Fits
<1>2. s.c.life = "closed" \/ c.screen # "none" => Window!setScreenStream(s, w) = s BY DEF Window!setScreenStream
<1>3. ASSUME s.c.life # "closed", c.screen = "none" PROVE Fits(y, dn)
  <2>1. vw \in [Window!Wins -> WinViews] BY <1>1 DEF Agreeing, AgreeTypes
  <2>2. /\ c2.screen = w /\ c2.offs = c.offs /\ c2.remote = c.remote /\ c2.mic = c.mic
        /\ c2.cam = c.cam /\ t.u = u /\ Whole(t)
        /\ t.v = [vw EXCEPT !["widget"].stream = "local",
                            !["pop"].stream = IF popout.st = "open" THEN "local" ELSE @]
    BY DEF Whole, ClientFields
  <2>3. /\ vw2 \in [Window!Wins -> WinViews]
        /\ \A x \in Window!Wins : /\ \A f \in SessFlags : vw2[x][f] = vw[x][f]
                                  /\ vw2[x].sharer = vw[x].sharer
                                  /\ (x = "pop" => popout.st = "open") => vw2[x].stream = "local"
    <3> DEFINE a == vw["widget"]
               b == vw["pop"]
               a2 == [a EXCEPT !.stream = "local"]
               new == IF popout.st = "open" THEN "local" ELSE b.stream
               b2 == [b EXCEPT !.stream = new]
    <3>1. a \in WinViews /\ b \in WinViews BY <2>1 DEF Window!Wins
    <3>2. vw2 = [vw EXCEPT !["widget"] = a2, !["pop"] = b2] BY <2>1, <2>2 DEF Window!Wins
    <3>3. new \in {"none", "local", "remote"} BY <3>1, ViewFields
    <3> HIDE DEF a, b, new
    <3>4. /\ a2 \in WinViews /\ (\A g \in SessFlags : a2[g] = a[g]) /\ a2.sharer = a.sharer /\ a2.stream = "local"
          /\ b2 \in WinViews /\ (\A g \in SessFlags : b2[g] = b[g]) /\ b2.sharer = b.sharer /\ b2.stream = new
      <4> DEFINE x == "local"
      <4>1. a2 = [a EXCEPT !.stream = x] /\ b2 = [b EXCEPT !.stream = new] /\ x \in {"none", "local", "remote"}
        OBVIOUS
      <4> HIDE DEF x, a2, b2
      <4>2. a2 \in WinViews /\ (\A g \in SessFlags : a2[g] = a[g]) /\ a2.sharer = a.sharer /\ a2.stream = x
        BY <3>1, <4>1, ViewStreamed
      <4>3. b2 \in WinViews /\ (\A g \in SessFlags : b2[g] = b[g]) /\ b2.sharer = b.sharer /\ b2.stream = new
        BY <3>1, <3>3, <4>1, ViewStreamed
      <4> QED BY <4>2, <4>3 DEF x
    <3> HIDE DEF a2, b2, vw, vw2
    <3>5. vw2["widget"] = a2 /\ vw2["pop"] = b2 /\ vw2 \in [Window!Wins -> WinViews]
      BY <2>1, <3>2, <3>4 DEF Window!Wins
    <3> QED BY <3>4, <3>5 DEF Window!Wins, a, b, new
  <2>4. c2.screen # "none" BY <2>2 DEF Window!Wins
  <2> HIDE DEF c, u, vw, t
  <2>5. y.c = c2 /\ y.v = vw2 /\ y.u = Append(u, "screen_on") BY <2>2, SentRecord
  <2> HIDE DEF c2, vw2
  <2>6. Agreeing(c2, kept, Append(u, "screen_on"), dn, vw2, popout, room)
    BY <1>1, <1>3, <2>2, <2>3, <2>4, ShareAgrees
  <2> HIDE DEF y
  <2> QED BY <2>5, <2>6 DEF Fits
<1>4. s.c.life # "closed" /\ c.screen = "none" => Window!setScreenStream(s, w) = y
  BY DEF Window!setScreenStream
<1> HIDE DEF y, c
<1> QED BY <1>2, <1>3, <1>4

\* What is left of the pop-out and of the room.
Resting ==
    /\ kept' = kept /\ popout'.st = popout.st /\ popout'.asked = popout.asked
    /\ room'.refused = room.refused /\ room'.stale = room.stale

LEMMA RestAgrees ==
    ASSUME NEW c, NEW kp, NEW u, NEW dn, NEW vw, NEW po, NEW po2, NEW r, NEW r2,
           Agreeing(c, kp, u, dn, vw, po, r),
           po2.st = po.st, po2.asked = po.asked, r2.refused = r.refused, r2.stale = r.stale
    PROVE  Agreeing(c, kp, u, dn, vw, po2, r2)
BY DEF Agreeing, AgreeTypes, Told, Ahead, Streaming

LEMMA NowFits ==
    ASSUME AgreeInv, client.life # "closed"
    PROVE  Fits(Window!Now, down) /\ Agreeing(client, kept, up, down, view, popout, room)
BY DEF AgreeInv, Fits, Window!Now

\* A handler that makes a record which fits keeps the invariant.
LEMMA FitsKept ==
    ASSUME NEW t, NEW dn, Window!Becomes(t), Fits(t, dn), down' = dn, Resting PROVE AgreeInv'
<1>1. Agreeing(client', kept, up', dn, view', popout, room) BY DEF Fits, Window!Becomes
<1>2. kept' = kept /\ popout'.st = popout.st /\ popout'.asked = popout.asked
      /\ room'.refused = room.refused /\ room'.stale = room.stale
  BY DEF Resting
<1> DEFINE c == client'
           u == up'
           vw == view'
           po == popout'
           r == room'
<1> HIDE DEF c, u, vw, po, r
<1>3. Agreeing(c, kept, u, dn, vw, popout, room) BY <1>1 DEF c, u, vw
<1>4. po.st = popout.st /\ po.asked = popout.asked /\ r.refused = room.refused /\ r.stale = room.stale
  BY <1>2 DEF po, r
<1>5. Agreeing(c, kept, u, dn, vw, po, r) BY <1>3, <1>4, RestAgrees
<1> QED BY <1>2, <1>5 DEF AgreeInv, c, u, vw, po, r

LEMMA HandlerKept ==
    ASSUME AgreeInv, NEW t, Window!Becomes(t), t.c.life = client.life,
           client.life # "closed" => Fits(t, down), down' = down, Resting
    PROVE  AgreeInv'
<1>1. CASE client.life = "closed"
  <2>1. client'.life = "closed" BY <1>1 DEF Window!Becomes
  <2> QED BY <2>1 DEF AgreeInv
<1>2. CASE client.life # "closed"
  <2> DEFINE dn == down
  <2>1. Fits(t, dn) /\ down' = dn BY <1>2
  <2> HIDE DEF dn
  <2> QED BY <2>1, FitsKept
<1> QED BY <1>1, <1>2

LEMMA RestsSame ==
    ASSUME UNCHANGED <<kept, popout, room>> PROVE Resting
BY DEF Resting

LEMMA TalkAgrees ==
    ASSUME WindowInv, AgreeInv,
           \/ \E w \in Window!Wins : Window!onMuteToggle(w) \/ Window!onVideoToggle(w) \/ Window!onRaiseHandToggle(w)
           \/ Window!handleKBShortcuts \/ Window!handleKeyUp \/ Window!MicReady \/ Window!MicDenied
           \/ Window!CamReady \/ Window!TrackRemoved
    PROVE  AgreeInv'
<1> DEFINE s == Window!Now
<1>1. Whole(s) BY NowWhole
<1>2. client.life # "closed" => Fits(s, down) BY NowFits
<1>3. s.c = client BY DEF Window!Now
<1>4. \A t : Handled(s, t) => t.c.life = client.life BY <1>3 DEF Handled
<1> HIDE DEF s
<1>5. /\ Window!mute(s).c.life = client.life /\ Window!unmute(s).c.life = client.life
      /\ [s EXCEPT !.c.asks = @ - 1].c.life = client.life
  BY <1>1, <1>4, MicHandled
<1>6. client.life # "closed" => /\ Fits(Window!mute(s), down) /\ Fits(Window!unmute(s), down)
                                /\ Fits([s EXCEPT !.c.asks = @ - 1], down)
  BY <1>1, <1>2, MicFits
<1>7. ASSUME NEW w \in Window!Wins, Window!onMuteToggle(w) PROVE AgreeInv'
  <2>1. /\ Window!Becomes(Window!unmute(s)) \/ Window!Becomes(Window!mute(s))
        /\ down' = down /\ UNCHANGED <<kept, popout, room>>
    BY <1>7 DEF Window!onMuteToggle, Window!Rest, s
  <2> QED BY <1>5, <1>6, <2>1, RestsSame, HandlerKept
<1>8. ASSUME NEW w \in Window!Wins, Window!onVideoToggle(w) PROVE AgreeInv'
  <2> DEFINE t == [s EXCEPT !.c.camAsks = @ + 1]
  <2>1. /\ Window!Becomes(Window!stopVideo(s)) \/ Window!Becomes(t)
        /\ down' = down /\ UNCHANGED <<kept, popout, room>>
    BY <1>8 DEF Window!onVideoToggle, Window!Rest, s
  <2>2. Window!stopVideo(s).c.life = client.life /\ t.c.life = client.life
    BY <1>1, <1>4, VideoHandled
  <2>3. client.life # "closed" => Fits(Window!stopVideo(s), down) /\ Fits(t, down)
    BY <1>1, <1>2, VideoFits
  <2> HIDE DEF t
  <2> QED BY <2>1, <2>2, <2>3, RestsSame, HandlerKept
<1>9. ASSUME NEW w \in Window!Wins, Window!onRaiseHandToggle(w) PROVE AgreeInv'
  <2>1. /\ Window!Becomes(Window!unraiseHand(s)) \/ Window!Becomes(Window!raiseHand(s))
        /\ down' = down /\ UNCHANGED <<kept, popout, room>>
    BY <1>9 DEF Window!onRaiseHandToggle, Window!Rest, s
  <2>2. Window!raiseHand(s).c.life = client.life /\ Window!unraiseHand(s).c.life = client.life
    BY <1>1, <1>4, HandHandled
  <2>3. client.life # "closed" => Fits(Window!raiseHand(s), down) /\ Fits(Window!unraiseHand(s), down)
    BY <1>1, <1>2, HandFits
  <2> QED BY <2>1, <2>2, <2>3, RestsSame, HandlerKept
<1>10. DOMAIN popout = PopoutFields BY DEF WindowInv
<1>11. CASE Window!handleKBShortcuts
  <2>1. /\ Window!Becomes(Window!unmute(s)) /\ down' = down /\ UNCHANGED <<kept, room>>
        /\ popout' = [popout EXCEPT !.ptt = TRUE]
    BY <1>11 DEF Window!handleKBShortcuts, s
  <2>2. Resting BY <1>10, <2>1 DEF Resting, PopoutFields
  <2> QED BY <1>5, <1>6, <2>1, <2>2, HandlerKept
<1>12. CASE Window!handleKeyUp
  <2>1. /\ Window!Becomes(Window!mute(s)) /\ down' = down /\ UNCHANGED <<kept, room>>
        /\ popout' = [popout EXCEPT !.ptt = FALSE]
    BY <1>12 DEF Window!handleKeyUp, s
  <2>2. Resting BY <1>10, <2>1 DEF Resting, PopoutFields
  <2> QED BY <1>5, <1>6, <2>1, <2>2, HandlerKept
<1>13. CASE Window!MicReady
  <2> DEFINE t == [s EXCEPT !.c.asks = @ - 1]
             y == Window!Unmuted(t)
  <2>1. Window!Becomes(y) /\ down' = down /\ UNCHANGED <<kept, popout, room>>
    BY <1>13 DEF Window!MicReady, Window!Rest, s
  <2>2. Whole(t) /\ t.c.life = client.life /\ (client.life # "closed" => Fits(t, down))
    BY <1>1, <1>5, <1>6, MicHandled
  <2> HIDE DEF t
  <2>3. Handled(t, y) /\ (client.life # "closed" => Fits(y, down)) BY <2>2, MicHandled, MicFits
  <2>4. y.c.life = client.life BY <2>2, <2>3 DEF Handled
  <2> HIDE DEF y
  <2> QED BY <2>1, <2>3, <2>4, RestsSame, HandlerKept
<1>14. CASE Window!MicDenied
  <2> DEFINE t == [s EXCEPT !.c.asks = @ - 1]
  <2>1. Window!Becomes(t) /\ down' = down /\ UNCHANGED <<kept, popout, room>>
    BY <1>14 DEF Window!MicDenied, Window!Rest, s
  <2>2. t.c.life = client.life /\ (client.life # "closed" => Fits(t, down)) BY <1>5, <1>6
  <2> HIDE DEF t
  <2> QED BY <2>1, <2>2, RestsSame, HandlerKept
<1>15. CASE Window!CamReady
  <2> DEFINE t == Window!Sends([s EXCEPT !.c.camAsks = @ - 1, !.c.cam = TRUE, !.v["widget"].cam = TRUE], "video_on")
  <2>1. Window!Becomes(t) /\ down' = down /\ UNCHANGED <<kept, popout, room>>
    BY <1>15 DEF Window!CamReady, Window!Rest, s
  <2>2. Handled(s, t) BY <1>1, VideoHandled
  <2>3. client.life # "closed" => Fits(t, down) BY <1>1, <1>2, VideoFits
  <2> HIDE DEF t
  <2>4. t.c.life = client.life BY <1>4, <2>2
  <2> QED BY <2>1, <2>3, <2>4, RestsSame, HandlerKept
<1>16. CASE Window!TrackRemoved
  <2> DEFINE t == Window!Sends([s EXCEPT !.c.offs = @ - 1], "screen_off")
  <2>1. Window!Becomes(t) /\ down' = down /\ UNCHANGED <<kept, popout, room>> /\ client.offs > 0
    BY <1>16 DEF Window!TrackRemoved, Window!Rest, s
  <2>2. Handled(s, t) BY <1>1, VideoHandled
  <2>3. client.life # "closed" => Fits(t, down) BY <1>1, <1>2, <1>3, <2>1, ScreenFits
  <2> HIDE DEF t
  <2>4. t.c.life = client.life BY <1>4, <2>2
  <2> QED BY <2>1, <2>3, <2>4, RestsSame, HandlerKept
<1> QED BY <1>7, <1>8, <1>9, <1>11, <1>12, <1>13, <1>14, <1>15, <1>16

\* An own screen that the server has not heard of is being announced.
LEMMA OwnAnnounced ==
    ASSUME NEW c, NEW kp, NEW u, NEW dn, NEW vw, NEW po, NEW r,
           Agreeing(c, kp, u, dn, vw, po, r), c.screen # "none", kp.sharer # "me", ~r.refused
    PROVE  HasOne(u, {"screen_on"})
<1>1. u \in Seq(UpMsgs) /\ c.offs \in Nat BY DEF Agreeing, AgreeTypes
<1>2. CountOf(u, "screen_on") \in Nat /\ CountOf(u, "screen_off") \in Nat BY <1>1, CountsAreNat
<1>3. Balanced(c, kp, u) BY DEF Agreeing
<1>4. One(kp.sharer = "me") = 0 /\ One(c.screen # "none") = 1 BY DEF One
<1>5. CountOf(u, "screen_on") # 0
  <2> DEFINE on == CountOf(u, "screen_on")
             off == CountOf(u, "screen_off")
             offs == c.offs
  <2>1. 0 + on = 1 + off + offs BY <1>3, <1>4 DEF Balanced
  <2>2. on \in Nat /\ off \in Nat /\ offs \in Nat BY <1>1, <1>2
  <2> HIDE DEF on, off, offs
  <2>3. on # 0 BY <2>1, <2>2
  <2> QED BY <2>3 DEF on
<1> DEFINE x == "screen_on"
<1>6. CountOf(u, x) # 0 BY <1>5
<1> HIDE DEF x
<1>7. HasOne(u, {x}) BY <1>1, <1>6, CountedHas
<1> QED BY <1>7 DEF x

\* One window shows another stream.
LEMMA StreamShown ==
    ASSUME NEW vw \in [Window!Wins -> WinViews], NEW w \in Window!Wins, NEW x \in {"none", "local", "remote"},
           NEW vw2, vw2 = [vw EXCEPT ![w].stream = x]
    PROVE  /\ vw2 \in [Window!Wins -> WinViews] /\ vw2[w].stream = x
           /\ \A y \in Window!Wins : /\ \A f \in SessFlags : vw2[y][f] = vw[y][f]
                                     /\ vw2[y].sharer = vw[y].sharer
                                     /\ y # w => vw2[y].stream = vw[y].stream
<1> DEFINE v == vw[w]
           v2 == [v EXCEPT !.stream = x]
<1>1. v \in WinViews /\ vw2 = [vw EXCEPT ![w] = v2] BY Zenon
<1>2. v2 = [v EXCEPT !.stream = x] OBVIOUS
<1> HIDE DEF v, v2
<1>3. v2 \in WinViews /\ (\A g \in SessFlags : v2[g] = v[g]) /\ v2.sharer = v.sharer /\ v2.stream = x
  BY <1>1, <1>2, ViewStreamed
<1>4. vw2[w] = v2 /\ vw2 \in [Window!Wins -> WinViews] /\ \A y \in Window!Wins : y # w => vw2[y] = vw[y]
  BY <1>1, <1>3
<1> QED BY <1>3, <1>4 DEF v

LEMMA ScreenAgrees ==
    ASSUME WindowInv, AgreeInv, NEW w \in Window!Wins,
           \/ Window!onShareScreenToggle(w) \/ Window!shareScreen(w) \/ Window!PickCancelled(w)
           \/ Window!StreamAdded(w) \/ Window!CaptureEnds
    PROVE  AgreeInv'
<1> DEFINE s == Window!Now
           t == Window!unshareScreen(s)
<1>1. Whole(s) BY NowWhole
<1>2. client.life # "closed" => Fits(s, down) BY NowFits
<1>3. s.c = client /\ s.v = view /\ s.u = up BY DEF Window!Now
<1>4. /\ Whole(t) /\ t.c.life = client.life /\ t.c.screen = "none" /\ t.c.remote = client.remote
      /\ t.v = view /\ t.u = up
  BY <1>1, <1>3 DEF Window!unshareScreen, Whole, ClientFields
<1>5. client.life # "closed" => Fits(t, down) BY <1>1, <1>2, ScreenFits
<1>6. DOMAIN room = RoomFields /\ DOMAIN popout = PopoutFields /\ DOMAIN client = ClientFields BY DEF WindowInv
<1> HIDE DEF s
<1>7. CASE Window!CaptureEnds
  <2>1. Window!Becomes(t) /\ down' = down /\ UNCHANGED <<kept, popout, room>>
    BY <1>7 DEF Window!CaptureEnds, Window!Rest, s
  <2> HIDE DEF t
  <2> QED BY <1>4, <1>5, <2>1, RestsSame, HandlerKept
<1>8. CASE Window!PickCancelled(w)
  <2> DEFINE y == [s EXCEPT !.c.picks = @ \ {w}]
  <2>1. Window!Becomes(y) /\ down' = down /\ UNCHANGED <<kept, popout, room>>
    BY <1>8 DEF Window!PickCancelled, Window!Rest, s
  <2>2. /\ y.c.screen = s.c.screen /\ y.c.offs = s.c.offs /\ y.c.remote = s.c.remote /\ y.c.mic = s.c.mic
        /\ y.c.cam = s.c.cam /\ y.u = s.u /\ y.v = s.v /\ y.c.life = client.life
    BY <1>1, <1>3 DEF Whole, ClientFields
  <2> HIDE DEF y
  <2>3. client.life # "closed" => Fits(y, down) BY <1>2, <2>2, WaitFits
  <2> QED BY <2>1, <2>2, <2>3, RestsSame, HandlerKept
<1>9. CASE Window!shareScreen(w)
  <2> DEFINE y == [s EXCEPT !.c.picks = @ \ {w}]
             z == Window!setScreenStream(y, w)
             o == [z EXCEPT !.c.sets = @ \cup {w}]
             taken == client.screen = "none"
  <2>1. /\ Window!Becomes(o) /\ down' = down /\ kept' = kept
        /\ popout' = [popout EXCEPT !.track = IF w = "pop" THEN taken ELSE @]
        /\ room' = [room EXCEPT !.twice = @ \/ ~taken]
    BY <1>9 DEF Window!shareScreen, s
  <2>2. /\ y.c.screen = s.c.screen /\ y.c.offs = s.c.offs /\ y.c.remote = s.c.remote /\ y.c.mic = s.c.mic
        /\ y.c.cam = s.c.cam /\ y.u = s.u /\ y.v = s.v /\ y.c.life = client.life /\ Whole(y)
    BY <1>1, <1>3 DEF Whole, ClientFields
  <2>3. Resting BY <1>6, <2>1 DEF Resting, PopoutFields, RoomFields
  <2> HIDE DEF y
  <2>4. client.life # "closed" => Fits(y, down) BY <1>2, <2>2, WaitFits
  <2>5. Whole(z) /\ z.c.life = client.life /\ (client.life # "closed" => Fits(z, down))
    BY <2>2, <2>4, SharedFrom, ShareFits
  <2> HIDE DEF z
  <2>6. /\ o.c.screen = z.c.screen /\ o.c.offs = z.c.offs /\ o.c.remote = z.c.remote /\ o.c.mic = z.c.mic
        /\ o.c.cam = z.c.cam /\ o.u = z.u /\ o.v = z.v /\ o.c.life = client.life
    BY <2>5 DEF Whole, ClientFields
  <2> HIDE DEF o
  <2>7. client.life # "closed" => Fits(o, down) BY <2>5, <2>6, WaitFits
  <2> QED BY <2>1, <2>3, <2>6, <2>7, HandlerKept
<1>10. CASE Window!StreamAdded(w)
  <2>1. /\ client' = [client EXCEPT !.sets = @ \ {w}] /\ UNCHANGED <<kept, up, down, popout>>
        /\ view' = [view EXCEPT ![w].stream = IF Window!Shown(w) THEN "local" ELSE @]
        /\ room' = [room EXCEPT !.stale = @ \/ (Window!Shown(w) /\ client.screen = "none")]
    BY <1>10 DEF Window!StreamAdded
  <2>2. /\ client'.screen = client.screen /\ client'.offs = client.offs /\ client'.remote = client.remote
        /\ client'.mic = client.mic /\ client'.cam = client.cam /\ client'.life = client.life
    BY <1>6, <2>1 DEF ClientFields
  <2>3. room'.refused = room.refused /\ (room'.stale <=> room.stale \/ (Window!Shown(w) /\ client.screen = "none"))
    BY <1>6, <2>1 DEF RoomFields
  <2>4. CASE client.life = "closed" BY <2>2, <2>4 DEF AgreeInv
  <2>5. CASE client.life # "closed"
    <3> DEFINE x == IF Window!Shown(w) THEN "local" ELSE view[w].stream
               vw2 == view'
               c2 == client'
               r2 == room'
    <3>1. Agreeing(client, kept, up, down, view, popout, room) BY <2>5 DEF AgreeInv
    <3>2. view \in [Window!Wins -> WinViews] BY <3>1 DEF Agreeing, AgreeTypes
    <3>3. x \in {"none", "local", "remote"}
      <4>1. view[w] \in WinViews BY <3>2
      <4> QED BY <4>1, ViewFields
    <3>4. vw2 = [view EXCEPT ![w].stream = x] BY <2>1, <3>2
    <3> HIDE DEF x, vw2
    <3>5. /\ vw2 \in [Window!Wins -> WinViews] /\ vw2[w].stream = x
          /\ \A y \in Window!Wins : /\ \A f \in SessFlags : vw2[y][f] = view[y][f]
                                    /\ vw2[y].sharer = view[y].sharer
                                    /\ y # w => vw2[y].stream = view[y].stream
      BY <3>2, <3>3, <3>4, StreamShown
    <3>6. c2.remote => kept.sharer = "other" BY <2>2, <3>1 DEF Agreeing
    <3>7. ASSUME NEW y \in Window!Wins, y = "pop" => popout.st = "open" PROVE Streaming(y, c2, up, vw2, r2)
      <4>1. Streaming(y, client, up, view, room) BY <3>1, <3>7 DEF Agreeing
      <4>2. CASE y # w BY <2>2, <2>3, <3>5, <4>1, <4>2 DEF Streaming
      <4>3. CASE y = w
        <5>1. Window!Shown(w) BY <2>5, <3>7, <4>3 DEF Window!Shown
        <5>2. vw2[w].stream = "local" BY <3>5, <5>1 DEF x
        <5>3. ASSUME c2.remote, ~r2.refused, ~r2.stale PROVE HasOne(up, {"screen_on"})
          <6>1. client.screen # "none" BY <2>3, <5>1, <5>3
          <6>2. kept.sharer # "me" /\ ~room.refused BY <2>3, <3>6, <5>3
          <6> QED BY <3>1, <6>1, <6>2, OwnAnnounced
        <5> QED BY <4>3, <5>2, <5>3 DEF Streaming
      <4> QED BY <4>2, <4>3
    <3>8. /\ c2.screen = client.screen /\ c2.offs = client.offs /\ c2.mic = client.mic /\ c2.cam = client.cam
          /\ r2.refused = room.refused
      BY <2>2, <2>3
    <3> HIDE DEF c2, r2
    <3>9. Agreeing(c2, kept, up, down, vw2, popout, r2) BY <3>1, <3>5, <3>6, <3>7, <3>8, StreamAgrees
    <3> QED BY <2>1, <3>9 DEF AgreeInv, c2, r2, vw2
  <2> QED BY <2>4, <2>5
<1>11. CASE Window!onShareScreenToggle(w)
  <2>1. client.life # "closed" /\ (w = "pop" => popout.st = "open") /\ UNCHANGED <<kept, down, popout>>
        /\ room' = [room EXCEPT !.stale = @ \/ (Window!IsSharing(w) /\ view[w].stream = "remote")]
    BY <1>11 DEF Window!onShareScreenToggle, Window!Pressed, Window!Shown
  <2>2. room'.refused = room.refused /\ (room'.stale <=> room.stale \/ (Window!IsSharing(w) /\ view[w].stream = "remote"))
    BY <1>6, <2>1 DEF RoomFields
  <2>3. CASE ~Window!IsSharing(w)
    <3> DEFINE y == [s EXCEPT !.c.picks = IF Window!SharerSeen(w) = "none" THEN @ \cup {w} ELSE @]
    <3>1. Window!Becomes(y) BY <1>11, <2>3 DEF Window!onShareScreenToggle, s
    <3>2. /\ y.c.screen = s.c.screen /\ y.c.offs = s.c.offs /\ y.c.remote = s.c.remote /\ y.c.mic = s.c.mic
          /\ y.c.cam = s.c.cam /\ y.u = s.u /\ y.v = s.v /\ y.c.life = client.life
      BY <1>1, <1>3 DEF Whole, ClientFields
    <3>3. room' = [room EXCEPT !.stale = room.stale \/ FALSE] BY <2>1, <2>3
    <3>4. Agreeing(client, kept, up, down, view, popout, room) BY <2>1 DEF AgreeInv
    <3> HIDE DEF y
    <3>5. Fits(y, down) BY <1>2, <2>1, <3>2, WaitFits
    <3>6. Agreeing(client', kept, up', down, view', popout, room) BY <3>1, <3>5 DEF Fits, Window!Becomes
    <3> DEFINE c2 == client'
               u2 == up'
               vw2 == view'
               r2 == room'
    <3> HIDE DEF c2, u2, vw2, r2
    <3>7. Agreeing(c2, kept, u2, down, vw2, popout, room) BY <3>6 DEF c2, u2, vw2
    <3>8. r2.refused = room.refused /\ (r2.stale <=> room.stale) BY <2>2, <2>3 DEF r2
    <3>9. Agreeing(c2, kept, u2, down, vw2, popout, r2) BY <3>7, <3>8 DEF Agreeing, Streaming
    <3> QED BY <2>1, <3>9 DEF AgreeInv, c2, u2, vw2, r2
  <2>4. CASE Window!IsSharing(w)
    <3> DEFINE y == [t EXCEPT !.v[w].stream = "none"]
               x == "none"
               vw2 == y.v
               c2 == t.c
               r2 == room'
    <3>1. Window!Becomes(y) BY <1>11, <2>4 DEF Window!onShareScreenToggle, s
    <3>2. Agreeing(c2, kept, up, down, view, popout, room) BY <1>4, <1>5, <2>1 DEF Fits
    <3> HIDE DEF t
    <3>3. y.c = c2 /\ y.u = up /\ vw2 = [view EXCEPT ![w].stream = x] BY <1>4 DEF Whole
    <3>4. view \in [Window!Wins -> WinViews] BY <3>2 DEF Agreeing, AgreeTypes
    <3>5. x \in {"none", "local", "remote"} OBVIOUS
    <3> HIDE DEF x, vw2, y
    <3>6. /\ vw2 \in [Window!Wins -> WinViews] /\ vw2[w].stream = x
          /\ \A a \in Window!Wins : /\ \A f \in SessFlags : vw2[a][f] = view[a][f]
                                    /\ vw2[a].sharer = view[a].sharer
                                    /\ a # w => vw2[a].stream = view[a].stream
      <4>1. vw2 = [view EXCEPT ![w].stream = x] BY <3>3
      <4> QED BY <3>4, <3>5, <4>1, StreamShown
    <3>7. c2.screen = "none" /\ (c2.remote => kept.sharer = "other") /\ c2.remote = client.remote
      BY <1>4, <3>2 DEF Agreeing
    <3>8. ASSUME NEW a \in Window!Wins, a = "pop" => popout.st = "open" PROVE Streaming(a, c2, up, vw2, r2)
      <4>1. Streaming(a, c2, up, view, room) BY <3>2, <3>8 DEF Agreeing
      <4>2. CASE a # w BY <2>2, <3>6, <4>1, <4>2 DEF Streaming
      <4>3. CASE a = w BY <2>2, <2>4, <3>7, <4>1, <4>3 DEF Streaming
      <4> QED BY <4>2, <4>3
    <3>9. r2.refused = room.refused BY <2>2
    <3> HIDE DEF c2, r2
    <3>10. Agreeing(c2, kept, up, down, vw2, popout, r2) BY <3>2, <3>6, <3>7, <3>8, <3>9, StreamAgrees
    <3>11. client' = c2 /\ up' = up /\ view' = vw2 BY <3>1, <3>3 DEF Window!Becomes, vw2
    <3> QED BY <2>1, <3>10, <3>11 DEF AgreeInv, r2
  <2> QED BY <2>3, <2>4
<1> QED BY <1>7, <1>8, <1>9, <1>10, <1>11

LEMMA KeptSet ==
    ASSUME NEW kp \in Kepts
    PROVE  /\ \A b \in BOOLEAN : /\ [kp EXCEPT !.mic = b] \in Kepts /\ [kp EXCEPT !.cam = b] \in Kepts
                                 /\ [kp EXCEPT !.hand = b] \in Kepts
           /\ \A x \in Sharers : [kp EXCEPT !.sharer = x] \in Kepts
BY DEF Kepts

LEMMA EventTold ==
    ASSUME NEW k \in DownKinds, kept \in Kepts, client.life # "closed", Window!Tell(Window!Event(k))
    PROVE  /\ Window!Event(k) \in DownEvts /\ Window!Event(k).k = k
           /\ Tells(down, down', popout, Window!Event(k))
<1>1. Window!Event(k) \in DownEvts /\ Window!Event(k).k = k BY DEF Window!Event, DownEvts
<1>2. \A w \in Window!Wins : Window!Shown(w) <=> (w = "pop" => popout.st = "open") BY DEF Window!Shown
<1> DEFINE e == Window!Event(k)
<1>3. down' = [w \in Window!Wins |-> IF Window!Shown(w) THEN Append(down[w], e) ELSE down[w]] BY DEF Window!Tell
<1> HIDE DEF e
<1>4. Tells(down, down', popout, e) BY <1>2, <1>3 DEF Tells
<1> QED BY <1>1, <1>4 DEF e

LEMMA AgreesAgain ==
    ASSUME NEW c, NEW kp, NEW u, NEW dn, NEW vw, Agreeing(c, kp, u, dn, vw, popout, room),
           client' = c, kept' = kp, up' = u, down' = dn, view' = vw, UNCHANGED <<popout, room>>
    PROVE  AgreeInv'
BY DEF AgreeInv

LEMMA HandleAgrees == ASSUME WindowInv, AgreeInv, Window!Handle PROVE AgreeInv'
<1>1. /\ up # <<>> /\ up' = Tail(up) /\ UNCHANGED <<client, view, popout>> BY DEF Window!Handle
<1>2. SUFFICES ASSUME client.life # "closed" PROVE AgreeInv' BY <1>1 DEF AgreeInv
<1>3. Agreeing(client, kept, up, down, view, popout, room) BY <1>2 DEF AgreeInv
<1>4. up \in Seq(UpMsgs) /\ kept \in Kepts BY <1>3 DEF Agreeing, AgreeTypes
<1> DEFINE k == Head(up)
           refused == \/ k = "screen_on" /\ kept.sharer # "none"
                      \/ k = "screen_off" /\ kept.sharer # "me"
<1>5. k \in UpMsgs BY <1>1, <1>4, TailAt
<1>6. DOMAIN room = RoomFields BY DEF WindowInv
<1>7. CASE refused
  <2>1. room' = [room EXCEPT !.refused = TRUE] /\ UNCHANGED <<kept, down>> BY <1>7 DEF Window!Handle
  <2> DEFINE r2 == room'
  <2>2. r2.refused /\ r2.stale = room.stale BY <1>6, <2>1 DEF RoomFields
  <2>3. Head(up) \in {"screen_on", "screen_off"} BY <1>7
  <2> HIDE DEF r2
  <2>4. Agreeing(client, kept, Tail(up), down, view, popout, r2) BY <1>1, <1>3, <2>2, <2>3, HandleRefused
  <2> QED BY <1>1, <2>1, <2>4 DEF AgreeInv, r2
<1>8. CASE ~refused
  <2> DEFINE e == Window!Event(k)
             kp2 == kept'
             dn2 == down'
  <2>1. /\ kept' = CASE k \in {"mute", "unmute"} -> [kept EXCEPT !.mic = k = "unmute"]
                      [] k \in {"video_on", "video_off"} -> [kept EXCEPT !.cam = k = "video_on"]
                      [] k \in {"raise_hand", "unraise_hand"} -> [kept EXCEPT !.hand = k = "raise_hand"]
                      [] k = "screen_on" -> [kept EXCEPT !.sharer = "me"]
                      [] k = "screen_off" -> [kept EXCEPT !.sharer = "none"]
        /\ Window!Tell(e) /\ UNCHANGED room
    BY <1>8 DEF Window!Handle
  <2>2. k \in DownKinds BY <1>5 DEF DownKinds
  <2>3. e \in DownEvts /\ e.k = Head(up) /\ Tells(down, dn2, popout, e) BY <1>2, <1>4, <2>1, <2>2, EventTold
  <2> HIDE DEF e, dn2
  <2>4. ASSUME NEW f \in SessFlags, NEW b \in BOOLEAN, Head(up) = FlagMsg(f, b), kp2 \in Kepts,
               \A g \in SessFlags : kp2[g] = IF g = f THEN b ELSE kept[g], kp2.sharer = kept.sharer
        PROVE  AgreeInv'
    <3> HIDE DEF kp2
    <3>1. Agreeing(client, kp2, Tail(up), dn2, view, popout, room) BY <1>1, <1>3, <2>3, <2>4, HandleFlag
    <3> QED BY <1>1, <2>1, <3>1 DEF AgreeInv, kp2, dn2
  <2>5. ASSUME kp2 \in Kepts, \A g \in SessFlags : kp2[g] = kept[g],
               \/ Head(up) = "screen_on" /\ kept.sharer = "none" /\ kp2.sharer = "me"
               \/ Head(up) = "screen_off" /\ kept.sharer = "me" /\ kp2.sharer = "none"
        PROVE  AgreeInv'
    <3> HIDE DEF kp2
    <3>1. Agreeing(client, kp2, Tail(up), dn2, view, popout, room) BY <1>1, <1>3, <2>3, <2>5, HandleScreen
    <3> QED BY <1>1, <2>1, <3>1 DEF AgreeInv, kp2, dn2
  <2>6. CASE k \in {"mute", "unmute"}
    <3> DEFINE f == "mic"
               b == k = "unmute"
    <3>1. f \in SessFlags /\ b \in BOOLEAN /\ Head(up) = FlagMsg(f, b) BY <2>6, FlagMsgNames
    <3>2. kp2 = [kept EXCEPT !.mic = b] BY <2>1, <2>6
    <3>3. kp2 \in Kepts /\ (\A g \in SessFlags : kp2[g] = IF g = f THEN b ELSE kept[g]) /\ kp2.sharer = kept.sharer
      <4> HIDE DEF b, kp2
      <4> QED BY <1>4, <3>1, <3>2, KeptSet DEF Kepts, SessFlags
    <3> HIDE DEF f, b, kp2
    <3> QED BY <2>4, <3>1, <3>3
  <2>7. CASE k \in {"video_on", "video_off"}
    <3> DEFINE f == "cam"
               b == k = "video_on"
    <3>1. f \in SessFlags /\ b \in BOOLEAN /\ Head(up) = FlagMsg(f, b) BY <2>7, FlagMsgNames
    <3>2. kp2 = [kept EXCEPT !.cam = b] BY <2>1, <2>7
    <3>3. kp2 \in Kepts /\ (\A g \in SessFlags : kp2[g] = IF g = f THEN b ELSE kept[g]) /\ kp2.sharer = kept.sharer
      <4> HIDE DEF b, kp2
      <4> QED BY <1>4, <3>1, <3>2, KeptSet DEF Kepts, SessFlags
    <3> HIDE DEF f, b, kp2
    <3> QED BY <2>4, <3>1, <3>3
  <2>8. CASE k \in {"raise_hand", "unraise_hand"}
    <3> DEFINE f == "hand"
               b == k = "raise_hand"
    <3>1. f \in SessFlags /\ b \in BOOLEAN /\ Head(up) = FlagMsg(f, b) BY <2>8, FlagMsgNames
    <3>2. kp2 = [kept EXCEPT !.hand = b] BY <2>1, <2>8
    <3>3. kp2 \in Kepts /\ (\A g \in SessFlags : kp2[g] = IF g = f THEN b ELSE kept[g]) /\ kp2.sharer = kept.sharer
      <4> HIDE DEF b, kp2
      <4> QED BY <1>4, <3>1, <3>2, KeptSet DEF Kepts, SessFlags
    <3> HIDE DEF f, b, kp2
    <3> QED BY <2>4, <3>1, <3>3
  <2>9. CASE k \in {"screen_on", "screen_off"}
    <3>1. kp2 = [kept EXCEPT !.sharer = IF k = "screen_on" THEN "me" ELSE "none"] BY <2>1, <2>9
    <3>2. kp2 \in Kepts /\ (\A g \in SessFlags : kp2[g] = kept[g])
          /\ kp2.sharer = IF k = "screen_on" THEN "me" ELSE "none"
      <4> HIDE DEF kp2
      <4> QED BY <1>4, <3>1 DEF Kepts, SessFlags, Sharers
    <3>3. \/ Head(up) = "screen_on" /\ kept.sharer = "none" /\ kp2.sharer = "me"
          \/ Head(up) = "screen_off" /\ kept.sharer = "me" /\ kp2.sharer = "none"
      BY <1>8, <2>9, <3>2
    <3> HIDE DEF kp2
    <3> QED BY <2>5, <3>2, <3>3
  <2> QED BY <1>5, <2>6, <2>7, <2>8, <2>9 DEF UpMsgs
<1> QED BY <1>7, <1>8

LEMMA RoomAgrees ==
    ASSUME WindowInv, AgreeInv,
           \/ Window!OtherShares \/ Window!OtherStops \/ Window!RemoteTrack
           \/ \E k \in {"host_mute", "host_lower_hand", "host_screen_off"} : Window!HostAsks(k)
    PROVE  AgreeInv'
<1>1. client.life # "closed"
  BY DEF Window!OtherShares, Window!OtherStops, Window!RemoteTrack, Window!HostAsks
<1>2. Agreeing(client, kept, up, down, view, popout, room) BY <1>1 DEF AgreeInv
<1>3. kept \in Kepts /\ view \in [Window!Wins -> WinViews] BY <1>2 DEF Agreeing, AgreeTypes
<1>4. DOMAIN room = RoomFields /\ DOMAIN popout = PopoutFields /\ DOMAIN client = ClientFields BY DEF WindowInv
<1>5. \A x \in {"screen_on", "screen_off", "other_on", "host_mute", "host_lower_hand", "host_screen_off"} :
         x \in DownKinds /\ \A e \in DownEvts : e.k = x => \A f \in SessFlags : e \notin FlagEvts(f)
  BY NoFlagMsg, EventKinds DEF DownKinds, UpMsgs, HostAsked
<1>6. CASE Window!OtherShares
  <2> DEFINE e == Window!Event("other_on")
             kp2 == kept'
             dn2 == down'
  <2>1. /\ kept.sharer = "none" /\ kept' = [kept EXCEPT !.sharer = "other"] /\ Window!Tell(e)
        /\ UNCHANGED <<client, up, view, popout, room>>
    BY <1>6 DEF Window!OtherShares
  <2>2. e \in DownEvts /\ e.k = "other_on" /\ Tells(down, dn2, popout, e) BY <1>1, <1>3, <1>5, <2>1, EventTold
  <2>3. kp2 \in Kepts /\ (\A f \in SessFlags : kp2[f] = kept[f]) /\ kp2.sharer = "other"
    BY <1>3, <2>1 DEF Kepts, SessFlags, Sharers
  <2> HIDE DEF e, kp2, dn2
  <2>4. SharerSaid(e) = kp2.sharer BY <2>2, <2>3 DEF SharerSaid
  <2>5. e \in ShareEvts /\ \A f \in SessFlags : e \notin FlagEvts(f) BY <1>5, <2>2, EventKinds
  <2>6. Agreeing(client, kp2, up, dn2, view, popout, room) BY <1>2, <2>1, <2>2, <2>3, <2>4, <2>5, TellAgrees
  <2> QED BY <2>1, <2>6, AgreesAgain DEF kp2, dn2
<1>7. CASE Window!OtherStops
  <2> DEFINE e == Window!Event("screen_off")
             kp2 == kept'
             dn2 == down'
             c2 == client'
  <2>1. /\ kept.sharer = "other" /\ kept' = [kept EXCEPT !.sharer = "none"] /\ Window!Tell(e)
        /\ client' = [client EXCEPT !.remote = FALSE] /\ UNCHANGED <<up, view, popout, room>>
    BY <1>7 DEF Window!OtherStops
  <2>2. e \in DownEvts /\ e.k = "screen_off" /\ Tells(down, dn2, popout, e) BY <1>1, <1>3, <1>5, <2>1, EventTold
  <2>3. kp2 \in Kepts /\ (\A f \in SessFlags : kp2[f] = kept[f]) /\ kp2.sharer = "none"
    BY <1>3, <2>1 DEF Kepts, SessFlags, Sharers
  <2>4. c2.screen = client.screen /\ c2.offs = client.offs /\ c2.mic = client.mic /\ c2.cam = client.cam /\ ~c2.remote
    BY <1>4, <2>1 DEF ClientFields
  <2> HIDE DEF e, kp2, dn2, c2
  <2>5. SharerSaid(e) = kp2.sharer BY <2>2, <2>3 DEF SharerSaid
  <2>6. e \in ShareEvts /\ \A f \in SessFlags : e \notin FlagEvts(f) BY <1>5, <2>2, EventKinds
  <2>7. Agreeing(c2, kp2, up, dn2, view, popout, room)
    BY <1>2, <2>1, <2>2, <2>3, <2>4, <2>5, <2>6, TellAgrees
  <2> QED BY <2>1, <2>7, AgreesAgain DEF kp2, dn2, c2
<1>8. ASSUME NEW k \in {"host_mute", "host_lower_hand", "host_screen_off"}, Window!HostAsks(k) PROVE AgreeInv'
  <2> DEFINE e == Window!Event(k)
             dn2 == down'
  <2>1. Window!Tell(e) /\ UNCHANGED <<client, kept, up, view, popout, room>> BY <1>8 DEF Window!HostAsks
  <2>2. k \in DownKinds BY <1>5
  <2>3. e \in DownEvts /\ e.k = k /\ Tells(down, dn2, popout, e) BY <1>1, <1>3, <2>1, <2>2, EventTold
  <2> HIDE DEF e, dn2
  <2>4. e \notin ShareEvts /\ \A f \in SessFlags : e \notin FlagEvts(f) BY <1>5, <2>3, EventKinds
  <2>5. client.remote => kept.sharer = "other" BY <1>2 DEF Agreeing
  <2>6. Agreeing(client, kept, up, dn2, view, popout, room) BY <1>2, <1>3, <2>3, <2>4, <2>5, TellAgrees
  <2> QED BY <2>1, <2>6, AgreesAgain DEF dn2
<1>9. CASE Window!RemoteTrack
  <2> DEFINE vw2 == view'
             c2 == client'
             r2 == room'
  <2>1. /\ kept.sharer = "other" /\ client' = [client EXCEPT !.remote = TRUE]
        /\ view' = [w \in Window!Wins |-> IF Window!Shown(w) THEN [view[w] EXCEPT !.stream = "remote"] ELSE view[w]]
        /\ room' = [room EXCEPT !.stale = @ \/ client.screen # "none"] /\ UNCHANGED <<kept, up, down, popout>>
    BY <1>9 DEF Window!RemoteTrack
  <2>2. c2.screen = client.screen /\ c2.offs = client.offs /\ c2.mic = client.mic /\ c2.cam = client.cam
    BY <1>4, <2>1 DEF ClientFields
  <2>3. r2.refused = room.refused /\ (r2.stale <=> room.stale \/ client.screen # "none")
    BY <1>4, <2>1 DEF RoomFields
  <2>4. ASSUME NEW w \in Window!Wins
        PROVE  /\ vw2[w] \in WinViews /\ (\A f \in SessFlags : vw2[w][f] = view[w][f])
               /\ vw2[w].sharer = view[w].sharer
               /\ Window!Shown(w) => vw2[w].stream = "remote"
    <3> DEFINE v == view[w]
               v2 == vw2[w]
               x == "remote"
    <3>1. v \in WinViews BY <1>3
    <3>2. v2 = IF Window!Shown(w) THEN [v EXCEPT !.stream = x] ELSE v BY <2>1
    <3>3. x \in {"none", "local", "remote"} OBVIOUS
    <3> HIDE DEF v, v2, x
    <3>4. CASE Window!Shown(w)
      <4>1. v2 = [v EXCEPT !.stream = x] BY <3>2, <3>4
      <4>2. v2 \in WinViews /\ (\A g \in SessFlags : v2[g] = v[g]) /\ v2.sharer = v.sharer /\ v2.stream = x
        BY <3>1, <3>3, <4>1, ViewStreamed
      <4> QED BY <4>2 DEF v, v2, x
    <3>5. CASE ~Window!Shown(w) BY <3>1, <3>2, <3>5 DEF v, v2
    <3> QED BY <3>4, <3>5
  <2>5. vw2 = [w \in Window!Wins |-> vw2[w]] BY <2>1
  <2>6. vw2 \in [Window!Wins -> WinViews]
    <3> HIDE DEF vw2
    <3> QED BY <2>4, <2>5
  <2>7. ASSUME NEW w \in Window!Wins, w = "pop" => popout.st = "open" PROVE Streaming(w, c2, up, vw2, r2)
    <3>1. Window!Shown(w) BY <1>1, <2>7 DEF Window!Shown
    <3> HIDE DEF vw2, c2, r2
    <3> QED BY <2>2, <2>3, <2>4, <3>1 DEF Streaming
  <2> HIDE DEF vw2, c2, r2
  <2>8. Agreeing(c2, kept, up, down, vw2, popout, r2)
    BY <1>2, <2>1, <2>2, <2>3, <2>4, <2>6, <2>7, StreamAgrees
  <2> QED BY <2>1, <2>8 DEF AgreeInv, vw2, c2, r2
<1> QED BY <1>6, <1>7, <1>8, <1>9

\* The events about flags and about who shares, and what they say.
LEMMA FlagHeard ==
    ASSUME NEW v \in WinViews, NEW e \in DownEvts, NEW v2,
           \/ e.k = "state" /\ v2 = Window!State(v, e.st)
           \/ e.k \notin HostAsked \cup {"state"} /\ v2 = Window!Flag(v, e.k)
    PROVE  /\ v2 \in WinViews /\ v2.stream = v.stream
           /\ \A f \in SessFlags : v2[f] = IF e \in FlagEvts(f) THEN FlagSaid(e, f) ELSE v[f]
           /\ v2.sharer = IF e \in ShareEvts THEN SharerSaid(e) ELSE v.sharer
<1>1. e.k \in DownKinds /\ e.st \in Kepts /\ (e \in ShareEvts <=> e.k \in {"screen_on", "screen_off", "other_on", "state"})
      /\ \A f \in SessFlags : e \in FlagEvts(f) <=> e.k \in FlagMsgs(f) \cup {"state"}
  BY EventKinds
<1> DEFINE k == e.k
           st == e.st
<1>2. FlagMsgs("mic") = {"unmute", "mute"} /\ FlagMsgs("cam") = {"video_on", "video_off"}
      /\ FlagMsgs("hand") = {"raise_hand", "unraise_hand"}
  BY DEF FlagMsgs, OnMsg, OffMsg
<1>3. OnMsg("mic") = "unmute" /\ OnMsg("cam") = "video_on" /\ OnMsg("hand") = "raise_hand" BY DEF OnMsg
<1>4. /\ \A f \in SessFlags : FlagSaid(e, f) = IF k = "state" THEN st[f] ELSE k = OnMsg(f)
      /\ SharerSaid(e) = CASE k = "state" -> st.sharer [] k = "screen_on" -> "me" [] k = "other_on" -> "other"
                           [] OTHER -> "none"
  BY DEF FlagSaid, SharerSaid
<1>5. SUFFICES /\ v2 \in WinViews /\ v2.stream = v.stream
               /\ \A f \in SessFlags :
                     v2[f] = IF k \in FlagMsgs(f) \cup {"state"} THEN IF k = "state" THEN st[f] ELSE k = OnMsg(f) ELSE v[f]
               /\ v2.sharer = CASE k = "state" -> st.sharer [] k = "screen_on" -> "me" [] k = "other_on" -> "other"
                                [] k = "screen_off" -> "none" [] OTHER -> v.sharer
  BY <1>1, <1>4
<1>6. /\ k \in DownKinds /\ st \in Kepts
      /\ \/ k = "state" /\ v2 = Window!State(v, st)
         \/ k \notin HostAsked \cup {"state"} /\ v2 = Window!Flag(v, k)
  BY <1>1
<1> HIDE DEF k, st
<1>7. CASE k = "state"
  <2>1. v2 = Window!State(v, st) BY <1>6, <1>7
  <2> QED BY <1>6, <1>7, <2>1 DEF Window!State, WinViews, Kepts, SessFlags
<1>8. CASE k \in {"mute", "unmute"}
  <2>1. v2 = [v EXCEPT !.sess = TRUE, !.mic = k = "unmute"] BY <1>6, <1>8 DEF Window!Flag
  <2> QED BY <1>2, <1>3, <1>8, <2>1 DEF WinViews, SessFlags
<1>9. CASE k \in {"video_on", "video_off"}
  <2>1. v2 = [v EXCEPT !.sess = TRUE, !.cam = k = "video_on"] BY <1>6, <1>9 DEF Window!Flag
  <2> QED BY <1>2, <1>3, <1>9, <2>1 DEF WinViews, SessFlags
<1>10. CASE k \in {"raise_hand", "unraise_hand"}
  <2>1. v2 = [v EXCEPT !.sess = TRUE, !.hand = k = "raise_hand"] BY <1>6, <1>10 DEF Window!Flag
  <2> QED BY <1>2, <1>3, <1>10, <2>1 DEF WinViews, SessFlags
<1>11. CASE k \in {"screen_on", "other_on", "screen_off"}
  <2>1. v2 = [v EXCEPT !.sharer = IF k = "screen_on" THEN "me" ELSE IF k = "other_on" THEN "other" ELSE "none"]
    BY <1>6, <1>11 DEF Window!Flag
  <2>2. k \notin {"state", "mute", "unmute", "video_on", "video_off", "raise_hand", "unraise_hand"} BY <1>11
  <2> QED BY <1>2, <1>11, <2>1, <2>2 DEF WinViews, SessFlags, Sharers
<1> QED BY <1>6, <1>7, <1>8, <1>9, <1>10, <1>11 DEF DownKinds, UpMsgs, HostAsked

LEMMA ConnectAgrees == ASSUME WindowInv, AgreeInv, Window!connect PROVE AgreeInv'
<1> DEFINE now == Window!Now
           s == [now EXCEPT !.c.life = "connected"]
<1>1. Whole(now) /\ now.c = client BY NowWhole DEF Window!Now
<1>2. client.life = "joined" /\ down' = down /\ UNCHANGED <<kept, popout, room>> BY DEF Window!connect, Window!Rest
<1>3. Fits(now, down) BY <1>2, NowFits
<1>4. Window!Becomes(s) \/ Window!Becomes(Window!unmute(s)) BY DEF Window!connect
<1> HIDE DEF now
<1>5. /\ Whole(s) /\ s.c.screen = now.c.screen /\ s.c.offs = now.c.offs /\ s.c.remote = now.c.remote
      /\ s.c.mic = now.c.mic /\ s.c.cam = now.c.cam /\ s.u = now.u /\ s.v = now.v
  BY <1>1 DEF Whole, ClientFields
<1> HIDE DEF s
<1>6. Fits(s, down) BY <1>3, <1>5, WaitFits
<1> DEFINE dn == down
           y == Window!unmute(s)
<1>7. Fits(y, dn) /\ Fits(s, dn) BY <1>5, <1>6, MicFits
<1>8. down' = dn /\ (Window!Becomes(s) \/ Window!Becomes(y)) BY <1>2, <1>4
<1> HIDE DEF dn, y
<1> QED BY <1>2, <1>7, <1>8, RestsSame, FitsKept

LEMMA ReceivesAgrees == ASSUME WindowInv, AgreeInv, NEW w \in Window!Wins, Window!Receives(w) PROVE AgreeInv'
<1> DEFINE s == Window!Now
           q == down[w]
           e == Head(q)
           dn == down'
<1>1. Whole(s) /\ s.c = client /\ s.v = view /\ s.u = up BY NowWhole DEF Window!Now
<1>2. /\ Window!Shown(w) /\ q # <<>> /\ dn = [down EXCEPT ![w] = Tail(@)] /\ UNCHANGED <<kept, popout, room>>
      /\ Window!Becomes(CASE e.k = "host_mute" -> Window!handleHostMute(s, w)
                          [] e.k = "host_screen_off" -> Window!handleHostScreenOff(s)
                          [] e.k = "host_lower_hand" -> Window!handleHostLowerHand(s)
                          [] e.k = "state" -> [s EXCEPT !.v[w] = Window!State(@, e.st)]
                          [] OTHER -> [s EXCEPT !.v[w] = Window!Flag(@, e.k)])
  BY DEF Window!Receives
<1>3. client.life # "closed" /\ (w = "pop" => popout.st = "open") BY <1>2 DEF Window!Shown
<1>4. Agreeing(client, kept, up, down, view, popout, room) BY <1>3 DEF AgreeInv
<1>5. view \in [Window!Wins -> WinViews] /\ down \in [Window!Wins -> Seq(DownEvts)]
  BY <1>4 DEF Agreeing, AgreeTypes
<1>6. view[w] \in WinViews /\ e \in DownEvts
  <2>1. q \in Seq(DownEvts) BY <1>5
  <2> HIDE DEF q
  <2> QED BY <1>2, <1>5, <2>1, TailAt
<1>7. Resting BY <1>2, RestsSame
<1> HIDE DEF s
<1>8. ASSUME NEW v2 \in WinViews, v2.stream = view[w].stream,
             \A f \in SessFlags : v2[f] = IF e \in FlagEvts(f) THEN FlagSaid(e, f) ELSE view[w][f],
             v2.sharer = IF e \in ShareEvts THEN SharerSaid(e) ELSE view[w].sharer
      PROVE  Agreeing(client, kept, up, dn, [view EXCEPT ![w] = v2], popout, room)
  <2>1. Agreeing(client, kept, up, [down EXCEPT ![w] = Tail(@)], [view EXCEPT ![w] = v2], popout, room)
    BY <1>2, <1>3, <1>4, <1>8, HeardAgrees
  <2> QED BY <1>2, <2>1
<1>9. CASE e.k \in HostAsked
  <2> DEFINE v2 == view[w]
  <2>1. e \notin ShareEvts /\ \A f \in SessFlags : e \notin FlagEvts(f)
    BY <1>6, <1>9, EventKinds, NoFlagMsg DEF HostAsked
  <2>2. v2 \in WinViews /\ [view EXCEPT ![w] = v2] = view BY <1>5, <1>6
  <2> DEFINE vw == [view EXCEPT ![w] = v2]
  <2>3. Agreeing(client, kept, up, dn, vw, popout, room) BY <1>8, <2>1, <2>2
  <2>4. vw = view BY <2>2
  <2> HIDE DEF vw
  <2>5. Agreeing(client, kept, up, dn, view, popout, room) BY <2>3, <2>4
  <2>6. Fits(s, dn) BY <1>1, <2>5 DEF Fits
  <2> HIDE DEF dn
  <2>7. Fits(Window!mute(s), dn) /\ Fits(Window!unshareScreen(s), dn) /\ Fits(Window!unraiseHand(s), dn)
    BY <1>1, <2>6, MicFits, ScreenFits, HandFits
  <2> HIDE DEF e
  <2>8. \/ Window!Becomes(Window!mute(s)) \/ Window!Becomes(Window!unshareScreen(s))
        \/ Window!Becomes(Window!unraiseHand(s))
    BY <1>2, <1>9
    DEF HostAsked, Window!handleHostMute, Window!handleHostScreenOff, Window!handleHostLowerHand
  <2>9. down' = dn BY DEF dn
  <2> QED BY <1>7, <2>7, <2>8, <2>9, FitsKept
<1>10. CASE e.k \notin HostAsked
  <2> DEFINE v2 == IF e.k = "state" THEN Window!State(view[w], e.st) ELSE Window!Flag(view[w], e.k)
             vw == [view EXCEPT ![w] = v2]
             t == [s EXCEPT !.v[w] = v2]
  <2>1. Window!Becomes(t)
    <3>1. CASE e.k = "state"
      <4>1. Window!Becomes([s EXCEPT !.v[w] = Window!State(@, e.st)]) BY <1>2, <3>1
      <4>2. [s EXCEPT !.v[w] = Window!State(@, e.st)] = [s EXCEPT !.v[w] = v2]
        BY <1>1, <1>5, <3>1 DEF Whole
      <4> QED BY <4>1, <4>2
    <3>2. CASE e.k # "state"
      <4> HIDE DEF e
      <4>1. Window!Becomes([s EXCEPT !.v[w] = Window!Flag(@, e.k)]) BY <1>2, <1>10, <3>2 DEF HostAsked
      <4>2. [s EXCEPT !.v[w] = Window!Flag(@, e.k)] = [s EXCEPT !.v[w] = v2]
        BY <1>1, <1>5, <3>2 DEF Whole
      <4> QED BY <4>1, <4>2
    <3> QED BY <3>1, <3>2
  <2>2. \/ e.k = "state" /\ v2 = Window!State(view[w], e.st)
        \/ e.k \notin HostAsked \cup {"state"} /\ v2 = Window!Flag(view[w], e.k)
    BY <1>10
  <2> HIDE DEF e, v2
  <2> DEFINE v == view[w]
  <2>3. /\ v2 \in WinViews /\ v2.stream = v.stream
        /\ \A f \in SessFlags : v2[f] = IF e \in FlagEvts(f) THEN FlagSaid(e, f) ELSE v[f]
        /\ v2.sharer = IF e \in ShareEvts THEN SharerSaid(e) ELSE v.sharer
    BY <1>6, <2>2, FlagHeard
  <2>4. Agreeing(client, kept, up, dn, vw, popout, room) BY <1>8, <2>3
  <2>5. t.c = client /\ t.u = up /\ t.v = vw BY <1>1 DEF Whole
  <2> HIDE DEF vw, dn, t
  <2>6. Fits(t, dn) BY <2>4, <2>5 DEF Fits
  <2>7. down' = dn BY DEF dn
  <2> QED BY <1>7, <2>1, <2>6, <2>7, FitsKept
<1> QED BY <1>9, <1>10

\* What the widget was told does not depend on the pop-out.
LEMMA WidgetTold ==
    ASSUME NEW kp, NEW u, NEW dn, NEW dn2, NEW vw, NEW vw2, NEW po, NEW po2, Told("widget", kp, u, dn, vw, po),
           dn2["widget"] = dn["widget"], \A f \in SessFlags : vw2["widget"][f] = vw["widget"][f],
           vw2["widget"].sharer = vw["widget"].sharer
    PROVE  Told("widget", kp, u, dn2, vw2, po2)
BY DEF Told, Ahead

\* Without a pop-out only the widget has to agree.
LEMMA WidgetAlone ==
    ASSUME NEW c, NEW kp, NEW u, NEW dn, NEW dn2 \in [Window!Wins -> Seq(DownEvts)], NEW vw,
           NEW vw2 \in [Window!Wins -> WinViews], NEW po, NEW po2, NEW r,
           Agreeing(c, kp, u, dn, vw, po, r), po2.st # "open", dn2["pop"] = <<>>,
           dn2["widget"] = dn["widget"], vw2["widget"] = vw["widget"]
    PROVE  Agreeing(c, kp, u, dn2, vw2, po2, r)
<1>1. Told("widget", kp, u, dn, vw, po) /\ Streaming("widget", c, u, vw, r) BY DEF Agreeing, Window!Wins
<1>2. Told("widget", kp, u, dn2, vw2, po2) BY <1>1, WidgetTold
<1>3. Streaming("widget", c, u, vw2, r) BY <1>1 DEF Streaming
<1>4. \A w \in Window!Wins : (w = "pop" => po2.st = "open") => w = "widget" BY DEF Window!Wins
<1>5. AgreeTypes(c, kp, u, dn2, vw2, po2) BY DEF Agreeing, AgreeTypes
<1> QED BY <1>2, <1>3, <1>4, <1>5 DEF Agreeing

LEMMA MountAgrees == ASSUME WindowInv, AgreeInv, Window!componentDidMount PROVE AgreeInv'
<1> DEFINE x == IF client.screen # "none" THEN "local" ELSE IF client.remote THEN "remote" ELSE "none"
           po2 == popout'
           vw2 == view'
<1>1. /\ popout.st = "loading" /\ UNCHANGED <<client, kept, up, down, room>>
      /\ popout' = [popout EXCEPT !.st = IF client.life = "closed" THEN "orphan" ELSE "open",
                                  !.asked = client.life # "closed"]
      /\ vw2 = [view EXCEPT !["pop"].stream = x]
  BY DEF Window!componentDidMount
<1>2. SUFFICES ASSUME client.life # "closed" PROVE AgreeInv' BY <1>1 DEF AgreeInv
<1>3. DOMAIN popout = PopoutFields BY DEF WindowInv
<1>4. po2.st = "open" /\ po2.asked BY <1>1, <1>2, <1>3 DEF PopoutFields
<1>5. Agreeing(client, kept, up, down, view, popout, room) BY <1>2 DEF AgreeInv
<1>6. AgreeTypes(client, kept, up, down, view, popout) BY <1>5 DEF Agreeing
<1>7. view \in [Window!Wins -> WinViews] /\ down["pop"] = <<>> BY <1>1, <1>6 DEF AgreeTypes
<1> DEFINE away == "pop"
<1>8. x \in {"none", "local", "remote"} /\ away \in Window!Wins BY DEF Window!Wins
<1>9. vw2 = [view EXCEPT ![away].stream = x] BY <1>1
<1> HIDE DEF x, away, vw2
<1>10. /\ vw2 \in [Window!Wins -> WinViews] /\ vw2[away].stream = x
       /\ \A y \in Window!Wins : /\ \A f \in SessFlags : vw2[y][f] = view[y][f]
                                 /\ vw2[y].sharer = view[y].sharer
                                 /\ y # away => vw2[y].stream = view[y].stream
  BY <1>7, <1>8, <1>9, StreamShown
<1> HIDE DEF po2
<1>11. Told("widget", kept, up, down, vw2, po2)
  <2>1. Told("widget", kept, up, down, view, popout) BY <1>5 DEF Agreeing, Window!Wins
  <2>2. "widget" \in Window!Wins BY DEF Window!Wins
  <2> QED BY <1>10, <2>1, <2>2, WidgetTold
<1>12. Told("pop", kept, up, down, vw2, po2)
  <2>1. \A f : Ahead("pop", up, po2, f) BY <1>4 DEF Ahead
  <2>2. \A f \in SessFlags :
           EndsIn(<<>>, FlagEvts(f), FlagIs(f, kept[f]), vw2["pop"][f] = kept[f] \/ Ahead("pop", up, po2, f))
    BY <2>1 DEF EndsIn
  <2>3. EndsIn(<<>>, ShareEvts, SharerIs(kept.sharer), vw2["pop"].sharer = kept.sharer \/ ("pop" = "pop" /\ po2.asked))
    BY <1>4 DEF EndsIn
  <2> QED BY <1>7, <2>2, <2>3 DEF Told
<1>13. Streaming("widget", client, up, vw2, room)
  <2>1. Streaming("widget", client, up, view, room) BY <1>5 DEF Agreeing, Window!Wins
  <2>2. vw2["widget"].stream = view["widget"].stream BY <1>10 DEF Window!Wins, away
  <2> QED BY <2>1, <2>2 DEF Streaming
<1>14. Streaming("pop", client, up, vw2, room)
  <2>1. vw2["pop"].stream = x BY <1>10 DEF away
  <2>2. ASSUME client.remote, ~room.refused, client.screen # "none" PROVE HasOne(up, {"screen_on"})
    <3>1. kept.sharer # "me" BY <1>5, <2>2 DEF Agreeing
    <3> QED BY <1>5, <2>2, <3>1, OwnAnnounced
  <2> QED BY <2>1, <2>2 DEF Streaming, x
<1>15. \A w \in Window!Wins : Told(w, kept, up, down, vw2, po2) /\ Streaming(w, client, up, vw2, room)
  BY <1>11, <1>12, <1>13, <1>14 DEF Window!Wins
<1>16. AgreeTypes(client, kept, up, down, vw2, po2) BY <1>4, <1>6, <1>10 DEF AgreeTypes
<1>17. Agreeing(client, kept, up, down, vw2, po2, room) BY <1>5, <1>15, <1>16 DEF Agreeing
<1> QED BY <1>1, <1>17 DEF AgreeInv, vw2, po2

LEMMA RequestAgrees == ASSUME WindowInv, AgreeInv, Window!requestCallState PROVE AgreeInv'
<1> DEFINE e == Window!Event("state")
           po2 == popout'
           dn2 == down'
<1>1. /\ client.life # "closed" /\ popout.st = "open" /\ UNCHANGED <<client, kept, up, view, room>>
      /\ popout' = [popout EXCEPT !.asked = FALSE] /\ dn2 = [down EXCEPT !["pop"] = Append(@, e)]
  BY DEF Window!requestCallState, Window!Shown
<1>2. DOMAIN popout = PopoutFields BY DEF WindowInv
<1>3. po2.st = "open" BY <1>1, <1>2 DEF PopoutFields
<1>4. Agreeing(client, kept, up, down, view, popout, room) BY <1>1 DEF AgreeInv
<1>5. AgreeTypes(client, kept, up, down, view, popout) BY <1>4 DEF Agreeing
<1>6. down \in [Window!Wins -> Seq(DownEvts)] /\ kept \in Kepts BY <1>5 DEF AgreeTypes
<1>7. e \in DownEvts /\ e.k = "state" /\ e.st = kept BY <1>6 DEF Window!Event, DownEvts, DownKinds
<1> HIDE DEF e, po2, dn2
<1>8. e \in ShareEvts /\ SharerSaid(e) = kept.sharer
      /\ \A f \in SessFlags : e \in FlagEvts(f) /\ FlagSaid(e, f) = kept[f]
  BY <1>7, EventKinds DEF SharerSaid, FlagSaid
<1> DEFINE away == "pop"
<1>9. away \in Window!Wins BY DEF Window!Wins
<1>10. down[away] \in Seq(DownEvts) BY <1>6, <1>9
<1>11. Append(down[away], e) \in Seq(DownEvts) BY <1>7, <1>10, AppendAt
<1>12. dn2[away] = Append(down[away], e) /\ dn2["widget"] = down["widget"] /\ dn2 \in [Window!Wins -> Seq(DownEvts)]
  BY <1>1, <1>6, <1>9, <1>11 DEF Window!Wins
<1>13. Told(away, kept, up, down, view, popout) BY <1>1, <1>4, <1>9 DEF Agreeing
<1>14. \A f \in SessFlags :
          IF e \in FlagEvts(f) THEN FlagSaid(e, f) = kept[f]
          ELSE kept[f] = kept[f] /\ (Ahead(away, up, popout, f) => Ahead(away, up, po2, f))
  BY <1>8
<1>15. IF e \in ShareEvts THEN SharerSaid(e) = kept.sharer ELSE kept.sharer = kept.sharer /\ po2.asked = popout.asked
  BY <1>8
<1> HIDE DEF away
<1>16. Told(away, kept, up, dn2, view, po2)
  BY <1>6, <1>7, <1>9, <1>10, <1>12, <1>13, <1>14, <1>15, ToldMore
<1>17. Told("widget", kept, up, dn2, view, po2)
  <2>1. Told("widget", kept, up, down, view, popout) BY <1>4 DEF Agreeing, Window!Wins
  <2> QED BY <1>12, <2>1, WidgetTold
<1>18. AgreeTypes(client, kept, up, dn2, view, po2) BY <1>3, <1>5, <1>12 DEF AgreeTypes
<1>19. Agreeing(client, kept, up, dn2, view, po2, room)
  BY <1>1, <1>4, <1>16, <1>17, <1>18 DEF Agreeing, Window!Wins, away
<1> QED BY <1>1, <1>19 DEF AgreeInv, po2, dn2

LEMMA CloseAgrees == ASSUME WindowInv, AgreeInv, Window!onCloseViewClick PROVE AgreeInv'
<1> DEFINE now == Window!Now
           s == Window!beforeunload(now)
           t == [s EXCEPT !.c.picks = @ \ {"pop"}, !.c.sets = @ \ {"pop"}, !.v["pop"] = Window!Blank]
<1>1. /\ Window!Becomes(t) /\ popout' = Window!NoWindow /\ down' = [down EXCEPT !["pop"] = <<>>]
      /\ UNCHANGED <<kept, room>>
  BY DEF Window!onCloseViewClick
<1>2. Whole(now) /\ now.c = client BY NowWhole DEF Window!Now
<1>3. s \in {now, Window!unshareScreen(now)} BY DEF Window!beforeunload
<1> HIDE DEF now, s
<1>4. Whole(s) /\ s.c.life = client.life BY <1>2, <1>3, Unshared
<1>5. t.c.life = client.life BY <1>4 DEF Whole, ClientFields
<1>6. SUFFICES ASSUME client.life # "closed" PROVE AgreeInv'
  <2>1. client'.life = client.life BY <1>1, <1>5 DEF Window!Becomes
  <2> QED BY <2>1 DEF AgreeInv
<1>7. Fits(s, down) BY <1>2, <1>3, <1>6, NowFits, ScreenFits DEF now
<1> DEFINE c == s.c
           u == s.u
           vw == s.v
           c2 == t.c
           vw2 == t.v
           po2 == popout'
           dn2 == down'
<1>8. Agreeing(c, kept, u, down, vw, popout, room) BY <1>7 DEF Fits
<1>9. /\ c2.screen = c.screen /\ c2.offs = c.offs /\ c2.remote = c.remote /\ c2.mic = c.mic /\ c2.cam = c.cam
      /\ t.u = u /\ vw2 = [vw EXCEPT !["pop"] = Window!Blank]
  BY <1>4 DEF Whole, ClientFields
<1>10. vw \in [Window!Wins -> WinViews] /\ down \in [Window!Wins -> Seq(DownEvts)] BY <1>8 DEF Agreeing, AgreeTypes
<1>11. Window!Blank \in WinViews BY DEF Window!Blank, WinViews, Sharers
<1>12. client' = c2 /\ up' = u /\ view' = vw2 BY <1>1, <1>9 DEF Window!Becomes
<1> HIDE DEF t, c, u, vw, c2, vw2
<1>13. vw2 \in [Window!Wins -> WinViews] /\ vw2["widget"] = vw["widget"] BY <1>9, <1>10, <1>11 DEF Window!Wins
<1>14. /\ dn2 \in [Window!Wins -> Seq(DownEvts)] /\ dn2["pop"] = <<>> /\ dn2["widget"] = down["widget"]
       /\ po2.st # "open"
  BY <1>1, <1>10 DEF Window!Wins, Window!NoWindow
<1> HIDE DEF dn2, po2
<1>15. Agreeing(c2, kept, u, down, vw, popout, room) BY <1>8, <1>9, WaitAgrees
<1>16. Agreeing(c2, kept, u, dn2, vw2, po2, room) BY <1>13, <1>14, <1>15, WidgetAlone
<1> QED BY <1>1, <1>12, <1>16 DEF AgreeInv, dn2, po2

\* A client that closes has nothing to show.
LEMMA DisconnectAgrees ==
    ASSUME WindowInv, NEW closing \in BOOLEAN, Window!disconnect(closing) PROVE AgreeInv'
<1>1. client'.life = "closed" BY DEF WindowInv, Window!disconnect, ClientFields
<1> QED BY <1>1 DEF AgreeInv

LEMMA PopoutAgrees ==
    ASSUME WindowInv, AgreeInv,
           \/ Window!onExpandClick \/ Window!componentDidMount \/ Window!requestCallState
           \/ Window!onCloseViewClick \/ Window!Closed
           \/ \E w \in Window!Wins : Window!onDisconnectClick(w) \/ Window!LeaveCallMenu(w)
    PROVE  AgreeInv'
<1>1. CASE Window!onExpandClick
  <2> DEFINE po2 == popout'
  <2>1. /\ popout.st = "none" /\ client.life # "closed" /\ UNCHANGED <<client, kept, up, down, view, room>>
        /\ popout' = [Window!NoWindow EXCEPT !.st = "loading"]
    BY <1>1 DEF Window!onExpandClick, Window!Shown
  <2>2. po2.st # "open" BY <2>1 DEF Window!NoWindow
  <2>3. Agreeing(client, kept, up, down, view, popout, room) BY <2>1 DEF AgreeInv
  <2>4. /\ down["pop"] = <<>> /\ down \in [Window!Wins -> Seq(DownEvts)] /\ view \in [Window!Wins -> WinViews]
    BY <2>1, <2>3 DEF Agreeing, AgreeTypes
  <2> HIDE DEF po2
  <2>5. Agreeing(client, kept, up, down, view, po2, room) BY <2>2, <2>3, <2>4, WidgetAlone
  <2> QED BY <2>1, <2>5 DEF AgreeInv, po2
<1>2. ASSUME Window!disconnect(TRUE) \/ Window!disconnect(FALSE) PROVE AgreeInv'
  <2> DEFINE yes == TRUE
             no == FALSE
  <2>1. yes \in BOOLEAN /\ no \in BOOLEAN OBVIOUS
  <2>2. Window!disconnect(yes) \/ Window!disconnect(no) BY <1>2, Zenon
  <2> HIDE DEF yes, no
  <2> QED BY <2>1, <2>2, DisconnectAgrees
<1>3. ASSUME NEW w \in Window!Wins, Window!disconnect(w = "widget") PROVE AgreeInv'
  <2> DEFINE closing == w = "widget"
  <2>1. closing \in BOOLEAN OBVIOUS
  <2>2. Window!disconnect(closing) BY <1>3, Zenon
  <2> HIDE DEF closing
  <2> QED BY <2>1, <2>2, DisconnectAgrees
<1>4. CASE Window!Closed
  <2>1. Window!disconnect(FALSE) BY <1>4, Zenon DEF Window!Closed
  <2> QED BY <1>2, <2>1, Zenon
<1>5. ASSUME NEW w \in Window!Wins, Window!onDisconnectClick(w) PROVE AgreeInv'
  <2>1. Window!disconnect(w = "widget") BY <1>5, Zenon DEF Window!onDisconnectClick
  <2> QED BY <1>3, <2>1, Zenon
<1>6. ASSUME NEW w \in Window!Wins, Window!LeaveCallMenu(w) PROVE AgreeInv'
  <2>1. Window!disconnect(w = "widget") \/ Window!disconnect(FALSE)
    BY <1>6, Zenon DEF Window!LeaveCallMenu
  <2> QED BY <1>2, <1>3, <2>1, Zenon
<1> QED BY <1>1, <1>4, <1>5, <1>6, MountAgrees, RequestAgrees, CloseAgrees

LEMMA MenuAgrees ==
    ASSUME WindowInv, AgreeInv, UNCHANGED <<client, kept, up, down, view, popout>>,
           \/ UNCHANGED room
           \/ \E S : room' = [room EXCEPT !.others = S]
           \/ \E h : room' = [room EXCEPT !.host = h]
    PROVE  AgreeInv'
<1> DEFINE r2 == room'
<1>1. r2.refused = room.refused /\ r2.stale = room.stale BY DEF WindowInv, RoomFields
<1> HIDE DEF r2
<1>2. client.life # "closed" => Agreeing(client, kept, up, down, view, popout, r2) BY <1>1, RestAgrees DEF AgreeInv
<1> QED BY <1>2 DEF AgreeInv, r2

LEMMA MenusAgree ==
    ASSUME WindowInv, AgreeInv,
           \/ \E w \in Window!Wins : \/ Window!onLeaveMenuOpen(w) \/ Window!onRemove(w)
                                     \/ Window!onRemoveConfirm(w) \/ Window!onRemoveCancel(w)
                                     \/ \E p \in Others : Window!onOpenChange(w, p)
           \/ Window!onMenuClick \/ Window!onParticipantsButtonClick \/ Window!keyboardClose
           \/ Window!onDeviceClick \/ \E k \in {"audioinput", "audiooutput", "videoinput"} : Window!renderDevices(k)
           \/ Window!onParticipantsListToggle \/ Window!onLiveCaptionsToggle \/ Window!onSwitchViewClick
           \/ Window!toggleReactions \/ Window!toggleShowPicker \/ Window!handleUserPicksEmoji
           \/ Window!closeOnEscape
    PROVE  AgreeInv'
<1>1. UNCHANGED <<client, kept, up, down, view, popout>>
  BY DEF Window!onLeaveMenuOpen, Window!onRemove, Window!onRemoveConfirm, Window!onRemoveCancel,
         Window!onOpenChange, Window!onMenuClick, Window!onParticipantsButtonClick, Window!keyboardClose,
         Window!onDeviceClick, Window!renderDevices, Window!onParticipantsListToggle,
         Window!onLiveCaptionsToggle, Window!onSwitchViewClick, Window!toggleReactions,
         Window!toggleShowPicker, Window!handleUserPicksEmoji, Window!closeOnEscape, Window!Menus
<1>2. UNCHANGED room \/ \E S : room' = [room EXCEPT !.others = S]
  <2>1. ASSUME NEW w \in Window!Wins, Window!onRemoveConfirm(w)
        PROVE  \E S : room' = [room EXCEPT !.others = S]
    <3> DEFINE S == IF Window!useHostControls THEN room.others \ {ui[w].del} ELSE room.others
    <3>1. room' = [room EXCEPT !.others = S] BY <2>1 DEF Window!onRemoveConfirm
    <3> HIDE DEF S
    <3> QED BY <3>1
  <2> QED
    BY <2>1 DEF Window!onLeaveMenuOpen, Window!onRemove, Window!onRemoveCancel,
         Window!onOpenChange, Window!onMenuClick, Window!onParticipantsButtonClick, Window!keyboardClose,
         Window!onDeviceClick, Window!renderDevices, Window!onParticipantsListToggle,
         Window!onLiveCaptionsToggle, Window!onSwitchViewClick, Window!toggleReactions,
         Window!toggleShowPicker, Window!handleUserPicksEmoji, Window!closeOnEscape, Window!Set
<1> QED BY <1>1, <1>2, MenuAgrees

LEMMA OthersAgree ==
    ASSUME WindowInv, AgreeInv, Window!HostChanges \/ \E p \in Others : Window!OtherLeaves(p)
    PROVE  AgreeInv'
<1>1. CASE Window!HostChanges
  <2> DEFINE h == ~room.host
  <2>1. room' = [room EXCEPT !.host = h] /\ UNCHANGED <<client, kept, up, down, view, popout>>
    BY <1>1 DEF Window!HostChanges, Window!Menus
  <2> HIDE DEF h
  <2> QED BY <2>1, MenuAgrees
<1>2. ASSUME NEW p \in Others, Window!OtherLeaves(p) PROVE AgreeInv'
  <2> DEFINE S == room.others \ {p}
  <2>1. room' = [room EXCEPT !.others = S] /\ UNCHANGED <<client, kept, up, down, view, popout>>
    BY <1>2 DEF Window!OtherLeaves, Window!Menus
  <2> HIDE DEF S
  <2> QED BY <2>1, MenuAgrees
<1> QED BY <1>1, <1>2

LEMMA AgreeInvInit == WebInit => AgreeInv
<1> SUFFICES ASSUME WebInit PROVE AgreeInv OBVIOUS
<1>1. \E focus, dm, admin : \E mic \in {"none", "off"} : Window!WindowsStart(focus, dm, admin, mic)
  <2>1. CASE part = "window"
    <3>1. Window!WindowsInit BY <2>1 DEF WebInit, Starts
    <3> QED BY <3>1 DEF Window!WindowsInit
  <2>2. CASE part # "window"
    <3>1. Window!WindowsStart("mic", FALSE, FALSE, "off") BY <2>2 DEF WebInit, Starts
    <3> QED BY <3>1
  <2> QED BY <2>1, <2>2
<1>2. PICK focus, dm, admin : \E mic \in {"none", "off"} : Window!WindowsStart(focus, dm, admin, mic) BY <1>1
<1>3. PICK mic \in {"none", "off"} : Window!WindowsStart(focus, dm, admin, mic) BY <1>2
<1>4. /\ client.mic = mic /\ client.cam = FALSE /\ client.screen = "none" /\ client.offs = 0 /\ client.remote = FALSE
      /\ kept = [mic |-> FALSE, cam |-> FALSE, hand |-> FALSE, sharer |-> "none"]
      /\ up = <<>> /\ view = [w \in Window!Wins |-> Window!Blank] /\ popout = Window!NoWindow
      /\ down = [widget |-> <<[k |-> "state", st |-> kept]>>, pop |-> <<>>]
  BY <1>3 DEF Window!WindowsStart
<1>5. kept \in Kepts /\ kept.sharer = "none" /\ \A f \in SessFlags : kept[f] = FALSE
  BY <1>4 DEF Kepts, Sharers, SessFlags
<1> DEFINE e == [k |-> "state", st |-> kept]
<1>6. e \in DownEvts /\ e.k = "state" /\ e.st = kept BY <1>5 DEF DownEvts, DownKinds
<1>7. view \in [Window!Wins -> WinViews] /\ view["widget"] = Window!Blank
  BY <1>4 DEF Window!Wins, Window!Blank, WinViews, Sharers
<1>8. /\ (\A f \in SessFlags : view["widget"][f] = FALSE) /\ view["widget"].sharer = "none"
      /\ popout.st # "open"
  BY <1>4, <1>7 DEF Window!Blank, SessFlags, Window!NoWindow
<1>9. down["widget"] = <<e>> /\ down["pop"] = <<>> BY <1>4
<1> HIDE DEF e
<1>10. <<e>> \in Seq(DownEvts) BY <1>6
<1>11. down \in [Window!Wins -> Seq(DownEvts)]
  <2>1. DOMAIN down = Window!Wins /\ down = [w \in Window!Wins |-> down[w]] BY <1>4 DEF Window!Wins
  <2>2. <<>> \in Seq(DownEvts) OBVIOUS
  <2>3. down["widget"] \in Seq(DownEvts) /\ down["pop"] \in Seq(DownEvts) BY <1>9, <1>10, <2>2
  <2>4. \A w \in Window!Wins : down[w] \in Seq(DownEvts) BY <2>3 DEF Window!Wins
  <2> QED BY <2>1, <2>4
<1>12. AgreeTypes(client, kept, up, down, view, popout)
  <2>1. client.mic \in {"none", "off", "on"}
    <3>1. client.mic = mic BY <1>4
    <3>2. mic \in {"none", "off"} OBVIOUS
    <3> QED BY <3>1, <3>2
  <2>2. client.cam \in BOOLEAN /\ client.offs \in Nat
    <3>1. client.cam = FALSE BY <1>4
    <3>2. client.offs = 0 BY <1>4
    <3>3. client.cam \in BOOLEAN BY <3>1, Zenon
    <3>4. client.offs \in Nat BY <3>2
    <3> QED BY <3>3, <3>4
  <2>3. up \in Seq(UpMsgs) BY <1>4
  <2> QED BY <1>5, <1>7, <1>9, <1>11, <2>1, <2>2, <2>3 DEF AgreeTypes
<1>13. Mirrored(client, kept, up)
  <2>1. kept.mic = (client.mic = "on") /\ kept.cam = client.cam BY <1>4, <1>5 DEF SessFlags
  <2>2. up = <<>> BY <1>4
  <2> QED BY <2>1, <2>2, EndsEmpty DEF Mirrored
<1>14. /\ e \in ShareEvts /\ SharerSaid(e) = kept.sharer
       /\ \A f \in SessFlags : e \in FlagEvts(f) /\ FlagSaid(e, f) = kept[f]
  BY <1>6, EventKinds DEF SharerSaid, FlagSaid
<1>15. /\ e \in SharerIs(kept.sharer) /\ \A f \in SessFlags : e \in FlagIs(f, kept[f]) BY <1>14 DEF SharerIs, FlagIs
<1>16. \A K, G, p : e \in G /\ p => EndsIn(<<e>>, K, G, p) BY DEF EndsIn
<1>17. Told("widget", kept, up, down, view, popout)
  BY <1>5, <1>8, <1>9, <1>15, <1>16 DEF Told
<1>18. Streaming("widget", client, up, view, room) BY <1>4 DEF Streaming
<1>19. Balanced(client, kept, up)
  <2>1. CountOf(up, "screen_on") = 0 /\ CountOf(up, "screen_off") = 0 BY <1>4, CountEmpty
  <2>2. One(kept.sharer = "me") = 0 /\ One(client.screen # "none") = 0 BY <1>4, <1>5 DEF One
  <2> QED BY <1>4, <2>1, <2>2 DEF Balanced
<1>20. \A w \in Window!Wins : (w = "pop" => popout.st = "open") => w = "widget" BY <1>8 DEF Window!Wins
<1>21. Agreeing(client, kept, up, down, view, popout, room)
  BY <1>4, <1>12, <1>13, <1>17, <1>18, <1>19, <1>20 DEF Agreeing
<1> QED BY <1>21 DEF AgreeInv

LEMMA AgreeInvNext ==
    WindowInv /\ AgreeInv /\ [WebNext]_<<part, adminVars, ringVars, mediaVars, entryVars, promptVars, windowVars>>
        => AgreeInv'
<1>1. ASSUME AgreeInv, UNCHANGED windowVars PROVE AgreeInv' BY <1>1 DEF windowVars, AgreeInv
<1>2. ASSUME WindowInv, AgreeInv, Window!WindowsNext PROVE AgreeInv'
  BY <1>2, TalkAgrees, ScreenAgrees, ConnectAgrees, HandleAgrees, RoomAgrees, ReceivesAgrees, PopoutAgrees,
     MenusAgree, OthersAgree
  DEF Window!WindowsNext, Window!Wins
<1> QED BY <1>1, <1>2 DEF WebNext, AdminStep, RingStep, MediaStep, EntryStep, PromptStep, WindowStep

\* With nothing on its way the last message and the last event are what the
\* client, the server and the window have.
LEMMA QuietAgrees ==
    ASSUME AgreeInv, NEW w \in Window!Wins, Window!Shown(w), Window!Quiet(w)
    PROVE  /\ view[w].mic <=> client.mic = "on"
           /\ view[w].cam <=> client.cam
           /\ view[w].hand <=> kept.hand
           /\ view[w].sharer = kept.sharer
           /\ ~room.refused => (kept.sharer = "me" <=> client.screen # "none")
           /\ ~room.refused /\ ~room.stale =>
                 /\ client.screen # "none" => view[w].stream = "local"
                 /\ client.remote => view[w].stream = "remote"
<1>1. up = <<>> /\ down[w] = <<>> /\ ~popout.asked /\ client.offs = 0 BY DEF Window!Quiet
<1>2. client.life # "closed" /\ (w = "pop" => popout.st = "open") BY DEF Window!Shown
<1>3. Agreeing(client, kept, up, down, view, popout, room) BY <1>2 DEF AgreeInv
<1>4. Told(w, kept, up, down, view, popout) /\ Streaming(w, client, up, view, room) BY <1>2, <1>3 DEF Agreeing
<1>5. \A f : ~Ahead(w, up, popout, f) BY <1>1, HasEmpty DEF Ahead
<1>6. \A f \in SessFlags : view[w][f] = kept[f]
  <2> SUFFICES ASSUME NEW f \in SessFlags PROVE view[w][f] = kept[f] OBVIOUS
  <2> DEFINE p == view[w][f] = kept[f] \/ Ahead(w, up, popout, f)
  <2>1. EndsIn(<<>>, FlagEvts(f), FlagIs(f, kept[f]), p) BY <1>1, <1>4 DEF Told
  <2> HIDE DEF p
  <2>2. p BY <2>1, EndsEmpty
  <2> QED BY <1>5, <2>2 DEF p
<1>7. view[w].sharer = kept.sharer
  <2> DEFINE p == view[w].sharer = kept.sharer \/ (w = "pop" /\ popout.asked)
  <2>1. EndsIn(<<>>, ShareEvts, SharerIs(kept.sharer), p) BY <1>1, <1>4 DEF Told
  <2> HIDE DEF p
  <2>2. p BY <2>1, EndsEmpty
  <2> QED BY <1>1, <2>2 DEF p
<1>8. kept.mic = (client.mic = "on") /\ kept.cam = client.cam
  <2> DEFINE p == kept.mic = (client.mic = "on")
             o == kept.cam = client.cam
  <2>1. /\ EndsIn(<<>>, FlagMsgs("mic"), {FlagMsg("mic", client.mic = "on")}, p)
        /\ EndsIn(<<>>, FlagMsgs("cam"), {FlagMsg("cam", client.cam)}, o)
    BY <1>1, <1>3 DEF Agreeing, Mirrored
  <2> HIDE DEF p, o
  <2>2. p /\ o BY <2>1, EndsEmpty
  <2> QED BY <2>2 DEF p, o
<1>9. ASSUME ~room.refused PROVE kept.sharer = "me" <=> client.screen # "none"
  <2>1. Balanced(client, kept, up) BY <1>3, <1>9 DEF Agreeing
  <2>2. CountOf(up, "screen_on") = 0 /\ CountOf(up, "screen_off") = 0 BY <1>1, CountEmpty
  <2>3. One(kept.sharer = "me") + 0 = One(client.screen # "none") + 0 + 0 BY <1>1, <2>1, <2>2 DEF Balanced
  <2> QED BY <2>3 DEF One
<1>10. ~HasOne(up, {"screen_on"}) BY <1>1, HasEmpty
<1>11. view[w].mic = kept.mic /\ view[w].cam = kept.cam /\ view[w].hand = kept.hand BY <1>6 DEF SessFlags
<1> QED BY <1>4, <1>7, <1>8, <1>9, <1>10, <1>11 DEF Streaming

\* When nothing is on its way to a window it shows the microphone, the camera
\* and the hand of the client, who shares and whose stream (the handlers of the
\* two windows, client.ts and the events of the server).
THEOREM WindowsShowTheClient == WebSpec => []WindowsAgree
<1>1. AgreeInv => WindowsAgree
  <2> SUFFICES ASSUME AgreeInv, NEW w \in Window!Wins, Window!Shown(w), Window!Quiet(w)
               PROVE  /\ view[w].mic <=> client.mic = "on"
                      /\ view[w].cam <=> client.cam
                      /\ view[w].hand <=> kept.hand
                      /\ view[w].sharer = kept.sharer
                      /\ ~room.refused => (kept.sharer = "me" <=> client.screen # "none")
                      /\ ~room.refused /\ ~room.stale =>
                            /\ Window!SharerSeen(w) = "me" => view[w].stream = "local"
                            /\ Window!SharerSeen(w) = "other" /\ client.remote => view[w].stream = "remote"
    BY DEF WindowsAgree, Window!WindowsAgree
  <2>1. Window!SharerSeen(w) = "me" => view[w].sharer = "me" BY DEF Window!SharerSeen
  <2> QED BY <2>1, QuietAgrees
<1> QED BY <1>1, WindowInvInit, WindowInvNext, AgreeInvInit, AgreeInvNext, PTL DEF WebSpec

-----------------------------------------------------------------------------
(* The recording disclaimer *)

\* The server's times are even, so that a dismissal lies between two of them.
Times == {2 * k : k \in Nat}
Recs == [init : Times, start : Times, end : Times, err : BOOLEAN]
Servers == [now : Times, rec : Recs, host : BOOLEAN, moved : Times]
Events == [k : {"rec", "host", "state"}, at : Times, rec : Recs, host : BOOLEAN]
Stores ==
    [init : Times, start : Times, end : Times, err : BOOLEAN, errAt : Times, dis : Nat,
     host : BOOLEAN, hostAt : Times, last : Times]

NewsTypes ==
    /\ srv \in Servers
    /\ lag \in [Prompt!Windows -> Seq(Events)]
    /\ store \in [Prompt!Windows -> Stores]
    /\ DOMAIN data = {"dis", "noScreen"} /\ data.dis \in Nat
    /\ past.seen \in Nat

\* A recording s that is shown is the last one that started or ended by t.
Known(s, t) == s.start # 0 \/ s.err => t <= s.start \/ t <= s.end

RecLater(q, i, t) == \E j \in DOMAIN q : i < j /\ q[j].k = "rec" /\ q[j].at <= t
IsErr(e) == e.k = "rec" /\ e.rec.err

\* The server v, whose last failed recording ended at E.
ServerNews(v, E) ==
    /\ E <= v.now /\ v.now # 0
    /\ v.rec.start <= v.now /\ v.rec.end <= v.now /\ v.moved <= v.now
    /\ v.rec.err => v.rec.end > v.rec.start
    /\ Known(v.rec, E)

\* Events q are on their way to a store r, in the order of their times.
InOrder(v, q, r) ==
    /\ \A i \in DOMAIN q : /\ r.last < q[i].at /\ q[i].at <= v.now
                           /\ q[i].rec.start <= q[i].at /\ q[i].rec.end <= q[i].at
                           /\ q[i].rec.err => q[i].k = "rec" /\ q[i].rec.end > q[i].rec.start
    /\ \A i, j \in DOMAIN q : i < j => q[i].at < q[j].at
    /\ r.start <= r.last /\ r.end <= r.last /\ r.errAt <= r.last /\ r.hostAt <= r.last /\ r.last <= v.now
    /\ r.err => r.end > r.start

\* What a store knows of the recordings by the time of the next event about one.
Informed(q, r, t) ==
    /\ Known(r, t) \/ RecLater(q, 0, t)
    /\ \A i \in DOMAIN q : q[i].k # "host" => Known(q[i].rec, t) \/ RecLater(q, i, t)

\* Where the store will be when the events have been handled.
RecDue(v, q, r) ==
    /\ \A i \in DOMAIN q :
          q[i].k # "host" /\ (\A j \in DOMAIN q : i < j => q[j].k = "host") =>
             q[i].rec.start \in {0, v.rec.start} /\ q[i].rec.end \in {0, v.rec.end}
    /\ (\A i \in DOMAIN q : q[i].k = "host") => r.start \in {0, v.rec.start} /\ r.end \in {0, v.rec.end}
HostDue(v, q, r) ==
    /\ \A i \in DOMAIN q :
          q[i].k = "host" /\ (\A j \in DOMAIN q : i < j => q[j].k # "host") => q[i].at = v.moved
    /\ (\A i \in DOMAIN q : q[i].k # "host") => r.hostAt \in {0, v.moved}
ErrDue(q, r, E) ==
    /\ \A i \in DOMAIN q :
          IsErr(q[i]) /\ (\A j \in DOMAIN q : i < j => ~IsErr(q[j])) => q[i].at = E
    /\ (\A i \in DOMAIN q : ~IsErr(q[i])) => r.errAt \in {0, E}

WindowNews(v, q, r, E) ==
    /\ InOrder(v, q, r)
    /\ Informed(q, r, v.rec.start) /\ Informed(q, r, v.rec.end) /\ Informed(q, r, E)
    /\ RecDue(v, q, r) /\ HostDue(v, q, r) /\ ErrDue(q, r, E)

\* A time is after the last dismissal exactly when it is news.
Marked(t, d, seen) == t # 0 => (t <= seen => t < d) /\ (t > seen => t > d)
MarkedAll(v, E, d, seen) ==
    /\ seen <= v.now /\ d <= v.now + 1
    /\ Marked(v.rec.start, d, seen) /\ Marked(v.rec.end, d, seen) /\ Marked(v.moved, d, seen) /\ Marked(E, d, seen)

NewsAt(E) ==
    /\ ServerNews(srv, E)
    /\ MarkedAll(srv, E, data.dis, past.seen) /\ MarkedAll(srv, E, store["widget"].dis, past.seen)
    /\ store["widget"].dis \in {0, data.dis} /\ (pop = "open" => store["pop"].dis \in {0, data.dis})
    /\ WindowNews(srv, lag["widget"], store["widget"], E)
    /\ pop = "open" => WindowNews(srv, lag["pop"], store["pop"], E)
    /\ pop # "open" => lag["pop"] = <<>>

NewsInv ==
    /\ DOMAIN past = PastFields /\ past.late \in BOOLEAN /\ past.refused \in BOOLEAN
    /\ ~past.late /\ ~past.refused => NewsTypes /\ \E E \in Times : NewsAt(E)

LEMMA TimesFacts ==
    /\ 0 \in Times /\ 2 \in Times
    /\ \A a \in Times : a \in Nat /\ a + 2 \in Times
    /\ \A a, b \in Times : a < b => a + 1 < b
<1>1. 0 \in Times
  <2>1. 0 = 2 * 0 OBVIOUS
  <2> QED BY <2>1 DEF Times
<1>2. 2 \in Times
  <2>1. 2 = 2 * 1 OBVIOUS
  <2> QED BY <2>1 DEF Times
<1>3. ASSUME NEW a \in Times PROVE a \in Nat /\ a + 2 \in Times
  <2>1. PICK k \in Nat : a = 2 * k BY DEF Times
  <2>2. a + 2 = 2 * (k + 1) /\ k + 1 \in Nat BY <2>1
  <2> QED BY <2>1, <2>2 DEF Times
<1>4. ASSUME NEW a \in Times, NEW b \in Times, a < b PROVE a + 1 < b
  <2>1. PICK k \in Nat : a = 2 * k BY DEF Times
  <2>2. PICK l \in Nat : b = 2 * l BY DEF Times
  <2>3. k < l BY <1>4, <2>1, <2>2
  <2> QED BY <2>1, <2>2, <2>3
<1> QED BY <1>1, <1>2, <1>3, <1>4

LEMMA MaxOfIs ==
    ASSUME NEW S, NEW most \in S, \A y \in S : y <= most, \A y \in S : y \in Nat
    PROVE  Prompt!MaxOf(S) = most
BY DEF Prompt!MaxOf

LEMMA MaxOfTwo ==
    ASSUME NEW a \in Nat, NEW b \in Nat
    PROVE  Prompt!MaxOf({a, b}) = IF b <= a THEN a ELSE b
<1> DEFINE most == IF b <= a THEN a ELSE b
           S == {a, b}
<1>1. most \in S /\ (\A y \in S : y <= most) /\ \A y \in S : y \in Nat OBVIOUS
<1> HIDE DEF most, S
<1>2. Prompt!MaxOf(S) = most BY <1>1, MaxOfIs
<1> QED BY <1>2 DEF most, S

LEMMA MaxOfFour ==
    ASSUME NEW a \in Nat, NEW b \in Nat, NEW c \in Nat, NEW d \in Nat
    PROVE  /\ Prompt!MaxOf({a, b, c, d}) \in {a, b, c, d}
           /\ \A y \in {a, b, c, d} : y <= Prompt!MaxOf({a, b, c, d})
<1> DEFINE S == {a, b, c, d}
<1>1. \E most \in S : \A y \in S : y <= most OBVIOUS
<1>2. PICK most \in S : \A y \in S : y <= most BY <1>1
<1>3. \A y \in S : y \in Nat OBVIOUS
<1> HIDE DEF S
<1>4. Prompt!MaxOf(S) = most BY <1>2, <1>3, MaxOfIs
<1>5. Prompt!MaxOf(S) \in S /\ \A y \in S : y <= Prompt!MaxOf(S) BY <1>2, <1>4
<1> QED BY <1>5 DEF S

\* The disclaimer of a store with these times is there exactly when there is
\* news since it was dismissed.
LEMMA ShownIsNews ==
    ASSUME NEW r \in Stores, NEW d \in Nat, NEW seen \in Nat, r.err => r.end > r.start,
           Marked(r.start, d, seen), Marked(r.end, d, seen), Marked(r.errAt, d, seen), Marked(r.hostAt, d, seen)
    PROVE  Prompt!ShowsDisclaimer(r, d) <=>
              /\ r.start # 0 \/ r.err
              /\ Prompt!hasRecEnded(r) => r.host
              /\ \/ r.errAt # 0 /\ r.errAt > seen
                 \/ ~Prompt!hasRecEnded(r) /\ (r.start > seen \/ (r.host /\ r.hostAt # 0 /\ r.hostAt > seen))
                 \/ Prompt!hasRecEnded(r) /\ r.end > seen /\ ~(r.hostAt > r.end)
<1> DEFINE s == r.start
           e == r.end
           x == r.errAt
           h == r.hostAt
<1>1. s \in Nat /\ e \in Nat /\ x \in Nat /\ h \in Nat /\ r.err \in BOOLEAN /\ r.host \in BOOLEAN
  BY TimesFacts DEF Stores
<1>2. /\ Marked(s, d, seen) /\ Marked(e, d, seen) /\ Marked(x, d, seen) /\ Marked(h, d, seen)
      /\ r.err => e > s
  OBVIOUS
<1>3. Prompt!ShowsDisclaimer(r, d) <=>
         /\ s # 0 \/ r.err
         /\ e > s => r.host
         /\ \/ x > d
            \/ /\ ~(~(e > s) /\ d > s /\ d > h)
               /\ ~(e > s /\ d > e)
               /\ ~(d > s /\ h > d /\ ~r.host)
               /\ ~(r.host /\ e > s /\ h > e)
  BY DEF Prompt!ShowsDisclaimer, Prompt!hasRecEnded
<1>4. Prompt!hasRecEnded(r) <=> e > s BY DEF Prompt!hasRecEnded
<1>5. x > d <=> x # 0 /\ x > seen BY <1>1, <1>2 DEF Marked
<1> HIDE DEF s, e, x, h
<1>6. CASE e > s BY <1>1, <1>2, <1>3, <1>4, <1>5, <1>6 DEF s, e, x, h, Marked
<1>7. CASE ~(e > s) BY <1>1, <1>2, <1>3, <1>4, <1>5, <1>7 DEF s, e, x, h, Marked
<1> QED BY <1>6, <1>7

\* An event e is published while the events q are on their way.
LEMMA PublishedSeq ==
    ASSUME NEW q \in Seq(Events), NEW e \in Events
    PROVE  /\ Append(q, e) \in Seq(Events)
           /\ DOMAIN Append(q, e) = 1 .. Len(q) + 1 /\ DOMAIN q = 1 .. Len(q) /\ Len(q) \in Nat
           /\ \A i \in DOMAIN q : i \in DOMAIN Append(q, e) /\ Append(q, e)[i] = q[i]
           /\ Append(q, e)[Len(q) + 1] = e /\ Len(q) + 1 \in DOMAIN Append(q, e)
           /\ \A i \in DOMAIN Append(q, e) : i \in DOMAIN q \/ i = Len(q) + 1
OBVIOUS

LEMMA InformedMore ==
    ASSUME NEW q \in Seq(Events), NEW e \in Events, NEW r, NEW t, Informed(q, r, t),
           e.k # "host" => Known(e.rec, t)
    PROVE  Informed(Append(q, e), r, t)
<1> DEFINE p == Append(q, e)
<1>1. /\ DOMAIN q = 1 .. Len(q) /\ Len(q) \in Nat
      /\ \A i \in DOMAIN q : i \in DOMAIN p /\ p[i] = q[i]
      /\ p[Len(q) + 1] = e
      /\ \A i \in DOMAIN p : i \in DOMAIN q \/ i = Len(q) + 1
  BY PublishedSeq
<1> HIDE DEF p
<1>2. ASSUME NEW i, RecLater(q, i, t) PROVE RecLater(p, i, t) BY <1>1, <1>2 DEF RecLater
<1>3. Known(r, t) \/ RecLater(p, 0, t) BY <1>2 DEF Informed
<1>4. \A i \in DOMAIN p : p[i].k # "host" => Known(p[i].rec, t) \/ RecLater(p, i, t)
  BY <1>1, <1>2 DEF Informed
<1> QED BY <1>3, <1>4 DEF Informed, p

\* A new time is known to nobody before its event.
LEMMA InformedNew ==
    ASSUME NEW q \in Seq(Events), NEW e \in Events, NEW r, NEW t, e.k = "rec", e.at <= t, Known(e.rec, t)
    PROVE  Informed(Append(q, e), r, t)
<1> DEFINE p == Append(q, e)
<1>1. /\ DOMAIN q = 1 .. Len(q) /\ Len(q) \in Nat
      /\ \A i \in DOMAIN q : i \in DOMAIN p /\ p[i] = q[i]
      /\ p[Len(q) + 1] = e /\ Len(q) + 1 \in DOMAIN p
      /\ \A i \in DOMAIN p : i \in DOMAIN q \/ i = Len(q) + 1
  BY PublishedSeq
<1> HIDE DEF p
<1>2. \A i \in DOMAIN q : RecLater(p, i, t) BY <1>1 DEF RecLater
<1>3. RecLater(p, 0, t) BY <1>1 DEF RecLater
<1> QED BY <1>1, <1>2, <1>3 DEF Informed, p

LEMMA InOrderMore ==
    ASSUME NEW v \in Servers, NEW u \in Servers, NEW q \in Seq(Events), NEW r \in Stores, NEW e \in Events,
           InOrder(v, q, r), u.now = v.now + 2, e.at = u.now,
           e.rec.start <= e.at, e.rec.end <= e.at,
           e.rec.err => e.k = "rec" /\ e.rec.end > e.rec.start
    PROVE  InOrder(u, Append(q, e), r)
<1> DEFINE p == Append(q, e)
<1>1. /\ DOMAIN q = 1 .. Len(q) /\ Len(q) \in Nat
      /\ \A i \in DOMAIN q : i \in DOMAIN p /\ p[i] = q[i]
      /\ p[Len(q) + 1] = e
      /\ \A i \in DOMAIN p : i \in DOMAIN q \/ i = Len(q) + 1
  BY PublishedSeq
<1>2. v.now \in Nat /\ u.now \in Nat /\ r.last \in Nat /\ \A i \in DOMAIN q : q[i] \in Events /\ q[i].at \in Nat
  <2>1. \A i \in DOMAIN q : q[i] \in Events BY <1>1
  <2> QED BY <2>1, TimesFacts DEF Servers, Stores, Events
<1> HIDE DEF p
<1>3. \A i \in DOMAIN p : /\ r.last < p[i].at /\ p[i].at <= u.now
                          /\ p[i].rec.start <= p[i].at /\ p[i].rec.end <= p[i].at
                          /\ p[i].rec.err => p[i].k = "rec" /\ p[i].rec.end > p[i].rec.start
  <2> TAKE i \in DOMAIN p
  <2>1. CASE i \in DOMAIN q
    <3>1. p[i] = q[i] /\ q[i].at \in Nat BY <1>1, <1>2, <2>1
    <3>2. /\ r.last < q[i].at /\ q[i].at <= v.now
          /\ q[i].rec.start <= q[i].at /\ q[i].rec.end <= q[i].at
          /\ q[i].rec.err => q[i].k = "rec" /\ q[i].rec.end > q[i].rec.start
      BY <2>1 DEF InOrder
    <3> QED BY <1>2, <3>1, <3>2
  <2>2. CASE i = Len(q) + 1
    <3>1. p[i] = e /\ r.last <= v.now BY <1>1, <2>2 DEF InOrder
    <3> QED BY <1>2, <3>1
  <2> QED BY <1>1, <2>1, <2>2
<1>4. \A i, j \in DOMAIN p : i < j => p[i].at < p[j].at
  <2> TAKE i, j \in DOMAIN p
  <2> HAVE i < j
  <2>1. i \in DOMAIN q BY <1>1
  <2>2. CASE j \in DOMAIN q BY <1>1, <2>1, <2>2 DEF InOrder
  <2>3. CASE j = Len(q) + 1
    <3>1. q[i].at <= v.now BY <2>1 DEF InOrder
    <3>2. p[i] = q[i] /\ p[j] = e /\ q[i].at \in Nat BY <1>1, <1>2, <2>1, <2>3
    <3> QED BY <1>2, <3>1, <3>2
  <2> QED BY <1>1, <2>2, <2>3
<1>5. r.start <= r.last /\ r.end <= r.last /\ r.errAt <= r.last /\ r.hostAt <= r.last /\ r.last <= u.now
      /\ (r.err => r.end > r.start)
  <2>1. r.last <= v.now BY DEF InOrder
  <2>2. r.last <= u.now BY <1>2, <2>1
  <2> QED BY <2>2 DEF InOrder
<1> QED BY <1>3, <1>4, <1>5 DEF InOrder, p

\* A change of the recording, which is rec from now on.
LEMMA RecPublished ==
    ASSUME NEW v \in Servers, NEW u \in Servers, NEW q \in Seq(Events), NEW r \in Stores, NEW e \in Events,
           NEW E \in Times, NEW F \in Times,
           WindowNews(v, q, r, E), ServerNews(v, E), ServerNews(u, F),
           u.now = v.now + 2, u.moved = v.moved, e.k = "rec", e.at = u.now, e.rec = u.rec,
           u.rec.start \in {0, v.rec.start, u.now}, u.rec.end \in {0, u.now},
           F = IF u.rec.err THEN u.now ELSE E, u.rec.err => u.rec.end = u.now
    PROVE  WindowNews(u, Append(q, e), r, F)
<1> DEFINE p == Append(q, e)
<1>1. /\ DOMAIN q = 1 .. Len(q) /\ Len(q) \in Nat
      /\ \A i \in DOMAIN q : i \in DOMAIN p /\ p[i] = q[i]
      /\ p[Len(q) + 1] = e /\ Len(q) + 1 \in DOMAIN p
      /\ \A i \in DOMAIN p : i \in DOMAIN q \/ i = Len(q) + 1
      /\ p \in Seq(Events)
  BY PublishedSeq
<1>2. u.rec \in Recs /\ v.rec \in Recs BY DEF Servers
<1>3. u.rec.start \in Nat /\ u.rec.end \in Nat /\ v.rec.start \in Nat /\ u.now \in Nat /\ E \in Nat /\ F \in Nat
  BY <1>2, TimesFacts DEF Recs, Servers
<1>4. /\ Known(u.rec, u.rec.start) /\ Known(u.rec, u.rec.end) /\ Known(u.rec, F)
      /\ u.rec.start <= u.now /\ u.rec.end <= u.now
      /\ u.rec.err => u.rec.end > u.rec.start
  BY <1>3 DEF Known, ServerNews
<1>5. InOrder(u, p, r) BY <1>4, InOrderMore DEF WindowNews
<1>6. Informed(q, r, v.rec.start) /\ Informed(q, r, E) BY DEF WindowNews
<1>7. Informed(q, r, 0)
  <2>1. \A s : s.start \in Nat => Known(s, 0) BY DEF Known
  <2>2. r.start \in Nat BY TimesFacts DEF Stores
  <2>3. \A i \in DOMAIN q : q[i].rec.start \in Nat
    <3>1. \A i \in DOMAIN q : q[i] \in Events BY <1>1
    <3> QED BY <3>1, TimesFacts DEF Events, Recs
  <2> QED BY <2>1, <2>2, <2>3 DEF Informed
<1>8. ASSUME NEW t \in Nat, Informed(q, r, t) \/ t = u.now, Known(u.rec, t)
      PROVE  Informed(p, r, t)
  BY <1>3, <1>8, InformedMore, InformedNew
<1>9. Informed(p, r, u.rec.start)
  <2>1. Informed(q, r, u.rec.start) \/ u.rec.start = u.now BY <1>6, <1>7
  <2> HIDE DEF p
  <2> QED BY <1>3, <1>4, <1>8, <2>1
<1>10. Informed(p, r, u.rec.end)
  <2>1. Informed(q, r, u.rec.end) \/ u.rec.end = u.now BY <1>7
  <2> HIDE DEF p
  <2> QED BY <1>3, <1>4, <1>8, <2>1
<1>11. Informed(p, r, F)
  <2>1. Informed(q, r, F) \/ F = u.now BY <1>6
  <2> HIDE DEF p
  <2> QED BY <1>3, <1>4, <1>8, <2>1
<1> HIDE DEF p
<1>12. RecDue(u, p, r) BY <1>1 DEF RecDue
<1>13. HostDue(u, p, r)
  <2>1. \A i \in DOMAIN p : p[i].k = "host" => i \in DOMAIN q /\ q[i].k = "host" BY <1>1
  <2>2. \A i \in DOMAIN q : p[i] = q[i] /\ i \in DOMAIN p BY <1>1
  <2> QED BY <2>1, <2>2 DEF WindowNews, HostDue
<1>14. ErrDue(p, r, F)
  <2>1. CASE u.rec.err
    <3>1. IsErr(e) BY <2>1 DEF IsErr
    <3>2. \A i \in DOMAIN p : (\A j \in DOMAIN p : i < j => ~IsErr(p[j])) => i = Len(q) + 1 BY <1>1, <3>1
    <3>3. \E i \in DOMAIN p : IsErr(p[i]) BY <1>1, <3>1
    <3>4. p[Len(q) + 1].at = F BY <1>1, <2>1
    <3> QED BY <3>2, <3>3, <3>4 DEF ErrDue
  <2>2. CASE ~u.rec.err
    <3>1. ~IsErr(e) /\ F = E BY <2>2 DEF IsErr
    <3>2. \A i \in DOMAIN p : IsErr(p[i]) => i \in DOMAIN q /\ IsErr(q[i]) BY <1>1, <3>1
    <3>3. \A i \in DOMAIN q : p[i] = q[i] /\ i \in DOMAIN p BY <1>1
    <3> QED BY <3>1, <3>2, <3>3 DEF WindowNews, ErrDue
  <2> QED BY <2>1, <2>2
<1> QED BY <1>5, <1>9, <1>10, <1>11, <1>12, <1>13, <1>14 DEF WindowNews, p

\* A change of the host.
LEMMA HostPublished ==
    ASSUME NEW v \in Servers, NEW u \in Servers, NEW q \in Seq(Events), NEW r \in Stores, NEW e \in Events,
           NEW E \in Times, WindowNews(v, q, r, E),
           u.now = v.now + 2, u.rec = v.rec, u.moved = u.now,
           e.k = "host", e.at = u.now, e.rec = Prompt!Off
    PROVE  WindowNews(u, Append(q, e), r, E)
<1> DEFINE p == Append(q, e)
<1>1. /\ DOMAIN q = 1 .. Len(q) /\ Len(q) \in Nat
      /\ \A i \in DOMAIN q : i \in DOMAIN p /\ p[i] = q[i]
      /\ p[Len(q) + 1] = e /\ Len(q) + 1 \in DOMAIN p
      /\ \A i \in DOMAIN p : i \in DOMAIN q \/ i = Len(q) + 1
      /\ p \in Seq(Events)
  BY PublishedSeq
<1>2. u.now \in Nat BY TimesFacts DEF Servers
<1>3. InOrder(u, p, r)
  <2>1. e.rec.start = 0 /\ e.rec.end = 0 /\ ~e.rec.err BY DEF Prompt!Off
  <2>2. e.rec.start <= e.at /\ e.rec.end <= e.at BY <1>2, <2>1
  <2> QED BY <2>1, <2>2, InOrderMore DEF WindowNews
<1>4. Informed(p, r, u.rec.start) /\ Informed(p, r, u.rec.end) /\ Informed(p, r, E)
  BY InformedMore DEF WindowNews
<1> HIDE DEF p
<1>5. \A i \in DOMAIN q : p[i] = q[i] /\ i \in DOMAIN p BY <1>1
<1>6. RecDue(u, p, r)
  <2>1. \A i \in DOMAIN p : p[i].k # "host" => i \in DOMAIN q /\ q[i].k # "host" BY <1>1
  <2> QED BY <1>5, <2>1 DEF WindowNews, RecDue
<1>7. HostDue(u, p, r) BY <1>1 DEF HostDue
<1>8. ErrDue(p, r, E)
  <2>1. \A i \in DOMAIN p : IsErr(p[i]) => i \in DOMAIN q /\ IsErr(q[i]) BY <1>1 DEF IsErr
  <2> QED BY <1>5, <2>1 DEF WindowNews, ErrDue
<1> QED BY <1>3, <1>4, <1>6, <1>7, <1>8 DEF WindowNews, p

\* The first event of q is handled, and the store is s.
LEMMA HandledSeq ==
    ASSUME NEW q \in Seq(Events), q # <<>>
    PROVE  /\ Head(q) \in Events /\ Head(q) = q[1] /\ 1 \in DOMAIN q
           /\ Tail(q) \in Seq(Events)
           /\ \A i \in DOMAIN Tail(q) : i \in Nat /\ i + 1 \in DOMAIN q /\ Tail(q)[i] = q[i + 1]
           /\ \A i \in DOMAIN q : i \in Nat /\ (i = 1 \/ (i - 1 \in DOMAIN Tail(q) /\ Tail(q)[i - 1] = q[i] /\ i > 1))
<1>1. DOMAIN q = 1 .. Len(q) /\ Len(q) \in Nat /\ Len(q) >= 1 BY EmptySeq
<1>2. Tail(q) \in Seq(Events) /\ Len(Tail(q)) = Len(q) - 1 /\ DOMAIN Tail(q) = 1 .. Len(q) - 1 OBVIOUS
<1>3. \A i \in 1 .. Len(q) - 1 : Tail(q)[i] = q[i + 1] BY <1>1
<1>4. Head(q) = q[1] /\ q[1] \in Events BY <1>1
<1> QED BY <1>1, <1>2, <1>3, <1>4

LEMMA InformedAfter ==
    ASSUME NEW q \in Seq(Events), q # <<>>, NEW r, NEW s, NEW t, Informed(q, r, t),
           IF Head(q).k = "host" THEN s.start = r.start /\ s.end = r.end /\ s.err = r.err
           ELSE s.start = Head(q).rec.start /\ s.end = Head(q).rec.end /\ s.err = Head(q).rec.err
    PROVE  Informed(Tail(q), s, t)
<1> DEFINE p == Tail(q)
           e == Head(q)
<1>1. /\ e \in Events /\ e = q[1] /\ 1 \in DOMAIN q
      /\ \A i \in DOMAIN p : i \in Nat /\ i + 1 \in DOMAIN q /\ p[i] = q[i + 1]
      /\ \A i \in DOMAIN q : i \in Nat /\ (i = 1 \/ (i - 1 \in DOMAIN p /\ p[i - 1] = q[i] /\ i > 1))
  BY HandledSeq
<1>2. IF e.k = "host" THEN s.start = r.start /\ s.end = r.end /\ s.err = r.err
      ELSE s.start = e.rec.start /\ s.end = e.rec.end /\ s.err = e.rec.err
  OBVIOUS
<1> HIDE DEF p, e
<1>3. ASSUME NEW i \in Nat, RecLater(q, i + 1, t) PROVE RecLater(p, i, t)
  <2>1. PICK j \in DOMAIN q : i + 1 < j /\ q[j].k = "rec" /\ q[j].at <= t BY <1>3 DEF RecLater
  <2>2. j # 1 /\ j \in Nat BY <1>1, <2>1
  <2>3. j - 1 \in DOMAIN p /\ p[j - 1] = q[j] BY <1>1, <2>2
  <2>4. i < j - 1 BY <2>1, <2>2
  <2> QED BY <2>1, <2>3, <2>4 DEF RecLater
<1>4. Known(s, t) \/ RecLater(p, 0, t)
  <2>1. CASE e.k = "host"
    <3>1. CASE Known(r, t) BY <1>2, <2>1, <3>1 DEF Known
    <3>2. CASE RecLater(q, 0, t)
      <4>1. RecLater(q, 0 + 1, t)
        <5>1. PICK j \in DOMAIN q : q[j].k = "rec" /\ q[j].at <= t BY <3>2 DEF RecLater
        <5>2. j # 1 BY <1>1, <2>1, <5>1
        <5>3. j > 1 BY <1>1, <5>2
        <5> QED BY <5>1, <5>3 DEF RecLater
      <4> QED BY <1>3, <4>1
    <3> QED BY <3>1, <3>2 DEF Informed
  <2>2. CASE e.k # "host"
    <3>1. Known(e.rec, t) \/ RecLater(q, 1, t) BY <1>1, <2>2 DEF Informed
    <3>2. Known(e.rec, t) => Known(s, t) BY <1>2, <2>2 DEF Known
    <3>3. RecLater(q, 0 + 1, t) => RecLater(p, 0, t) BY <1>3
    <3> QED BY <3>1, <3>2, <3>3
  <2> QED BY <2>1, <2>2
<1>5. ASSUME NEW i \in DOMAIN p, p[i].k # "host"
      PROVE  Known(p[i].rec, t) \/ RecLater(p, i, t)
  <2>1. i \in Nat /\ i + 1 \in DOMAIN q /\ p[i] = q[i + 1] BY <1>1
  <2>2. Known(q[i + 1].rec, t) \/ RecLater(q, i + 1, t) BY <1>5, <2>1 DEF Informed
  <2> QED BY <1>3, <2>1, <2>2
<1> QED BY <1>4, <1>5 DEF Informed, p

LEMMA NewsReceived ==
    ASSUME NEW v \in Servers, NEW q \in Seq(Events), q # <<>>, NEW r \in Stores, NEW s \in Stores, NEW E \in Times,
           WindowNews(v, q, r, E), s.last = Head(q).at,
           IF Head(q).k = "host" THEN s.start = r.start /\ s.end = r.end /\ s.err = r.err
           ELSE s.start = Head(q).rec.start /\ s.end = Head(q).rec.end /\ s.err = Head(q).rec.err,
           s.hostAt = IF Head(q).k = "host" THEN Head(q).at ELSE r.hostAt,
           s.errAt = IF IsErr(Head(q)) THEN Head(q).at ELSE r.errAt
    PROVE  WindowNews(v, Tail(q), s, E)
<1> DEFINE p == Tail(q)
           e == Head(q)
<1>1. /\ e \in Events /\ e = q[1] /\ 1 \in DOMAIN q /\ p \in Seq(Events)
      /\ \A i \in DOMAIN p : i \in Nat /\ i + 1 \in DOMAIN q /\ p[i] = q[i + 1]
      /\ \A i \in DOMAIN q : i \in Nat /\ (i = 1 \/ (i - 1 \in DOMAIN p /\ p[i - 1] = q[i] /\ i > 1))
  BY HandledSeq
<1>2. /\ IF e.k = "host" THEN s.start = r.start /\ s.end = r.end /\ s.err = r.err
         ELSE s.start = e.rec.start /\ s.end = e.rec.end /\ s.err = e.rec.err
      /\ s.hostAt = IF e.k = "host" THEN e.at ELSE r.hostAt
      /\ s.errAt = IF IsErr(e) THEN e.at ELSE r.errAt
      /\ s.last = e.at
  OBVIOUS
<1>3. Informed(p, s, v.rec.start) /\ Informed(p, s, v.rec.end) /\ Informed(p, s, E)
  BY InformedAfter DEF WindowNews
<1> HIDE DEF p, e
<1>4. InOrder(v, q, r) /\ RecDue(v, q, r) /\ HostDue(v, q, r) /\ ErrDue(q, r, E) BY DEF WindowNews
<1>5. InOrder(v, p, s)
  <2>1. /\ r.last < e.at /\ e.at <= v.now /\ e.rec.start <= e.at /\ e.rec.end <= e.at
        /\ e.rec.err => e.rec.end > e.rec.start
    BY <1>1, <1>4 DEF InOrder
  <2>2. r.start <= r.last /\ r.end <= r.last /\ r.errAt <= r.last /\ r.hostAt <= r.last
        /\ (r.err => r.end > r.start)
    BY <1>4 DEF InOrder
  <2>3. /\ r.start \in Nat /\ r.end \in Nat /\ r.errAt \in Nat /\ r.hostAt \in Nat /\ r.last \in Nat
        /\ e.at \in Nat
    BY <1>1, TimesFacts DEF Stores, Events
  <2>4. s.start <= s.last /\ s.end <= s.last /\ s.errAt <= s.last /\ s.hostAt <= s.last /\ s.last <= v.now
        /\ (s.err => s.end > s.start)
    BY <1>2, <2>1, <2>2, <2>3
  <2>5. \A i \in DOMAIN p : /\ s.last < p[i].at /\ p[i].at <= v.now
                            /\ p[i].rec.start <= p[i].at /\ p[i].rec.end <= p[i].at
                            /\ p[i].rec.err => p[i].k = "rec" /\ p[i].rec.end > p[i].rec.start
    <3> TAKE i \in DOMAIN p
    <3>1. i \in Nat /\ i + 1 \in DOMAIN q /\ p[i] = q[i + 1] BY <1>1
    <3>2. 1 < i + 1
      <4>1. i # 0
        <5>1. i + 1 # 1
          <6> SUFFICES ASSUME i = 0 PROVE FALSE BY <3>1
          <6>1. DOMAIN p = 1 .. Len(p) BY <1>1
          <6> QED BY <6>1
        <5> QED BY <3>1, <5>1
      <4> QED BY <3>1, <4>1
    <3>3. e.at < q[i + 1].at BY <1>1, <1>4, <3>1, <3>2 DEF InOrder
    <3>4. /\ q[i + 1].at <= v.now
          /\ q[i + 1].rec.start <= q[i + 1].at /\ q[i + 1].rec.end <= q[i + 1].at
          /\ q[i + 1].rec.err => q[i + 1].k = "rec" /\ q[i + 1].rec.end > q[i + 1].rec.start
      BY <1>4, <3>1 DEF InOrder
    <3> QED BY <1>2, <3>1, <3>3, <3>4
  <2>6. \A i, j \in DOMAIN p : i < j => p[i].at < p[j].at
    <3> TAKE i, j \in DOMAIN p
    <3> HAVE i < j
    <3>1. i + 1 \in DOMAIN q /\ j + 1 \in DOMAIN q /\ i + 1 < j + 1 BY <1>1
    <3>2. q[i + 1].at < q[j + 1].at BY <1>4, <3>1 DEF InOrder
    <3> QED BY <1>1, <3>2
  <2> QED BY <2>4, <2>5, <2>6 DEF InOrder
<1>6. ASSUME NEW i \in DOMAIN p, NEW j \in DOMAIN q, i + 1 < j
      PROVE  j - 1 \in DOMAIN p /\ i < j - 1 /\ p[j - 1] = q[j]
  <2>1. i \in Nat /\ j \in Nat BY <1>1
  <2>2. j # 1 BY <1>6, <2>1
  <2> QED BY <1>1, <1>6, <2>1, <2>2
<1>7. ASSUME NEW j \in DOMAIN q, 1 < j
       PROVE  j - 1 \in DOMAIN p /\ p[j - 1] = q[j]
  <2>1. j \in Nat /\ j # 1 BY <1>1, <1>7
  <2> QED BY <1>1, <2>1
<1>8. RecDue(v, p, s)
  <2>1. ASSUME NEW i \in DOMAIN p, p[i].k # "host", \A j \in DOMAIN p : i < j => p[j].k = "host"
        PROVE  p[i].rec.start \in {0, v.rec.start} /\ p[i].rec.end \in {0, v.rec.end}
    <3>1. i + 1 \in DOMAIN q /\ p[i] = q[i + 1] BY <1>1
    <3>2. \A j \in DOMAIN q : i + 1 < j => q[j].k = "host" BY <1>6, <2>1
    <3> QED BY <1>4, <2>1, <3>1, <3>2 DEF RecDue
  <2>2. ASSUME \A i \in DOMAIN p : p[i].k = "host"
        PROVE  s.start \in {0, v.rec.start} /\ s.end \in {0, v.rec.end}
    <3>1. \A j \in DOMAIN q : 1 < j => q[j].k = "host" BY <1>7, <2>2
    <3>2. CASE e.k = "host"
      <4>1. \A j \in DOMAIN q : q[j].k = "host" BY <1>1, <3>1, <3>2
      <4> QED BY <1>2, <1>4, <3>2, <4>1 DEF RecDue
    <3>3. CASE e.k # "host" BY <1>1, <1>2, <1>4, <3>1, <3>3 DEF RecDue
    <3> QED BY <3>2, <3>3
  <2> QED BY <2>1, <2>2 DEF RecDue
<1>9. HostDue(v, p, s)
  <2>1. ASSUME NEW i \in DOMAIN p, p[i].k = "host", \A j \in DOMAIN p : i < j => p[j].k # "host"
        PROVE  p[i].at = v.moved
    <3>1. i + 1 \in DOMAIN q /\ p[i] = q[i + 1] BY <1>1
    <3>2. \A j \in DOMAIN q : i + 1 < j => q[j].k # "host" BY <1>6, <2>1
    <3> QED BY <1>4, <2>1, <3>1, <3>2 DEF HostDue
  <2>2. ASSUME \A i \in DOMAIN p : p[i].k # "host"
        PROVE  s.hostAt \in {0, v.moved}
    <3>1. \A j \in DOMAIN q : 1 < j => q[j].k # "host" BY <1>7, <2>2
    <3>2. CASE e.k # "host"
      <4>1. \A j \in DOMAIN q : q[j].k # "host" BY <1>1, <3>1, <3>2
      <4> QED BY <1>2, <1>4, <3>2, <4>1 DEF HostDue
    <3>3. CASE e.k = "host" BY <1>1, <1>2, <1>4, <3>1, <3>3 DEF HostDue
    <3> QED BY <3>2, <3>3
  <2> QED BY <2>1, <2>2 DEF HostDue
<1>10. ErrDue(p, s, E)
  <2>1. ASSUME NEW i \in DOMAIN p, IsErr(p[i]), \A j \in DOMAIN p : i < j => ~IsErr(p[j])
        PROVE  p[i].at = E
    <3>1. i + 1 \in DOMAIN q /\ p[i] = q[i + 1] BY <1>1
    <3>2. \A j \in DOMAIN q : i + 1 < j => ~IsErr(q[j]) BY <1>6, <2>1
    <3> QED BY <1>4, <2>1, <3>1, <3>2 DEF ErrDue
  <2>2. ASSUME \A i \in DOMAIN p : ~IsErr(p[i])
        PROVE  s.errAt \in {0, E}
    <3>1. \A j \in DOMAIN q : 1 < j => ~IsErr(q[j]) BY <1>7, <2>2
    <3>2. CASE ~IsErr(e)
      <4>1. \A j \in DOMAIN q : ~IsErr(q[j]) BY <1>1, <3>1, <3>2
      <4> QED BY <1>2, <1>4, <3>2, <4>1 DEF ErrDue
    <3>3. CASE IsErr(e) BY <1>1, <1>2, <1>4, <3>1, <3>3 DEF ErrDue
    <3> QED BY <3>2, <3>3
  <2> QED BY <2>1, <2>2 DEF ErrDue
<1> QED BY <1>3, <1>5, <1>8, <1>9, <1>10 DEF WindowNews, p

LEMMA MarkedMore ==
    ASSUME NEW v \in Servers, NEW u \in Servers, NEW E \in Times, NEW F \in Times, NEW d \in Nat, NEW seen \in Nat,
           MarkedAll(v, E, d, seen), u.now = v.now + 2,
           u.rec.start \in {0, v.rec.start, u.now}, u.rec.end \in {0, v.rec.end, u.now},
           u.moved \in {v.moved, u.now}, F \in {E, u.now}
    PROVE  MarkedAll(u, F, d, seen)
<1>1. v.now \in Nat /\ u.now \in Nat BY TimesFacts DEF Servers
<1>2. seen <= u.now /\ d <= u.now + 1 /\ Marked(u.now, d, seen) /\ Marked(0, d, seen)
  BY <1>1 DEF MarkedAll, Marked
<1> QED BY <1>2 DEF MarkedAll

\* An event e is published to the windows that are open.
LEMMA PublishedKept ==
    ASSUME NewsInv, NEW E \in Times, NEW F \in Times, NewsTypes, NewsAt(E), NEW e \in Events,
           srv' \in Servers, ServerNews(srv', F), srv'.now = srv.now + 2,
           srv'.rec.start \in {0, srv.rec.start, srv'.now}, srv'.rec.end \in {0, srv.rec.end, srv'.now},
           srv'.moved \in {srv.moved, srv'.now}, F \in {E, srv'.now},
           lag' = [w \in Prompt!Windows |-> IF Prompt!Open(w) THEN Append(lag[w], e) ELSE lag[w]],
           UNCHANGED <<store, data, pop, past>>,
           \A q \in Seq(Events), r \in Stores : WindowNews(srv, q, r, E) => WindowNews(srv', Append(q, e), r, F)
    PROVE  NewsInv'
<1>1. "widget" \in Prompt!Windows /\ "pop" \in Prompt!Windows /\ Prompt!Open("widget")
      /\ (Prompt!Open("pop") <=> pop = "open")
  BY DEF Prompt!Windows, Prompt!Open
<1>2. /\ srv \in Servers /\ data.dis \in Nat /\ past.seen \in Nat
      /\ \A w \in Prompt!Windows : lag[w] \in Seq(Events) /\ store[w] \in Stores
  BY DEF NewsTypes
<1>3. store["widget"].dis \in Nat BY <1>1, <1>2 DEF Stores
<1>4. \A w \in Prompt!Windows : lag'[w] \in Seq(Events) BY <1>2
<1>5. lag' \in [Prompt!Windows -> Seq(Events)] BY <1>4
<1>6. NewsTypes' BY <1>5 DEF NewsTypes
<1>7. MarkedAll(srv, E, data.dis, past.seen) /\ MarkedAll(srv, E, store["widget"].dis, past.seen)
  BY DEF NewsAt
<1>8. MarkedAll(srv', F, data.dis, past.seen) BY <1>2, <1>7, MarkedMore
<1>9. MarkedAll(srv', F, store["widget"].dis, past.seen)
  <2> DEFINE d == store["widget"].dis
  <2>1. d \in Nat /\ MarkedAll(srv, E, d, past.seen) BY <1>3, <1>7
  <2> HIDE DEF d
  <2>2. MarkedAll(srv', F, d, past.seen) BY <1>2, <2>1, MarkedMore
  <2> QED BY <2>2 DEF d
<1>10. WindowNews(srv', lag'["widget"], store["widget"], F)
  <2>1. lag'["widget"] = Append(lag["widget"], e) BY <1>1
  <2>2. WindowNews(srv, lag["widget"], store["widget"], E) BY DEF NewsAt
  <2> QED BY <1>1, <1>2, <2>1, <2>2
<1>11. pop = "open" => WindowNews(srv', lag'["pop"], store["pop"], F)
  <2>1. pop = "open" => lag'["pop"] = Append(lag["pop"], e) BY <1>1
  <2>2. pop = "open" => WindowNews(srv, lag["pop"], store["pop"], E) BY DEF NewsAt
  <2> QED BY <1>1, <1>2, <2>1, <2>2
<1>12. pop # "open" => lag'["pop"] = <<>>
  <2>1. pop # "open" => lag'["pop"] = lag["pop"] BY <1>1
  <2> QED BY <2>1 DEF NewsAt
<1>13. NewsAt(F)' BY <1>8, <1>9, <1>10, <1>11, <1>12 DEF NewsAt
<1> QED BY <1>6, <1>13 DEF NewsInv

\* Records of recordings with one time changed.
LEMMA RecWith ==
    ASSUME NEW r \in Recs, NEW t, NEW err
    PROVE  /\ [r EXCEPT !.init = t] = [init |-> t, start |-> r.start, end |-> r.end, err |-> r.err]
           /\ [r EXCEPT !.end = t, !.err = err] = [init |-> r.init, start |-> r.start, end |-> t, err |-> err]
<1> DEFINE a == [r EXCEPT !.end = t, !.err = err]
           b == [init |-> r.init, start |-> r.start, end |-> t, err |-> err]
<1>1. [r EXCEPT !.init = t] = [init |-> t, start |-> r.start, end |-> r.end, err |-> r.err] BY DEF Recs
<1>2. DOMAIN r = {"init", "start", "end", "err"} BY DEF Recs
<1>3. DOMAIN a = DOMAIN b BY <1>2
<1>4. a.init = b.init /\ a.start = b.start /\ a.end = b.end /\ a.err = b.err BY <1>2
<1>5. a = b
  <2>1. \A f \in DOMAIN a : a[f] = b[f] BY <1>2, <1>4
  <2>2. a = [f \in DOMAIN a |-> a[f]] BY <1>2
  <2>3. b = [f \in DOMAIN b |-> b[f]] OBVIOUS
  <2> HIDE DEF a, b
  <2> QED BY <1>3, <2>1, <2>2, <2>3
<1> QED BY <1>1, <1>5

LEMMA RecKept ==
    ASSUME NewsInv, ~past.late, ~past.refused,
           \/ Prompt!RecordingInitialised \/ Prompt!RecordingStarts
           \/ \E err \in BOOLEAN : Prompt!RecordingEnds(err)
    PROVE  NewsInv'
<1>1. NewsTypes /\ \E E \in Times : NewsAt(E) BY DEF NewsInv
<1>2. PICK E \in Times : NewsAt(E) BY <1>1
<1>3. srv \in Servers /\ srv.rec \in Recs /\ srv.now \in Times /\ ServerNews(srv, E) BY <1>1, <1>2 DEF NewsTypes, Servers, NewsAt
<1> DEFINE t == srv.now + 2
<1>4. t \in Times /\ t \in Nat /\ srv.now \in Nat BY <1>3, TimesFacts
<1>5. PICK rec \in Recs, F \in Times :
         /\ Prompt!Publish(rec)
         /\ rec.start \in {0, srv.rec.start, t} /\ rec.end \in {0, t}
         /\ F = IF rec.err THEN t ELSE E
         /\ rec.err => rec.end = t /\ rec.start <= srv.now
         /\ Known(rec, F)
  <2>1. CASE Prompt!RecordingInitialised
    <3> DEFINE rec == [Prompt!Off EXCEPT !.init = srv.now + 2]
    <3>1. rec = [init |-> t, start |-> 0, end |-> 0, err |-> FALSE]
      <4> DEFINE off == Prompt!Off
      <4>1. off \in Recs /\ off.start = 0 /\ off.end = 0 /\ off.err = FALSE BY TimesFacts DEF Recs, Prompt!Off
      <4>2. rec = [off EXCEPT !.init = t] OBVIOUS
      <4> HIDE DEF off, rec
      <4> QED BY <4>1, <4>2, RecWith
    <3>2. rec \in Recs BY <1>4, <3>1, TimesFacts DEF Recs
    <3>3. Known(rec, E) BY <3>1 DEF Known
    <3>4. Prompt!Publish(rec) BY <2>1 DEF Prompt!RecordingInitialised
    <3>5. rec.start = 0 /\ rec.end = 0 /\ ~rec.err BY <3>1
    <3> HIDE DEF rec
    <3> QED BY <1>2, <3>2, <3>3, <3>4, <3>5
  <2>2. CASE Prompt!RecordingStarts
    <3> DEFINE rec == [srv.rec EXCEPT !.start = srv.now + 2]
    <3>1. srv.rec.start = 0 /\ srv.rec.end = 0 /\ Prompt!Publish(rec)
      BY <2>2 DEF Prompt!RecordingStarts, Prompt!Going
    <3>2. rec \in Recs /\ rec.start = t /\ rec.end = 0 /\ rec.err = srv.rec.err BY <1>3, <1>4, <3>1 DEF Recs
    <3>3. ~srv.rec.err BY <1>3, <3>1 DEF ServerNews
    <3>4. E <= t /\ E \in Nat
      <4>1. E <= srv.now BY <1>3 DEF ServerNews
      <4>2. E \in Nat BY TimesFacts
      <4> QED BY <1>4, <4>1, <4>2
    <3> HIDE DEF rec
    <3>5. Known(rec, E) BY <3>2, <3>4 DEF Known
    <3> QED BY <1>2, <3>1, <3>2, <3>3, <3>5
  <2>3. ASSUME NEW err \in BOOLEAN, Prompt!RecordingEnds(err)
        PROVE  \E rec \in Recs, F \in Times :
                  /\ Prompt!Publish(rec)
                  /\ rec.start \in {0, srv.rec.start, t} /\ rec.end \in {0, t}
                  /\ F = IF rec.err THEN t ELSE E
                  /\ rec.err => rec.end = t /\ rec.start <= srv.now
                  /\ Known(rec, F)
    <3> DEFINE rec == [srv.rec EXCEPT !.end = srv.now + 2, !.err = err]
               F == IF err THEN t ELSE E
    <3>1. Prompt!Publish(rec) BY <2>3 DEF Prompt!RecordingEnds
    <3>2. rec = [init |-> srv.rec.init, start |-> srv.rec.start, end |-> t, err |-> err]
      <4> DEFINE r == srv.rec
      <4>1. r \in Recs /\ rec = [r EXCEPT !.end = t, !.err = err] BY <1>3
      <4> HIDE DEF r, rec
      <4>2. rec = [init |-> r.init, start |-> r.start, end |-> t, err |-> err] BY <4>1, RecWith
      <4> QED BY <4>2 DEF r
    <3>3. rec \in Recs BY <1>3, <1>4, <3>2 DEF Recs
    <3>4. F \in Times /\ F <= t
      <4>1. E <= srv.now BY <1>3 DEF ServerNews
      <4>2. E \in Nat BY TimesFacts
      <4> QED BY <1>4, <4>1, <4>2
    <3>5. rec.start = srv.rec.start /\ rec.end = t /\ rec.err = err /\ rec.start <= srv.now
      BY <1>3, <3>2 DEF ServerNews
    <3>6. F = IF rec.err THEN t ELSE E BY <3>5
    <3> HIDE DEF rec, F, t
    <3>7. Known(rec, F) BY <3>4, <3>5 DEF Known
    <3> QED BY <3>1, <3>3, <3>4, <3>5, <3>6, <3>7
  <2> QED BY <2>1, <2>2, <2>3
<1> DEFINE e == [k |-> "rec", at |-> t, rec |-> rec, host |-> FALSE]
<1>6. e \in Events /\ e.k = "rec" /\ e.at = t /\ e.rec = rec BY <1>4 DEF Events
<1>7. /\ srv' = [srv EXCEPT !.now = t, !.rec = rec]
      /\ lag' = [w \in Prompt!Windows |-> IF Prompt!Open(w) THEN Append(lag[w], e) ELSE lag[w]]
      /\ UNCHANGED <<store, data, pop, past>>
  BY <1>5 DEF Prompt!Publish, Prompt!Event
<1>8. srv' = [now |-> t, rec |-> rec, host |-> srv.host, moved |-> srv.moved] BY <1>3, <1>7 DEF Servers
<1>9. srv' \in Servers /\ srv'.now = t /\ srv'.rec = rec /\ srv'.moved = srv.moved
  BY <1>3, <1>4, <1>5, <1>8 DEF Servers
<1>10. ServerNews(srv', F)
  <2>1. /\ srv.rec.start <= srv.now /\ srv.moved <= srv.now /\ E <= srv.now
    BY <1>3 DEF ServerNews
  <2>2. srv.rec.start \in Nat /\ srv.moved \in Nat /\ E \in Nat /\ rec.start \in Nat /\ rec.end \in Nat
    BY <1>3, <1>5, TimesFacts DEF Servers, Recs
  <2> QED BY <1>4, <1>5, <1>9, <2>1, <2>2 DEF ServerNews
<1> HIDE DEF e, t
<1>11. ASSUME NEW q \in Seq(Events), NEW r \in Stores, WindowNews(srv, q, r, E)
       PROVE  WindowNews(srv', Append(q, e), r, F)
  <2>1. srv'.now = srv.now + 2 BY <1>9 DEF t
  <2> DEFINE u == srv'
  <2>2. /\ u \in Servers /\ ServerNews(u, F) /\ u.now = srv.now + 2 /\ u.moved = srv.moved
        /\ e.at = u.now /\ e.rec = u.rec /\ u.rec.start \in {0, srv.rec.start, u.now} /\ u.rec.end \in {0, u.now}
        /\ F = IF u.rec.err THEN u.now ELSE E
        /\ u.rec.err => u.rec.end = u.now
    BY <1>5, <1>6, <1>9, <1>10, <2>1
  <2> HIDE DEF u
  <2>3. WindowNews(u, Append(q, e), r, F) BY <1>3, <1>6, <1>11, <2>2, RecPublished
  <2> QED BY <2>3 DEF u
<1>12. srv'.now = srv.now + 2 BY <1>9 DEF t
<1>13. /\ srv'.rec.start \in {0, srv.rec.start, srv'.now} /\ srv'.rec.end \in {0, srv.rec.end, srv'.now}
       /\ srv'.moved \in {srv.moved, srv'.now} /\ F \in {E, srv'.now}
  BY <1>5, <1>9
<1> QED BY <1>1, <1>2, <1>6, <1>7, <1>9, <1>10, <1>11, <1>12, <1>13, PublishedKept

LEMMA HostKept ==
    ASSUME NewsInv, ~past.late, ~past.refused, Prompt!HostChanges
    PROVE  NewsInv'
<1>1. NewsTypes /\ \E E \in Times : NewsAt(E) BY DEF NewsInv
<1>2. PICK E \in Times : NewsAt(E) BY <1>1
<1>3. srv \in Servers /\ srv.rec \in Recs /\ srv.now \in Times /\ ServerNews(srv, E) BY <1>1, <1>2 DEF NewsTypes, Servers, NewsAt
<1> DEFINE t == srv.now + 2
           h == ~srv.host
           e == [k |-> "host", at |-> t, rec |-> Prompt!Off, host |-> h]
<1>4. t \in Times /\ t \in Nat /\ srv.now \in Nat /\ h \in BOOLEAN BY <1>3, TimesFacts
<1>5. Prompt!Off \in Recs BY TimesFacts DEF Prompt!Off, Recs
<1>6. /\ srv' = [srv EXCEPT !.now = t, !.host = ~@, !.moved = t]
      /\ lag' = [w \in Prompt!Windows |-> IF Prompt!Open(w) THEN Append(lag[w], e) ELSE lag[w]]
      /\ UNCHANGED <<store, data, pop, past>>
  BY DEF Prompt!HostChanges, Prompt!Event
<1>7. srv' = [now |-> t, rec |-> srv.rec, host |-> h, moved |-> t] BY <1>3, <1>6 DEF Servers
<1> HIDE DEF h
<1>8. e \in Events /\ e.k = "host" /\ e.at = t /\ e.rec = Prompt!Off BY <1>4, <1>5 DEF Events
<1>9. srv' \in Servers /\ srv'.now = t /\ srv'.rec = srv.rec /\ srv'.moved = t
  BY <1>3, <1>4, <1>7 DEF Servers
<1>10. ServerNews(srv', E)
  <2>1. srv.rec.start <= srv.now /\ srv.rec.end <= srv.now /\ E <= srv.now
    BY <1>3 DEF ServerNews
  <2>2. srv.rec.start \in Nat /\ srv.rec.end \in Nat /\ E \in Nat
    BY <1>3, TimesFacts DEF Recs
  <2> QED BY <1>3, <1>4, <1>9, <2>1, <2>2 DEF ServerNews
<1> HIDE DEF e, t
<1>11. srv'.now = srv.now + 2 BY <1>9 DEF t
<1>12. ASSUME NEW q \in Seq(Events), NEW r \in Stores, WindowNews(srv, q, r, E)
       PROVE  WindowNews(srv', Append(q, e), r, E)
  <2> DEFINE u == srv'
  <2>1. u \in Servers /\ u.now = srv.now + 2 /\ u.rec = srv.rec /\ u.moved = u.now /\ e.at = u.now
    BY <1>8, <1>9, <1>11
  <2> HIDE DEF u
  <2>2. WindowNews(u, Append(q, e), r, E) BY <1>3, <1>8, <1>12, <2>1, HostPublished
  <2> QED BY <2>2 DEF u
<1>13. /\ srv'.rec.start \in {0, srv.rec.start, srv'.now} /\ srv'.rec.end \in {0, srv.rec.end, srv'.now}
       /\ srv'.moved \in {srv.moved, srv'.now} /\ E \in {E, srv'.now}
  BY <1>9
<1> QED BY <1>1, <1>2, <1>6, <1>8, <1>9, <1>10, <1>11, <1>12, <1>13, PublishedKept

\* What the handlers of the three events leave in a store.
StoreFields == {"init", "start", "end", "err", "errAt", "dis", "host", "hostAt", "last"}

LEMMA StoreFieldsMake ==
    ASSUME NEW s, s = [f \in StoreFields |-> s[f]],
           s.init \in Times, s.start \in Times, s.end \in Times, s.err \in BOOLEAN, s.errAt \in Times,
           s.dis \in Nat, s.host \in BOOLEAN, s.hostAt \in Times, s.last \in Times
    PROVE  s \in Stores
BY DEF Stores, StoreFields

LEMMA JobStateStored ==
    ASSUME NEW w, store[w] \in Stores, NEW e \in Events, NEW now, e.rec.err => now \in Times
    PROVE  LET r == store[w]
               s == Prompt!handleCallJobState(w, e, now)
           IN  /\ s \in Stores /\ s.start = e.rec.start /\ s.end = e.rec.end /\ s.err = e.rec.err
               /\ s.errAt = (IF e.rec.err THEN now ELSE r.errAt)
               /\ s.hostAt = r.hostAt /\ s.dis = r.dis /\ s.last = e.at
<1> DEFINE r == store[w]
           s == Prompt!handleCallJobState(w, e, now)
<1>1. r \in Stores /\ e.rec \in Recs /\ e.at \in Times BY DEF Events
<1>2. DOMAIN r = StoreFields BY <1>1 DEF Stores, StoreFields
<1>3. s = [r EXCEPT !.init = e.rec.init, !.start = e.rec.start, !.end = e.rec.end, !.err = e.rec.err,
                    !.errAt = IF e.rec.err THEN now ELSE @, !.last = e.at]
  BY DEF Prompt!handleCallJobState
<1> HIDE DEF r
<1>4. /\ s.init = e.rec.init /\ s.start = e.rec.start /\ s.end = e.rec.end /\ s.err = e.rec.err
      /\ s.errAt = (IF e.rec.err THEN now ELSE r.errAt) /\ s.last = e.at
      /\ s.dis = r.dis /\ s.host = r.host /\ s.hostAt = r.hostAt
      /\ DOMAIN s = StoreFields
  BY <1>2, <1>3 DEF StoreFields
<1>5. s = [f \in StoreFields |-> s[f]] BY <1>2, <1>3 DEF StoreFields
<1> HIDE DEF s
<1>6. s \in Stores BY <1>1, <1>4, <1>5, StoreFieldsMake DEF Stores, Recs
<1> QED BY <1>4, <1>6 DEF r, s

LEMMA HostStored ==
    ASSUME NEW w, store[w] \in Stores, NEW e \in Events, NEW now \in Times
    PROVE  LET r == store[w]
               s == Prompt!handleCallHostChanged(w, e, now)
           IN  /\ s \in Stores /\ s.start = r.start /\ s.end = r.end /\ s.err = r.err
               /\ s.errAt = r.errAt /\ s.hostAt = now /\ s.dis = r.dis /\ s.last = e.at
<1> DEFINE r == store[w]
           s == Prompt!handleCallHostChanged(w, e, now)
<1>1. r \in Stores /\ e.host \in BOOLEAN /\ e.at \in Times BY DEF Events
<1>2. DOMAIN r = StoreFields BY <1>1 DEF Stores, StoreFields
<1>3. s = [r EXCEPT !.host = e.host, !.hostAt = now, !.last = e.at] BY DEF Prompt!handleCallHostChanged
<1> HIDE DEF r
<1>4. /\ s.init = r.init /\ s.start = r.start /\ s.end = r.end /\ s.err = r.err
      /\ s.errAt = r.errAt /\ s.last = e.at /\ s.dis = r.dis /\ s.host = e.host /\ s.hostAt = now
      /\ DOMAIN s = StoreFields
  BY <1>2, <1>3 DEF StoreFields
<1>5. s = [f \in StoreFields |-> s[f]] BY <1>2, <1>3 DEF StoreFields
<1> HIDE DEF s
<1>6. s \in Stores BY <1>1, <1>4, <1>5, StoreFieldsMake DEF Stores
<1> QED BY <1>4, <1>6 DEF r, s

LEMMA StateStored ==
    ASSUME NEW w, store[w] \in Stores, NEW e \in Events
    PROVE  LET r == store[w]
               s == Prompt!loadCallState(w, e)
           IN  /\ s \in Stores /\ s.start = e.rec.start /\ s.end = e.rec.end /\ s.err = e.rec.err
               /\ s.errAt = r.errAt /\ s.hostAt = r.hostAt /\ s.dis = r.dis /\ s.last = e.at
<1> DEFINE r == store[w]
           s == Prompt!loadCallState(w, e)
<1>1. r \in Stores /\ e.rec \in Recs /\ e.host \in BOOLEAN /\ e.at \in Times BY DEF Events
<1>2. DOMAIN r = StoreFields BY <1>1 DEF Stores, StoreFields
<1>3. s = [r EXCEPT !.init = e.rec.init, !.start = e.rec.start, !.end = e.rec.end, !.err = e.rec.err,
                    !.host = e.host, !.last = e.at]
  BY DEF Prompt!loadCallState
<1> HIDE DEF r
<1>4. /\ s.init = e.rec.init /\ s.start = e.rec.start /\ s.end = e.rec.end /\ s.err = e.rec.err
      /\ s.errAt = r.errAt /\ s.last = e.at
      /\ s.dis = r.dis /\ s.host = e.host /\ s.hostAt = r.hostAt
      /\ DOMAIN s = StoreFields
  BY <1>2, <1>3 DEF StoreFields
<1>5. s = [f \in StoreFields |-> s[f]] BY <1>2, <1>3 DEF StoreFields
<1> HIDE DEF s
<1>6. s \in Stores BY <1>1, <1>4, <1>5, StoreFieldsMake DEF Stores, Recs
<1> QED BY <1>4, <1>6 DEF r, s

\* A window handles the first event that is on its way to it.
LEMMA ReceiveKept ==
    ASSUME NewsInv, ~past.late, ~past.refused, NEW w \in Prompt!Windows, Prompt!Receive(w),
           DOMAIN past' = PastFields, past'.late = FALSE, past'.refused = FALSE
    PROVE  NewsInv'
<1>1. NewsTypes /\ \E E \in Times : NewsAt(E) BY DEF NewsInv
<1>2. PICK E \in Times : NewsAt(E) BY <1>1
<1>3. Prompt!Windows = {"widget", "pop"} BY DEF Prompt!Windows
<1>4. /\ srv \in Servers /\ lag[w] \in Seq(Events) /\ store[w] \in Stores
      /\ lag \in [Prompt!Windows -> Seq(Events)] /\ store \in [Prompt!Windows -> Stores]
  BY <1>1 DEF NewsTypes
<1>5. lag[w] # <<>> /\ lag' = [lag EXCEPT ![w] = Tail(@)] /\ UNCHANGED <<srv, data, pop>>
  BY DEF Prompt!Receive
<1>6. w = "pop" => pop = "open" BY <1>2, <1>5 DEF NewsAt
<1>7. WindowNews(srv, lag[w], store[w], E) BY <1>2, <1>3, <1>6 DEF NewsAt
<1> DEFINE q == lag[w]
           r == store[w]
           e == Head(q)
           now == srv.now + past.skew
           s == CASE e.k = "rec" -> Prompt!handleCallJobState(w, e, now)
                  [] e.k = "host" -> Prompt!handleCallHostChanged(w, e, now)
                  [] e.k = "state" -> Prompt!loadCallState(w, e)
<1>8. e \in Events /\ e = q[1] /\ 1 \in DOMAIN q /\ Tail(q) \in Seq(Events) BY <1>4, <1>5, HandledSeq
<1>9. store' = [store EXCEPT ![w] = s] /\ past' = [past EXCEPT !.late = @ \/ ((e.k = "host" \/ e.rec.err) /\ now # e.at)]
  BY DEF Prompt!Receive
<1>10. (e.k = "host" \/ e.rec.err) => now = e.at
  <2>1. DOMAIN past = PastFields BY DEF NewsInv
  <2>2. past'.late = (past.late \/ ((e.k = "host" \/ e.rec.err) /\ now # e.at)) BY <1>9, <2>1 DEF PastFields
  <2> QED BY <2>2
<1>11. past'.seen = past.seen
  <2>1. DOMAIN past = PastFields BY DEF NewsInv
  <2> QED BY <1>9, <2>1 DEF PastFields
<1>12. e.rec.err => e.k = "rec" BY <1>7, <1>8 DEF WindowNews, InOrder
<1>13. e.at \in Times /\ e.k \in {"rec", "host", "state"} BY <1>8 DEF Events
<1>14. WindowNews(srv, q, r, E) /\ q \in Seq(Events) /\ q # <<>> /\ r \in Stores BY <1>4, <1>5, <1>7
<1> HIDE DEF now, e, r
<1>15. /\ s \in Stores /\ s.last = e.at /\ s.dis = r.dis
       /\ IF e.k = "host" THEN s.start = r.start /\ s.end = r.end /\ s.err = r.err
          ELSE s.start = e.rec.start /\ s.end = e.rec.end /\ s.err = e.rec.err
       /\ s.hostAt = IF e.k = "host" THEN e.at ELSE r.hostAt
       /\ s.errAt = IF IsErr(e) THEN e.at ELSE r.errAt
  <2>1. CASE e.k = "rec"
    <3>1. s = Prompt!handleCallJobState(w, e, now) BY <2>1
    <3> HIDE DEF s
    <3>2. e.rec.err => now \in Times BY <1>10, <1>13
    <3>3. /\ s \in Stores /\ s.start = e.rec.start /\ s.end = e.rec.end /\ s.err = e.rec.err
          /\ s.errAt = (IF e.rec.err THEN now ELSE r.errAt)
          /\ s.hostAt = r.hostAt /\ s.dis = r.dis /\ s.last = e.at
      BY <1>4, <1>8, <3>1, <3>2, JobStateStored DEF r
    <3> QED BY <1>10, <2>1, <3>3 DEF IsErr
  <2>2. CASE e.k = "host"
    <3>1. s = Prompt!handleCallHostChanged(w, e, now) BY <2>2
    <3> HIDE DEF s
    <3>2. now = e.at /\ now \in Times BY <1>10, <1>13, <2>2
    <3>3. /\ s \in Stores /\ s.start = r.start /\ s.end = r.end /\ s.err = r.err
          /\ s.errAt = r.errAt /\ s.hostAt = now /\ s.dis = r.dis /\ s.last = e.at
      BY <1>4, <1>8, <3>1, <3>2, HostStored DEF r
    <3> QED BY <2>2, <3>2, <3>3 DEF IsErr
  <2>3. CASE e.k = "state"
    <3>1. s = Prompt!loadCallState(w, e) BY <2>3
    <3> HIDE DEF s
    <3>2. /\ s \in Stores /\ s.start = e.rec.start /\ s.end = e.rec.end /\ s.err = e.rec.err
          /\ s.errAt = r.errAt /\ s.hostAt = r.hostAt /\ s.dis = r.dis /\ s.last = e.at
      BY <1>4, <1>8, <3>1, StateStored DEF r
    <3> QED BY <2>3, <3>2 DEF IsErr
  <2> QED BY <1>13, <2>1, <2>2, <2>3
<1>16. store' = [store EXCEPT ![w] = s] BY <1>9
<1> HIDE DEF s
<1>17. WindowNews(srv, Tail(q), s, E)
  <2> HIDE DEF q
  <2> QED BY <1>4, <1>14, <1>15, NewsReceived DEF e
<1>18. store' \in [Prompt!Windows -> Stores] /\ lag' \in [Prompt!Windows -> Seq(Events)]
  BY <1>4, <1>5, <1>8, <1>15, <1>16
<1>19. NewsTypes' BY <1>1, <1>5, <1>11, <1>18 DEF NewsTypes
<1>20. /\ store'[w] = s /\ lag'[w] = Tail(q)
       /\ \A x \in Prompt!Windows : x # w => store'[x] = store[x] /\ lag'[x] = lag[x]
       /\ \A x \in Prompt!Windows : store'[x].dis = store[x].dis
  BY <1>4, <1>5, <1>15, <1>16 DEF r
<1>21. ASSUME NEW x \in Prompt!Windows, WindowNews(srv, lag[x], store[x], E)
       PROVE  WindowNews(srv, lag'[x], store'[x], E)
  BY <1>17, <1>20, <1>21
<1>22. NewsAt(E)'
  <2>1. /\ ServerNews(srv, E)
        /\ MarkedAll(srv, E, data.dis, past.seen) /\ MarkedAll(srv, E, store["widget"].dis, past.seen)
        /\ store["widget"].dis \in {0, data.dis} /\ (pop = "open" => store["pop"].dis \in {0, data.dis})
        /\ WindowNews(srv, lag["widget"], store["widget"], E)
        /\ pop = "open" => WindowNews(srv, lag["pop"], store["pop"], E)
        /\ pop # "open" => lag["pop"] = <<>>
    BY <1>2 DEF NewsAt
  <2>2. WindowNews(srv, lag'["widget"], store'["widget"], E) BY <1>3, <1>21, <2>1
  <2>3. pop = "open" => WindowNews(srv, lag'["pop"], store'["pop"], E) BY <1>3, <1>21, <2>1
  <2>4. pop # "open" => lag'["pop"] = <<>> BY <1>3, <1>6, <1>20, <2>1
  <2>5. store'["widget"].dis = store["widget"].dis /\ store'["pop"].dis = store["pop"].dis BY <1>3, <1>20
  <2> QED BY <1>5, <1>11, <2>1, <2>2, <2>3, <2>4, <2>5 DEF NewsAt
<1> QED BY <1>19, <1>22 DEF NewsInv

\* Steps about something else.
LEMMA NewsUntouched ==
    ASSUME NewsInv, ~past.late, ~past.refused, UNCHANGED <<srv, lag, store, pop>>,
           DOMAIN data' = DOMAIN data, data'.dis = data.dis,
           DOMAIN past' = PastFields, past'.late = FALSE, past'.refused = FALSE, past'.seen = past.seen
    PROVE  NewsInv'
<1>1. NewsTypes /\ \E E \in Times : NewsAt(E) BY DEF NewsInv
<1>2. PICK E \in Times : NewsAt(E) BY <1>1
<1>3. NewsTypes' BY <1>1 DEF NewsTypes
<1>4. NewsAt(E)' BY <1>2 DEF NewsAt
<1> QED BY <1>3, <1>4 DEF NewsInv

LEMMA FreshStore == Prompt!Fresh \in Stores /\ Prompt!Off \in Recs
BY TimesFacts DEF Prompt!Fresh, Stores, Prompt!Off, Recs

\* A store that knows nothing, with nothing or the state of the call on its way.
LEMMA FreshNews ==
    ASSUME NEW v \in Servers, NEW E \in Times, ServerNews(v, E)
    PROVE  /\ v.rec.start = 0 /\ v.rec.end = 0 /\ v.moved = 0 /\ E = 0 => WindowNews(v, <<>>, Prompt!Fresh, E)
           /\ \A e \in Events :
                 /\ e.k = "state" /\ e.at = v.now /\ e.rec \in {v.rec, Prompt!Off}
                 /\ e.rec = v.rec => v.rec.end = 0
                 => WindowNews(v, <<e>>, Prompt!Fresh, E)
<1> DEFINE f == Prompt!Fresh
<1>1. /\ f.start = 0 /\ f.end = 0 /\ ~f.err /\ f.errAt = 0 /\ f.hostAt = 0 /\ f.last = 0 BY DEF Prompt!Fresh
<1>2. v.now \in Nat /\ v.now # 0 /\ v.now > 0 /\ v.rec \in Recs /\ E \in Nat BY TimesFacts DEF ServerNews, Servers
<1>3. v.rec.start \in Nat /\ v.rec.end \in Nat BY <1>2, TimesFacts DEF Recs
<1> HIDE DEF f
<1>4. \A t : Known(f, t) BY <1>1 DEF Known
<1>5. ASSUME v.rec.start = 0, v.rec.end = 0, v.moved = 0, E = 0
      PROVE  WindowNews(v, <<>>, f, E)
  <2> DEFINE q == <<>>
  <2>1. DOMAIN q = {} OBVIOUS
  <2> HIDE DEF q
  <2>2. InOrder(v, q, f) BY <1>1, <1>2, <2>1 DEF InOrder
  <2>3. \A t : Informed(q, f, t) BY <1>4, <2>1 DEF Informed
  <2>4. RecDue(v, q, f) BY <1>1, <2>1 DEF RecDue
  <2>5. HostDue(v, q, f) BY <1>1, <2>1 DEF HostDue
  <2>6. ErrDue(q, f, E) BY <1>1, <2>1 DEF ErrDue
  <2>7. WindowNews(v, q, f, E) BY <2>2, <2>3, <2>4, <2>5, <2>6 DEF WindowNews
  <2> QED BY <2>7 DEF q
<1>6. ASSUME NEW e \in Events, e.k = "state", e.at = v.now, e.rec \in {v.rec, Prompt!Off},
             e.rec = v.rec => v.rec.end = 0
      PROVE  WindowNews(v, <<e>>, f, E)
  <2> DEFINE q == <<e>>
  <2>1. DOMAIN q = {1} /\ q[1] = e OBVIOUS
  <2> HIDE DEF q
  <2>2. /\ e.rec.start \in {0, v.rec.start} /\ e.rec.end = 0 /\ ~e.rec.err
        /\ e.rec.start # 0 => e.rec.start = v.rec.start /\ Known(v.rec, E)
    <3>1. CASE e.rec = v.rec
      <4>1. v.rec.end = 0 /\ ~v.rec.err BY <1>3, <1>6, <3>1 DEF ServerNews
      <4> QED BY <3>1, <4>1 DEF ServerNews
    <3>2. CASE e.rec = Prompt!Off BY <3>2 DEF Prompt!Off
    <3> QED BY <1>6, <3>1, <3>2
  <2>3. InOrder(v, q, f)
    <3>1. e.rec.start <= v.now BY <1>2, <2>2 DEF ServerNews
    <3> QED BY <1>1, <1>2, <1>6, <2>1, <2>2, <3>1 DEF InOrder
  <2>4. \A t : Known(e.rec, t) => Informed(q, f, t) BY <1>4, <2>1 DEF Informed
  <2>5. Known(e.rec, v.rec.start) BY <1>3, <2>2 DEF Known
  <2>6. Known(e.rec, v.rec.end)
    <3>1. CASE e.rec = v.rec BY <1>3, <1>6, <3>1 DEF Known
    <3>2. CASE e.rec = Prompt!Off BY <3>2 DEF Prompt!Off, Known
    <3> QED BY <1>6, <3>1, <3>2
  <2>7. Known(e.rec, E)
    <3>1. CASE e.rec = v.rec BY <3>1 DEF ServerNews
    <3>2. CASE e.rec = Prompt!Off BY <3>2 DEF Prompt!Off, Known
    <3> QED BY <1>6, <3>1, <3>2
  <2>8. RecDue(v, q, f) BY <1>1, <1>6, <2>1, <2>2 DEF RecDue
  <2>9. HostDue(v, q, f) BY <1>1, <1>6, <2>1 DEF HostDue
  <2>10. ErrDue(q, f, E) BY <1>1, <1>6, <2>1 DEF ErrDue, IsErr
  <2>11. WindowNews(v, q, f, E) BY <2>3, <2>4, <2>5, <2>6, <2>7, <2>8, <2>9, <2>10 DEF WindowNews
  <2> QED BY <2>11 DEF q
<1> QED BY <1>5, <1>6 DEF f

\* The pop-out opens or closes, or another call begins.
LEMMA MountsKept ==
    ASSUME NewsInv, ~past.late, ~past.refused, NEW b \in BOOLEAN, Prompt!PopoutMounts(b)
    PROVE  NewsInv'
<1>1. NewsTypes /\ \E E \in Times : NewsAt(E) BY DEF NewsInv
<1>2. PICK E \in Times : NewsAt(E) BY <1>1
<1> DEFINE e == [k |-> "state", at |-> srv.now, rec |-> IF Prompt!Going THEN srv.rec ELSE Prompt!Off,
                 host |-> srv.host]
<1>3. /\ pop' = "open" /\ store' = [store EXCEPT !["pop"] = Prompt!Fresh] /\ lag' = [lag EXCEPT !["pop"] = <<e>>]
      /\ UNCHANGED <<srv, data, past>>
  BY DEF Prompt!PopoutMounts
<1>4. srv \in Servers /\ ServerNews(srv, E) BY <1>1, <1>2 DEF NewsTypes, NewsAt
<1>5. /\ e \in Events /\ e.k = "state" /\ e.at = srv.now /\ e.rec \in {srv.rec, Prompt!Off}
      /\ e.rec = srv.rec => srv.rec.end = 0
  <2>1. e \in Events BY <1>4, FreshStore DEF Events, Servers
  <2>2. e.rec = srv.rec => srv.rec.end = 0
    <3>1. CASE Prompt!Going BY <3>1 DEF Prompt!Going
    <3>2. CASE ~Prompt!Going BY <3>2 DEF Prompt!Off
    <3> QED BY <3>1, <3>2
  <2> QED BY <2>1, <2>2
<1> HIDE DEF e
<1>6. WindowNews(srv, <<e>>, Prompt!Fresh, E) BY <1>4, <1>5, FreshNews
<1>7. /\ lag' \in [Prompt!Windows -> Seq(Events)] /\ store' \in [Prompt!Windows -> Stores]
      /\ lag'["pop"] = <<e>> /\ lag'["widget"] = lag["widget"]
      /\ store'["pop"] = Prompt!Fresh /\ store'["widget"] = store["widget"]
  <2>1. lag \in [Prompt!Windows -> Seq(Events)] /\ store \in [Prompt!Windows -> Stores] BY <1>1 DEF NewsTypes
  <2>2. <<e>> \in Seq(Events) /\ "widget" \in Prompt!Windows /\ "pop" \in Prompt!Windows BY <1>5 DEF Prompt!Windows
  <2> QED BY <1>3, <2>1, <2>2, FreshStore
<1>8. NewsTypes' BY <1>1, <1>3, <1>7 DEF NewsTypes
<1>9. Prompt!Fresh.dis = 0 BY DEF Prompt!Fresh
<1>10. NewsAt(E)' BY <1>2, <1>3, <1>6, <1>7, <1>9 DEF NewsAt
<1> QED BY <1>3, <1>8, <1>10 DEF NewsInv

LEMMA ClosesKept ==
    ASSUME NewsInv, ~past.late, ~past.refused, Prompt!PopoutCloses
    PROVE  NewsInv'
<1>1. NewsTypes /\ \E E \in Times : NewsAt(E) BY DEF NewsInv
<1>2. PICK E \in Times : NewsAt(E) BY <1>1
<1>3. /\ pop' = "none" /\ lag' = [lag EXCEPT !["pop"] = <<>>] /\ UNCHANGED <<srv, store, data>>
      /\ DOMAIN past' = PastFields /\ past'.late = past.late /\ past'.refused = past.refused /\ past'.seen = past.seen
  <2>1. DOMAIN past = PastFields BY DEF NewsInv
  <2> QED BY <2>1 DEF Prompt!PopoutCloses, PastFields
<1>4. lag' \in [Prompt!Windows -> Seq(Events)] /\ lag'["pop"] = <<>> /\ lag'["widget"] = lag["widget"]
  <2>1. lag \in [Prompt!Windows -> Seq(Events)] BY <1>1 DEF NewsTypes
  <2>2. <<>> \in Seq(Events) /\ "widget" \in Prompt!Windows /\ "pop" \in Prompt!Windows BY DEF Prompt!Windows
  <2> QED BY <1>3, <2>1, <2>2
<1>5. NewsTypes' BY <1>1, <1>3, <1>4 DEF NewsTypes
<1>6. NewsAt(E)' BY <1>2, <1>3, <1>4 DEF NewsAt
<1> QED BY <1>3, <1>5, <1>6 DEF NewsInv

LEMMA NextCallKept ==
    ASSUME NewsInv, ~past.late, ~past.refused, Prompt!NextCall
    PROVE  NewsInv'
<1>1. NewsTypes /\ \E E \in Times : NewsAt(E) BY DEF NewsInv
<1>2. PICK E \in Times : NewsAt(E) BY <1>1
<1>3. srv \in Servers /\ data.dis \in Nat /\ srv.now \in Nat /\ ServerNews(srv, E) /\ data.dis <= srv.now + 1
  BY <1>1, <1>2, TimesFacts DEF NewsTypes, NewsAt, MarkedAll, Servers
<1>4. /\ srv' = [srv EXCEPT !.rec = Prompt!Off, !.host = FALSE, !.moved = 0]
      /\ store' = [w \in Prompt!Windows |-> Prompt!Fresh] /\ lag' = [w \in Prompt!Windows |-> <<>>]
      /\ pop' = "none" /\ data' = data
  BY DEF Prompt!NextCall
<1>5. DOMAIN past' = PastFields /\ past'.late = past.late /\ past'.refused = past.refused /\ past'.seen = 0
  <2>1. DOMAIN past = PastFields BY DEF NewsInv
  <2> QED BY <2>1 DEF Prompt!NextCall, PastFields
<1> DEFINE u == srv'
<1>6. u \in Servers /\ u.now = srv.now /\ u.rec = Prompt!Off /\ u.moved = 0
  <2>1. FALSE \in BOOLEAN /\ 0 \in Times /\ Prompt!Off \in Recs BY FreshStore, TimesFacts
  <2> QED BY <1>3, <1>4, <2>1 DEF Servers
<1>7. "widget" \in Prompt!Windows /\ "pop" \in Prompt!Windows BY DEF Prompt!Windows
<1>8. lag' \in [Prompt!Windows -> Seq(Events)] /\ store' \in [Prompt!Windows -> Stores] BY <1>4, FreshStore
<1>9. NewsTypes' BY <1>1, <1>4, <1>5, <1>6, <1>8 DEF NewsTypes
<1> HIDE DEF u
<1>10. u.rec.start = 0 /\ u.rec.end = 0 /\ ~u.rec.err BY <1>6 DEF Prompt!Off
<1>11. ServerNews(u, 0) BY <1>3, <1>6, <1>10 DEF ServerNews, Known
<1>12. WindowNews(u, <<>>, Prompt!Fresh, 0)
  <2> DEFINE z == 0
  <2>1. z \in Times /\ ServerNews(u, z) /\ z = 0 BY <1>11, TimesFacts
  <2> HIDE DEF z
  <2>2. WindowNews(u, <<>>, Prompt!Fresh, z) BY <1>6, <1>10, <2>1, FreshNews
  <2> QED BY <2>1, <2>2
<1>13. \A d \in Nat : d <= srv.now + 1 => MarkedAll(u, 0, d, 0)
  BY <1>3, <1>6, <1>10 DEF MarkedAll, Marked
<1>14. Prompt!Fresh.dis = 0 BY DEF Prompt!Fresh
<1>15. MarkedAll(u, 0, data.dis, 0) /\ MarkedAll(u, 0, 0, 0)
  <2>1. 0 <= srv.now + 1 /\ 0 \in Nat BY <1>3
  <2> QED BY <1>3, <1>13, <2>1
<1>16. NewsAt(0)' BY <1>4, <1>5, <1>7, <1>11, <1>12, <1>14, <1>15 DEF NewsAt, u
<1> QED BY <1>5, <1>9, <1>16, TimesFacts DEF NewsInv

\* The prompt of a store r is dismissed, which showed it since D: the new
\* dismissal is after all that the user was told and before all that is to come.
LEMMA Dismissed ==
    ASSUME NEW v \in Servers, NEW q \in Seq(Events), NEW r \in Stores, NEW E \in Times,
           NEW D \in Nat, NEW seen \in Nat,
           ServerNews(v, E), MarkedAll(v, E, D, seen), WindowNews(v, q, r, E),
           Prompt!ShowsDisclaimer(r, D), ~(r.hostAt < v.moved /\ v.moved <= r.last)
    PROVE  LET d == Prompt!serverDismissedAt(r)
               upto == Prompt!MaxOf({seen, r.last})
           IN  d \in Nat /\ upto \in Nat /\ MarkedAll(v, E, d, upto)
<1> DEFINE most == Prompt!MaxOf({r.start, r.end, r.errAt, r.hostAt})
           upto == Prompt!MaxOf({seen, r.last})
<1>1. /\ r.start \in Times /\ r.end \in Times /\ r.errAt \in Times /\ r.hostAt \in Times /\ r.last \in Times
      /\ v.rec \in Recs /\ v.moved \in Times /\ v.now \in Times
  BY DEF Stores, Servers
<1>2. v.rec.start \in Times /\ v.rec.end \in Times BY <1>1 DEF Recs
<1>3. /\ r.start \in Nat /\ r.end \in Nat /\ r.errAt \in Nat /\ r.hostAt \in Nat /\ r.last \in Nat
      /\ v.now \in Nat
  BY <1>1, TimesFacts
<1>4. /\ most \in {r.start, r.end, r.errAt, r.hostAt}
      /\ r.start <= most /\ r.end <= most /\ r.errAt <= most /\ r.hostAt <= most
  <2> DEFINE a == r.start  b == r.end  c == r.errAt  h == r.hostAt
  <2>1. a \in Nat /\ b \in Nat /\ c \in Nat /\ h \in Nat BY <1>3
  <2> HIDE DEF a, b, c, h
  <2>2. /\ Prompt!MaxOf({a, b, c, h}) \in {a, b, c, h}
        /\ \A y \in {a, b, c, h} : y <= Prompt!MaxOf({a, b, c, h})
    BY <2>1, MaxOfFour
  <2> QED BY <2>2 DEF a, b, c, h
<1>5. upto = IF r.last <= seen THEN seen ELSE r.last
  <2> DEFINE b == r.last
  <2>1. b \in Nat BY <1>3
  <2> HIDE DEF b
  <2>2. Prompt!MaxOf({seen, b}) = IF b <= seen THEN seen ELSE b BY <2>1, MaxOfTwo
  <2> QED BY <2>2 DEF b
<1>6. Prompt!serverDismissedAt(r) = most + 1 BY DEF Prompt!serverDismissedAt
<1> HIDE DEF most, upto
<1>7. InOrder(v, q, r) BY DEF WindowNews
<1>8. most \in Times /\ most \in Nat /\ upto \in Nat /\ most <= r.last /\ r.last <= v.now /\ seen <= v.now
  BY <1>1, <1>3, <1>4, <1>5, <1>7 DEF InOrder, MarkedAll
<1>9. most >= D
  <2>1. \/ r.errAt > D
        \/ /\ ~(~(r.end > r.start) /\ D > r.start /\ D > r.hostAt)
           /\ ~(r.end > r.start /\ D > r.end)
    BY DEF Prompt!ShowsDisclaimer, Prompt!hasRecEnded
  <2> QED BY <1>3, <1>4, <1>8, <2>1
<1>10. ASSUME NEW t \in Times, t # 0, Informed(q, r, t), t <= r.last PROVE t <= most
  <2>1. t \in Nat BY TimesFacts
  <2>2. ~RecLater(q, 0, t)
    <3> SUFFICES ASSUME NEW j \in DOMAIN q, q[j].at <= t PROVE FALSE BY DEF RecLater
    <3>1. q[j].at \in Nat
      <4>1. q[j] \in Events OBVIOUS
      <4> QED BY <4>1, TimesFacts DEF Events
    <3>2. r.last < q[j].at BY <1>7 DEF InOrder
    <3> QED BY <1>3, <1>10, <2>1, <3>1, <3>2
  <2>3. Known(r, t) BY <1>10, <2>2 DEF Informed
  <2>4. r.start # 0 \/ r.err BY DEF Prompt!ShowsDisclaimer
  <2>5. t <= r.start \/ t <= r.end BY <2>3, <2>4 DEF Known
  <2> QED BY <1>3, <1>4, <1>8, <2>1, <2>5
<1>11. v.moved # 0 /\ v.moved <= r.last => v.moved <= most
  <2>1. v.moved \in Nat BY <1>1, TimesFacts
  <2> QED BY <1>3, <1>4, <1>8, <2>1
<1>12. ASSUME NEW t \in Times, Marked(t, D, seen), t # 0 /\ t <= r.last => t <= most
       PROVE  Marked(t, most + 1, upto)
  <2>1. t \in Nat BY TimesFacts
  <2>2. ASSUME t # 0, t > upto PROVE t > most + 1
    <3>1. most < t BY <1>3, <1>5, <1>8, <2>1, <2>2
    <3> QED BY <1>8, <3>1, <2>1, TimesFacts
  <2>3. ASSUME t # 0, t <= upto PROVE t < most + 1
    <3>1. CASE t <= r.last BY <1>8, <1>12, <2>1, <2>3, <3>1
    <3>2. CASE t > r.last
      <4>1. t <= seen BY <1>3, <1>5, <2>1, <2>3, <3>2
      <4>2. t < D BY <1>12, <2>3, <4>1 DEF Marked
      <4> QED BY <1>8, <1>9, <2>1, <4>2
    <3> QED BY <1>3, <2>1, <3>1, <3>2
  <2> QED BY <2>2, <2>3 DEF Marked
<1>13. Informed(q, r, v.rec.start) /\ Informed(q, r, v.rec.end) /\ Informed(q, r, E) BY DEF WindowNews
<1>14. /\ Marked(v.rec.start, D, seen) /\ Marked(v.rec.end, D, seen)
       /\ Marked(v.moved, D, seen) /\ Marked(E, D, seen)
  BY DEF MarkedAll
<1>15. Marked(v.rec.start, most + 1, upto) BY <1>2, <1>10, <1>12, <1>13, <1>14
<1>16. Marked(v.rec.end, most + 1, upto) BY <1>2, <1>10, <1>12, <1>13, <1>14
<1>17. Marked(v.moved, most + 1, upto) BY <1>1, <1>11, <1>12, <1>14
<1>18. Marked(E, most + 1, upto) BY <1>10, <1>12, <1>13, <1>14
<1>19. upto <= v.now /\ most + 1 <= v.now + 1 BY <1>3, <1>5, <1>8
<1>20. MarkedAll(v, E, most + 1, upto) BY <1>15, <1>16, <1>17, <1>18, <1>19 DEF MarkedAll
<1> QED BY <1>6, <1>8, <1>20 DEF upto

\* What is on its way does not depend on a dismissal.
LEMMA DismissedStore ==
    ASSUME NEW r \in Stores, NEW d \in Nat
    PROVE  LET s == [r EXCEPT !.dis = d]
           IN  /\ s \in Stores /\ s.dis = d
               /\ \A v, q, E : WindowNews(v, q, r, E) => WindowNews(v, q, s, E)
<1> DEFINE s == [r EXCEPT !.dis = d]
<1>1. s \in Stores /\ s.dis = d BY DEF Stores
<1>2. /\ s.start = r.start /\ s.end = r.end /\ s.err = r.err /\ s.errAt = r.errAt
      /\ s.hostAt = r.hostAt /\ s.last = r.last
  BY DEF Stores
<1> HIDE DEF s
<1>3. ASSUME NEW v, NEW q, NEW E, WindowNews(v, q, r, E) PROVE WindowNews(v, q, s, E)
  <2>1. InOrder(v, q, s) BY <1>2, <1>3 DEF WindowNews, InOrder
  <2>2. \A t : Informed(q, r, t) => Informed(q, s, t) BY <1>2 DEF Informed, Known
  <2>3. RecDue(v, q, s) /\ HostDue(v, q, s) /\ ErrDue(q, s, E)
    BY <1>2, <1>3 DEF WindowNews, RecDue, HostDue, ErrDue
  <2> QED BY <1>3, <2>1, <2>2, <2>3 DEF WindowNews
<1> QED BY <1>1, <1>3 DEF s

LEMMA DismissKept ==
    ASSUME NewsInv, ~past.late, ~past.refused, NEW w \in Prompt!Windows, Prompt!dismissRecordingPrompt(w),
           past'.late = FALSE
    PROVE  NewsInv'
<1>1. NewsTypes /\ \E E \in Times : NewsAt(E) BY DEF NewsInv
<1>2. PICK E \in Times : NewsAt(E) BY <1>1
<1>3. Prompt!Windows = {"widget", "pop"} /\ Prompt!Open("widget") /\ (Prompt!Open("pop") <=> pop = "open")
  BY DEF Prompt!Windows, Prompt!Open
<1>4. /\ srv \in Servers /\ lag[w] \in Seq(Events) /\ store[w] \in Stores /\ ServerNews(srv, E)
      /\ store \in [Prompt!Windows -> Stores]
      /\ DOMAIN data = {"dis", "noScreen"} /\ data.dis \in Nat /\ past.seen \in Nat
  BY <1>1, <1>2 DEF NewsTypes, NewsAt
<1> DEFINE r == store[w]
           d == Prompt!serverDismissedAt(r)
           upto == Prompt!MaxOf({past.seen, r.last})
<1>5. /\ Prompt!Open(w)
      /\ store' = [x \in Prompt!Windows |-> IF Prompt!Open(x) THEN [store[x] EXCEPT !.dis = d] ELSE store[x]]
      /\ data' = [data EXCEPT !.dis = d]
      /\ past' = [past EXCEPT !.seen = upto,
                              !.late = @ \/ (r.hostAt < srv.moved /\ srv.moved <= r.last)]
      /\ UNCHANGED <<srv, lag, pop>>
  BY DEF Prompt!dismissRecordingPrompt
<1>6. /\ DOMAIN past' = PastFields /\ past'.seen = upto /\ past'.refused = past.refused
      /\ ~(r.hostAt < srv.moved /\ srv.moved <= r.last)
  <2>1. DOMAIN past = PastFields BY DEF NewsInv
  <2>2. past'.late = (past.late \/ (r.hostAt < srv.moved /\ srv.moved <= r.last)) BY <1>5, <2>1 DEF PastFields
  <2> HIDE DEF r, upto
  <2> QED BY <1>5, <2>1, <2>2 DEF PastFields
<1>7. WindowNews(srv, lag[w], r, E) BY <1>2, <1>3, <1>5 DEF NewsAt
<1>8. PICK D \in Nat : Prompt!ShowsDisclaimer(r, D) /\ MarkedAll(srv, E, D, past.seen)
  <2>1. CASE w = "widget"
    <3>1. Prompt!ShowsDisclaimer(r, r.dis)
      BY <2>1 DEF Prompt!dismissRecordingPrompt, Prompt!renderRecordingDisclaimer
    <3>2. MarkedAll(srv, E, r.dis, past.seen) BY <1>2, <2>1 DEF NewsAt
    <3>3. r.dis \in Nat BY <1>4 DEF Stores
    <3> QED BY <3>1, <3>2, <3>3
  <2>2. CASE w = "pop"
    <3> DEFINE a == r.dis
               b == data.dis
    <3>1. Prompt!ShowsDisclaimer(r, Prompt!MaxOf({a, b}))
      BY <2>2 DEF Prompt!dismissRecordingPrompt, Prompt!RecordingInfoPrompt
    <3>2. a \in Nat /\ b \in Nat /\ a \in {0, b}
      BY <1>2, <1>3, <1>4, <1>5, <2>2 DEF Stores, NewsAt
    <3>3. MarkedAll(srv, E, b, past.seen) BY <1>2 DEF NewsAt
    <3> HIDE DEF a, b, r
    <3>4. Prompt!MaxOf({a, b}) = b BY <3>2, MaxOfTwo
    <3> QED BY <3>1, <3>2, <3>3, <3>4
  <2> QED BY <1>3, <2>1, <2>2
<1>9. d \in Nat /\ upto \in Nat /\ MarkedAll(srv, E, d, upto)
  <2> DEFINE seen == past.seen
             q == lag[w]
  <2>1. /\ q \in Seq(Events) /\ r \in Stores /\ seen \in Nat /\ MarkedAll(srv, E, D, seen)
        /\ WindowNews(srv, q, r, E)
    BY <1>4, <1>7, <1>8
  <2>2. upto = Prompt!MaxOf({seen, r.last}) OBVIOUS
  <2> HIDE DEF seen, q, r, upto
  <2>3. d \in Nat /\ Prompt!MaxOf({seen, r.last}) \in Nat /\ MarkedAll(srv, E, d, Prompt!MaxOf({seen, r.last}))
    BY <1>4, <1>6, <1>8, <2>1, Dismissed
  <2> QED BY <2>2, <2>3
<1> HIDE DEF d, upto, r
<1>10. \A x \in Prompt!Windows : store[x] \in Stores BY <1>4
<1>11. \A x \in Prompt!Windows :
          LET s == [store[x] EXCEPT !.dis = d]
          IN  /\ s \in Stores /\ s.dis = d
              /\ \A v, q, F : WindowNews(v, q, store[x], F) => WindowNews(v, q, s, F)
  BY <1>9, <1>10, DismissedStore
<1>12. \A x \in Prompt!Windows :
          /\ store'[x] \in Stores
          /\ Prompt!Open(x) => store'[x].dis = d
          /\ \A v, q, F : WindowNews(v, q, store[x], F) => WindowNews(v, q, store'[x], F)
  BY <1>5, <1>10, <1>11
<1>13. store' \in [Prompt!Windows -> Stores] BY <1>5, <1>12
<1>14. data'.dis = d /\ DOMAIN data' = {"dis", "noScreen"} BY <1>4, <1>5
<1>15. NewsTypes' BY <1>1, <1>5, <1>6, <1>9, <1>13, <1>14 DEF NewsTypes
<1>16. NewsAt(E)'
  <2>1. store'["widget"].dis = d /\ (pop = "open" => store'["pop"].dis = d) BY <1>3, <1>12
  <2>2. WindowNews(srv, lag["widget"], store'["widget"], E) BY <1>2, <1>3, <1>12 DEF NewsAt
  <2>3. pop = "open" => WindowNews(srv, lag["pop"], store'["pop"], E) BY <1>2, <1>3, <1>12 DEF NewsAt
  <2>4. pop # "open" => lag["pop"] = <<>> BY <1>2 DEF NewsAt
  <2> QED BY <1>4, <1>5, <1>6, <1>9, <1>14, <2>1, <2>2, <2>3, <2>4 DEF NewsAt
<1>17. past'.late \in BOOLEAN /\ past'.refused \in BOOLEAN BY <1>6 DEF NewsInv
<1> QED BY <1>6, <1>15, <1>16, <1>17 DEF NewsInv

LEMMA NewsStepKept == ASSUME NewsInv, Prompt!PromptNext PROVE NewsInv'
<1>1. DOMAIN past = PastFields /\ past.late \in BOOLEAN /\ past.refused \in BOOLEAN BY DEF NewsInv
<1> DEFINE Same == /\ past'.late = past.late /\ past'.refused = past.refused /\ past'.seen = past.seen
           Ok == /\ DOMAIN past' = PastFields /\ past'.late \in BOOLEAN /\ past'.refused \in BOOLEAN
                 /\ past.late \/ past.refused => past'.late \/ past'.refused
<1>2. ASSUME Ok,
             /\ ~past.late /\ ~past.refused /\ ~past'.late /\ ~past'.refused
             /\ past'.late = FALSE /\ past'.refused = FALSE
             => NewsInv'
      PROVE  NewsInv'
  <2>1. CASE past'.late \/ past'.refused BY <1>2, <2>1 DEF NewsInv
  <2>2. CASE ~past'.late /\ ~past'.refused BY <1>2, <2>2
  <2> QED BY <2>1, <2>2
<1>3. CASE \/ Prompt!RecordingInitialised \/ Prompt!RecordingStarts \/ Prompt!RecordingEnds(TRUE)
           \/ Prompt!RecordingEnds(FALSE) \/ Prompt!HostChanges
  <2>1. past' = past
    BY <1>3 DEF Prompt!RecordingInitialised, Prompt!RecordingStarts, Prompt!RecordingEnds, Prompt!HostChanges,
                Prompt!Publish, Prompt!Event
  <2>2. CASE Prompt!HostChanges BY <1>1, <1>2, <2>1, <2>2, HostKept
  <2>3. CASE ~Prompt!HostChanges
    <3>1. \/ Prompt!RecordingInitialised \/ Prompt!RecordingStarts
          \/ \E err \in BOOLEAN : Prompt!RecordingEnds(err)
      <4> DEFINE a == TRUE
                 b == FALSE
      <4>1. \/ Prompt!RecordingInitialised \/ Prompt!RecordingStarts
            \/ Prompt!RecordingEnds(a) \/ Prompt!RecordingEnds(b)
        BY <1>3, <2>3, Zenon
      <4>2. a \in BOOLEAN /\ b \in BOOLEAN OBVIOUS
      <4> HIDE DEF a, b
      <4> QED BY <4>1, <4>2
    <3> QED BY <1>1, <1>2, <2>1, <3>1, RecKept
  <2> QED BY <2>2, <2>3
<1>4. ASSUME NEW w \in Prompt!Windows, Prompt!Receive(w) PROVE NewsInv'
  <2>1. Ok BY <1>1, <1>4 DEF Prompt!Receive, PastFields
  <2> QED BY <1>2, <1>4, <2>1, ReceiveKept
<1>5. ASSUME NEW w \in Prompt!Windows, Prompt!dismissRecordingPrompt(w) PROVE NewsInv'
  <2>1. Ok BY <1>1, <1>5 DEF Prompt!dismissRecordingPrompt, PastFields
  <2> QED BY <1>2, <1>5, <2>1, DismissKept
<1>6. ASSUME NEW w \in Prompt!Windows, Prompt!startCallRecording(w) PROVE NewsInv'
  <2>1. Ok /\ past'.refused BY <1>1, <1>6 DEF Prompt!startCallRecording, PastFields
  <2> QED BY <1>2, <2>1
<1>7. ASSUME UNCHANGED <<srv, lag, store, pop>>, DOMAIN data' = DOMAIN data,
             DOMAIN data = {"dis", "noScreen"} => data'.dis = data.dis,
             DOMAIN past' = PastFields, Same
      PROVE  NewsInv'
  <2>1. ~past.late /\ ~past.refused => DOMAIN data = {"dis", "noScreen"} BY DEF NewsInv, NewsTypes
  <2> QED BY <1>1, <1>2, <1>7, <2>1, NewsUntouched
<1>8. CASE \/ Prompt!AudioRefused \/ Prompt!initaudio
           \/ \E b \in BOOLEAN : Prompt!mos(b) \/ \E c \in BOOLEAN : Prompt!devicechange(b, c)
  <2>1. UNCHANGED <<srv, lag, store, pop, data>> /\ DOMAIN past' = PastFields /\ Same
    BY <1>1, <1>8 DEF Prompt!AudioRefused, Prompt!initaudio, Prompt!mos, Prompt!devicechange, Prompt!Client, PastFields
  <2> QED BY <1>7, <2>1
<1>9. ASSUME NEW w \in Prompt!Windows, Prompt!renderAlertBanners(w) \/ Prompt!Unlocked(w) PROVE NewsInv'
  <2>1. UNCHANGED <<srv, lag, store, pop, data>> /\ DOMAIN past' = PastFields /\ Same
    BY <1>1, <1>9 DEF Prompt!renderAlertBanners, Prompt!Unlocked, Prompt!Client, PastFields
  <2> QED BY <1>7, <2>1
<1>10. ASSUME NEW w \in Prompt!Windows, NEW b \in BOOLEAN, Prompt!shareScreen(w, b) PROVE NewsInv'
  <2>1. UNCHANGED <<srv, lag, store, pop, past>> /\ data' = [data EXCEPT !.noScreen = b]
    BY <1>10 DEF Prompt!shareScreen, Prompt!Client, Prompt!setMissingScreenPermissions
  <2> QED BY <1>1, <1>7, <2>1
<1>11. ASSUME NEW b \in BOOLEAN, Prompt!PopoutMounts(b) PROVE NewsInv'
  <2>1. past' = past BY <1>11 DEF Prompt!PopoutMounts
  <2> QED BY <1>1, <1>2, <1>11, <2>1, MountsKept
<1>12. CASE Prompt!PopoutCloses
  <2>1. Ok BY <1>1, <1>12 DEF Prompt!PopoutCloses, PastFields
  <2> QED BY <1>2, <1>12, <2>1, ClosesKept
<1>13. CASE Prompt!NextCall
  <2>1. Ok BY <1>1, <1>13 DEF Prompt!NextCall, PastFields
  <2> QED BY <1>2, <1>13, <2>1, NextCallKept
<1> QED
  BY <1>3, <1>4, <1>5, <1>6, <1>8, <1>9, <1>10, <1>11, <1>12, <1>13 DEF Prompt!PromptNext

LEMMA NewsInvInit == WebInit => NewsInv
<1> SUFFICES ASSUME WebInit PROVE NewsInv OBVIOUS
<1>1. PICK skew, kinds : Prompt!PromptStart(skew, kinds) BY DEF WebInit, Starts, Prompt!PromptInit
<1>2. /\ srv = [now |-> 2, rec |-> Prompt!Off, host |-> FALSE, moved |-> 0]
      /\ lag = [w \in Prompt!Windows |-> <<>>] /\ store = [w \in Prompt!Windows |-> Prompt!Fresh]
      /\ data = [dis |-> 0, noScreen |-> FALSE] /\ pop = "none"
      /\ past = [skew |-> skew, kinds |-> kinds, late |-> FALSE, seen |-> 0, refused |-> FALSE,
                 locked |-> {}, micRefused |-> FALSE, carried |-> FALSE]
  BY <1>1 DEF Prompt!PromptStart
<1>3. "widget" \in Prompt!Windows /\ "pop" \in Prompt!Windows BY DEF Prompt!Windows
<1>4. srv \in Servers /\ srv.now = 2 /\ srv.rec = Prompt!Off /\ srv.moved = 0
  BY <1>2, FreshStore, TimesFacts DEF Servers
<1>5. NewsTypes BY <1>2, <1>4, FreshStore DEF NewsTypes
<1>6. Prompt!Off.start = 0 /\ Prompt!Off.end = 0 /\ ~Prompt!Off.err BY DEF Prompt!Off
<1>7. ServerNews(srv, 0) BY <1>4, <1>6 DEF ServerNews, Known
<1>8. WindowNews(srv, <<>>, Prompt!Fresh, 0)
  <2> DEFINE z == 0
  <2>1. z \in Times /\ ServerNews(srv, z) /\ z = 0 BY <1>7, TimesFacts
  <2> HIDE DEF z
  <2>2. WindowNews(srv, <<>>, Prompt!Fresh, z) BY <1>4, <1>6, <2>1, FreshNews
  <2> QED BY <2>1, <2>2
<1>9. MarkedAll(srv, 0, 0, 0) BY <1>4, <1>6 DEF MarkedAll, Marked
<1>10. Prompt!Fresh.dis = 0 /\ lag["widget"] = <<>> /\ lag["pop"] = <<>> /\ store["widget"] = Prompt!Fresh
       /\ data.dis = 0 /\ past.seen = 0 /\ pop # "open"
  BY <1>2, <1>3 DEF Prompt!Fresh
<1>11. NewsAt(0) BY <1>7, <1>8, <1>9, <1>10 DEF NewsAt
<1>12. DOMAIN past = PastFields /\ past.late = FALSE /\ past.refused = FALSE BY <1>2 DEF PastFields
<1> QED BY <1>5, <1>11, <1>12, TimesFacts DEF NewsInv

\* A window that has handled every event shows the disclaimer when there is
\* news.
LEMMA ShownIsNewsIn ==
    ASSUME NEW w \in Prompt!Windows, store[w] \in Stores, lag[w] = <<>>, NEW E \in Times,
           WindowNews(srv, lag[w], store[w], E), NEW d \in Nat, past.seen \in Nat,
           MarkedAll(srv, E, d, past.seen)
    PROVE  Prompt!ShowsDisclaimer(store[w], d) <=> Prompt!News(w)
<1> DEFINE r == store[w]
           seen == past.seen
           q == lag[w]
<1>1. r \in Stores /\ seen \in Nat /\ DOMAIN q = {} /\ WindowNews(srv, q, r, E) OBVIOUS
<1>2. MarkedAll(srv, E, d, seen) OBVIOUS
<1>3. Prompt!News(w) <=>
         /\ r.start # 0 \/ r.err
         /\ Prompt!hasRecEnded(r) => r.host
         /\ \/ r.errAt # 0 /\ r.errAt > seen
            \/ ~Prompt!hasRecEnded(r) /\ (r.start > seen \/ (r.host /\ r.hostAt # 0 /\ r.hostAt > seen))
            \/ Prompt!hasRecEnded(r) /\ r.end > seen /\ ~(r.hostAt > r.end)
  BY DEF Prompt!News
<1> HIDE DEF r, seen, q
<1>4. /\ r.start \in {0, srv.rec.start} /\ r.end \in {0, srv.rec.end} /\ r.hostAt \in {0, srv.moved}
      /\ r.errAt \in {0, E} /\ (r.err => r.end > r.start)
  BY <1>1 DEF WindowNews, InOrder, RecDue, HostDue, ErrDue
<1>5. Marked(r.start, d, seen) /\ Marked(r.end, d, seen) /\ Marked(r.errAt, d, seen) /\ Marked(r.hostAt, d, seen)
  BY <1>2, <1>4 DEF MarkedAll, Marked
<1>6. Prompt!ShowsDisclaimer(r, d) <=>
         /\ r.start # 0 \/ r.err
         /\ Prompt!hasRecEnded(r) => r.host
         /\ \/ r.errAt # 0 /\ r.errAt > seen
            \/ ~Prompt!hasRecEnded(r) /\ (r.start > seen \/ (r.host /\ r.hostAt # 0 /\ r.hostAt > seen))
            \/ Prompt!hasRecEnded(r) /\ r.end > seen /\ ~(r.hostAt > r.end)
  BY <1>1, <1>4, <1>5, ShownIsNews
<1> QED BY <1>3, <1>6 DEF r

LEMMA NewsInvShown == NewsInv => PromptFollowsNews
<1> SUFFICES ASSUME NewsInv, ~past.late, ~past.refused
             PROVE  /\ lag["widget"] = <<>> => (Prompt!renderRecordingDisclaimer <=> Prompt!News("widget"))
                    /\ pop = "open" /\ lag["pop"] = <<>> => (Prompt!RecordingInfoPrompt <=> Prompt!News("pop"))
  BY DEF PromptFollowsNews, Prompt!PromptFollowsNews
<1>1. NewsTypes /\ \E E \in Times : NewsAt(E) BY DEF NewsInv
<1>2. PICK E \in Times : NewsAt(E) BY <1>1
<1>3. "widget" \in Prompt!Windows /\ "pop" \in Prompt!Windows BY DEF Prompt!Windows
<1>4. store["widget"] \in Stores /\ store["pop"] \in Stores /\ data.dis \in Nat /\ past.seen \in Nat
  BY <1>1, <1>3 DEF NewsTypes
<1>5. ASSUME lag["widget"] = <<>>
      PROVE  Prompt!renderRecordingDisclaimer <=> Prompt!News("widget")
  <2> DEFINE w == "widget"
             d == store[w].dis
  <2>1. /\ w \in Prompt!Windows /\ store[w] \in Stores /\ lag[w] = <<>> /\ d \in Nat
        /\ WindowNews(srv, lag[w], store[w], E) /\ MarkedAll(srv, E, d, past.seen)
    BY <1>2, <1>3, <1>4, <1>5 DEF NewsAt, Stores
  <2>2. Prompt!renderRecordingDisclaimer <=> Prompt!ShowsDisclaimer(store[w], d)
    BY DEF Prompt!renderRecordingDisclaimer
  <2> HIDE DEF w, d
  <2>3. Prompt!ShowsDisclaimer(store[w], d) <=> Prompt!News(w) BY <1>4, <2>1, ShownIsNewsIn
  <2> QED BY <2>2, <2>3 DEF w
<1>6. ASSUME pop = "open", lag["pop"] = <<>>
      PROVE  Prompt!RecordingInfoPrompt <=> Prompt!News("pop")
  <2> DEFINE w == "pop"
             a == store[w].dis
             d == data.dis
  <2>1. /\ w \in Prompt!Windows /\ store[w] \in Stores /\ lag[w] = <<>> /\ d \in Nat /\ a \in Nat /\ a \in {0, d}
        /\ WindowNews(srv, lag[w], store[w], E) /\ MarkedAll(srv, E, d, past.seen)
    BY <1>2, <1>3, <1>4, <1>6 DEF NewsAt, Stores
  <2>2. Prompt!RecordingInfoPrompt <=> Prompt!ShowsDisclaimer(store[w], Prompt!MaxOf({a, d}))
    BY DEF Prompt!RecordingInfoPrompt
  <2> HIDE DEF w, a, d
  <2>3. Prompt!MaxOf({a, d}) = d BY <2>1, MaxOfTwo
  <2>4. Prompt!ShowsDisclaimer(store[w], d) <=> Prompt!News(w) BY <1>4, <2>1, ShownIsNewsIn
  <2> QED BY <2>2, <2>3, <2>4 DEF w
<1> QED BY <1>5, <1>6

\* The disclaimer of each window (renderRecordingDisclaimer of the widget,
\* RecordingInfoPrompt of the pop-out) is there exactly when a recording has
\* started, failed or ended, or the user became its host, since the user last
\* dismissed it in any window (serverDismissedAt), for any number of
\* recordings, hosts, pop-outs and calls and any delay of the events: nobody is
\* recorded without being told.  The exceptions are those of PromptFollowsNews.
THEOREM DisclaimerFollowsNews == WebSpec => []PromptFollowsNews
<1>1. NewsInv /\ [WebNext]_<<part, adminVars, ringVars, mediaVars, entryVars, promptVars, windowVars>> => NewsInv'
  <2>1. NewsInv /\ UNCHANGED promptVars => NewsInv'
    <3> SUFFICES ASSUME NewsInv, UNCHANGED promptVars PROVE NewsInv' OBVIOUS
    <3>1. UNCHANGED <<srv, lag, store, data, pop, past>> BY DEF promptVars
    <3>2. DOMAIN past = PastFields /\ past.late \in BOOLEAN /\ past.refused \in BOOLEAN BY DEF NewsInv
    <3>3. CASE past.late \/ past.refused BY <3>1, <3>2, <3>3 DEF NewsInv
    <3>4. CASE ~past.late /\ ~past.refused BY <3>1, <3>2, <3>4, NewsUntouched
    <3> QED BY <3>3, <3>4
  <2> QED BY <2>1, NewsStepKept, PromptSteps
<1> QED BY <1>1, NewsInvInit, NewsInvShown, PTL DEF WebSpec

-----------------------------------------------------------------------------
(* The page in the System Console *)

Toggles == {"EnableRecordings", "EnableTranscriptions", "EnableLiveCaptions"}
Licenses == {"cloud", "enterprise", "other"}

\* The writers that come with the sections.
WritersOf(lic, c) == Writers \cap Sections(lic, c)

\* What the store has of writer k is what the form f has.
Agrees(c, f, k) ==
    /\ k \in Toggles => (c[k] = "true" <=> f[k] = "true")
    /\ k = "TranscribeAPI" => c[k] = f[k]
MountedAgree(c, f, wr) == \A k \in wr : Agrees(c, f, k)

\* The choice of the API always has a value.
FormOK(f) == DOMAIN f = Keys /\ f["TranscribeAPI"] \in {"whisper.cpp", "azure"}

\* Unless the configuration was fetched meanwhile, the writers on the page are
\* those that the store asks for, and each agrees with the store.
PageInv ==
    /\ DOMAIN config = Keys /\ FormOK(form) /\ FormOK(stored) /\ license \in Licenses
    /\ page /\ ~fetched =>
          mounted = WritersOf(license, config) /\ MountedAgree(config, form, mounted)

LEMMA KeyNames ==
    /\ Writers = Toggles \cup {"RTCDServiceURL", "TranscribeAPI"} /\ Writers \subseteq Keys
    /\ Toggles \subseteq Switches /\ Writers \cap Numbers = {}
    /\ "TranscribeAPI" \notin Switches
BY DEF Writers, Toggles, Keys, GeneralKeys, RTCKeys, ICEKeys, RecordingKeys, TranscriptionKeys, CaptionKeys,
       Switches, Numbers

LEMMA WritersOfIs ==
    ASSUME NEW lic \in Licenses, NEW c
    PROVE  /\ lic = "cloud" => WritersOf(lic, c) = {"RTCDServiceURL"}
           /\ lic = "other" => WritersOf(lic, c) = {}
           /\ lic = "enterprise" =>
                 WritersOf(lic, c) =
                    {"RTCDServiceURL", "EnableRecordings"}
                    \cup (IF c["EnableRecordings"] = "true" THEN {"EnableTranscriptions", "TranscribeAPI"} ELSE {})
                    \cup (IF c["EnableRecordings"] = "true" /\ c["EnableTranscriptions"] = "true"
                          THEN {"EnableLiveCaptions"} ELSE {})
<1>1. /\ Writers \cap GeneralKeys = {} /\ Writers \cap RTCKeys = {} /\ Writers \cap ICEKeys = {}
      /\ "RTCDServiceURL" \in Writers /\ Writers \cap RecordingKeys = {"EnableRecordings"}
      /\ Writers \cap TranscriptionKeys = {"EnableTranscriptions", "TranscribeAPI"}
      /\ Writers \cap CaptionKeys = {"EnableLiveCaptions"}
  BY DEF Writers, GeneralKeys, RTCKeys, ICEKeys, RecordingKeys, TranscriptionKeys, CaptionKeys
<1> DEFINE a == c["EnableRecordings"] = "true"
           b == c["EnableTranscriptions"] = "true"
<1>2. Sections(lic, c) =
         GeneralKeys \cup (IF lic = "other" THEN {} ELSE {"RTCDServiceURL"}) \cup RTCKeys \cup ICEKeys
         \cup (IF lic \in {"cloud", "other"} THEN {} ELSE RecordingKeys)
         \cup (IF lic = "enterprise" /\ a THEN TranscriptionKeys ELSE {})
         \cup (IF lic = "enterprise" /\ a /\ b THEN CaptionKeys ELSE {})
  BY DEF Sections, GeneralSettingsSection, RTCDServiceSection, RTCServerSection, ICEAndTURNSection,
         CallRecordingsSection, CallTranscriptionsSection, CallLiveCaptionsSection, On
<1> HIDE DEF a, b
<1>3. WritersOf(lic, c) =
         (IF lic = "other" THEN {} ELSE {"RTCDServiceURL"})
         \cup (IF lic \in {"cloud", "other"} THEN {} ELSE {"EnableRecordings"})
         \cup (IF lic = "enterprise" /\ a THEN {"EnableTranscriptions", "TranscribeAPI"} ELSE {})
         \cup (IF lic = "enterprise" /\ a /\ b THEN {"EnableLiveCaptions"} ELSE {})
  BY <1>1, <1>2 DEF WritersOf
<1> QED BY <1>3 DEF Licenses, a, b

\* One commit mounts the writers that the store asks for, those that are new
\* write what they find in the form, and the others leave the store alone.
StoreState(st) == DOMAIN st = {"c", "r", "m"} /\ DOMAIN st.c = Keys

LEMMA Committed ==
    ASSUME NEW st, StoreState(st), NEW f, FormOK(f), NEW lic, MountedAgree(st.c, f, st.m)
    PROVE  LET after == Commit(st, f, lic)
           IN  /\ StoreState(after) /\ after.m = WritersOf(lic, st.c)
               /\ MountedAgree(after.c, f, after.m)
               /\ \A k \in Keys : k \in st.m \/ k \notin after.m => after.c[k] = st.c[k]
<1> DEFINE wr == WritersOf(lic, st.c)
           effect(k) == IF k \in wr \ st.m THEN Write(st, k, f[k]) ELSE st
           after == Commit(st, f, lic)
<1>1. after = [c |-> [k \in Keys |-> effect(k).c[k]], r |-> effect("RTCDServiceURL").r, m |-> wr]
  BY DEF Commit, WritersOf
<1>2. wr \subseteq Writers BY DEF WritersOf
<1>3. \A k \in Keys : k \in st.m \/ k \notin wr => effect(k).c[k] = st.c[k] OBVIOUS
<1>4. ASSUME NEW k \in wr, k \notin st.m
      PROVE  Agrees([x \in Keys |-> effect(x).c[x]], f, k)
  <2>1. effect(k) = Write(st, k, f[k]) BY <1>4
  <2>2. k \in Keys /\ k \in Writers BY <1>2, KeyNames
  <2>3. CASE k \in Toggles
    <3>1. Write(st, k, f[k]) = [st EXCEPT !.c[k] = IF f[k] = "true" THEN f[k] ELSE "false"]
      BY <2>3 DEF Write, Toggles
    <3>2. effect(k).c[k] = IF f[k] = "true" THEN f[k] ELSE "false"
      BY <2>1, <2>2, <3>1 DEF StoreState
    <3> HIDE DEF effect, wr
    <3> QED BY <2>2, <2>3, <3>2 DEF Agrees, Toggles
  <2>4. CASE k = "TranscribeAPI"
    <3>1. Write(st, k, f[k]) = [st EXCEPT !.c[k] = f[k]] BY <2>4 DEF Write, FormOK
    <3>2. effect(k).c[k] = f[k] BY <2>1, <2>2, <3>1 DEF StoreState
    <3> HIDE DEF effect, wr
    <3> QED BY <2>2, <2>4, <3>2 DEF Agrees, Toggles
  <2>5. CASE k = "RTCDServiceURL" BY <2>5 DEF Agrees, Toggles
  <2> QED BY <2>2, <2>3, <2>4, <2>5, KeyNames
<1> HIDE DEF effect, wr
<1>5. ASSUME NEW k \in wr
      PROVE  Agrees([x \in Keys |-> effect(x).c[x]], f, k)
  <2>1. CASE k \notin st.m BY <1>4, <2>1
  <2>2. CASE k \in st.m
    <3>1. k \in Keys BY <1>2, KeyNames
    <3>2. Agrees(st.c, f, k) BY <2>2 DEF MountedAgree
    <3>3. effect(k).c[k] = st.c[k] BY <1>3, <2>2, <3>1
    <3> QED BY <3>1, <3>2, <3>3 DEF Agrees
  <2> QED BY <2>1, <2>2
<1>6. after.c = [x \in Keys |-> effect(x).c[x]] /\ after.m = wr /\ DOMAIN after = {"c", "r", "m"} BY <1>1
<1> HIDE DEF after
<1>7. MountedAgree(after.c, f, after.m) BY <1>5, <1>6 DEF MountedAgree
<1>8. \A k \in Keys : after.c[k] = effect(k).c[k] BY <1>6
<1>9. \A k \in Keys : k \in st.m \/ k \notin after.m => after.c[k] = st.c[k] BY <1>3, <1>6, <1>8
<1> QED BY <1>6, <1>7, <1>9 DEF after, StoreState, wr

\* Four commits are enough: the switch of the recordings settles in the first,
\* that of the transcriptions in the second and that of the captions in the
\* third.
LEMMA SettledIs ==
    ASSUME NEW st, StoreState(st), NEW f, FormOK(f), NEW lic \in Licenses, MountedAgree(st.c, f, st.m)
    PROVE  LET after == Settled(st, f, lic)
           IN  /\ StoreState(after) /\ after.m = WritersOf(lic, after.c)
               /\ MountedAgree(after.c, f, after.m)
<1> DEFINE s1 == Commit(st, f, lic)
           s2 == Commit(s1, f, lic)
           s3 == Commit(s2, f, lic)
           s4 == Commit(s3, f, lic)
           Follows(s, t) ==
              /\ StoreState(t) /\ t.m = WritersOf(lic, s.c) /\ MountedAgree(t.c, f, t.m)
              /\ \A k \in Keys : k \in s.m \/ k \notin t.m => t.c[k] = s.c[k]
<1>1. ASSUME NEW s, StoreState(s), MountedAgree(s.c, f, s.m) PROVE Follows(s, Commit(s, f, lic))
  BY <1>1, Committed
<1>2. Follows(st, s1) BY <1>1
<1>3. Follows(s1, s2)
  <2> HIDE DEF s1
  <2> QED BY <1>1, <1>2
<1>4. Follows(s2, s3)
  <2> HIDE DEF s2
  <2> QED BY <1>1, <1>3
<1>5. Follows(s3, s4)
  <2> HIDE DEF s3
  <2> QED BY <1>1, <1>4
<1>6. Settled(st, f, lic) = s4 BY DEF Settled
<1> HIDE DEF s1, s2, s3, s4
<1>7. {"EnableRecordings", "EnableTranscriptions", "EnableLiveCaptions"} \subseteq Keys
      /\ "EnableRecordings" # "EnableTranscriptions" /\ "EnableRecordings" # "EnableLiveCaptions"
  BY KeyNames DEF Toggles
<1>8. CASE lic # "enterprise"
  <2>1. WritersOf(lic, s3.c) = WritersOf(lic, s4.c) BY <1>8, WritersOfIs DEF Licenses
  <2> QED BY <1>5, <1>6, <2>1
<1>9. CASE lic = "enterprise"
  <2> DEFINE on(s) == s.c["EnableRecordings"] = "true"
             too(s) == s.c["EnableTranscriptions"] = "true"
             W(s) == {"RTCDServiceURL", "EnableRecordings"}
                     \cup (IF on(s) THEN {"EnableTranscriptions", "TranscribeAPI"} ELSE {})
                     \cup (IF on(s) /\ too(s) THEN {"EnableLiveCaptions"} ELSE {})
  <2>1. \A s : WritersOf(lic, s.c) = W(s) BY <1>9, WritersOfIs
  <2>2. "EnableRecordings" \in s1.m /\ "EnableRecordings" \in s2.m /\ "EnableRecordings" \in s3.m
    BY <1>2, <1>3, <1>4, <2>1
  <2>3. on(s2) <=> on(s1) BY <1>3, <1>7, <2>2
  <2>4. on(s3) <=> on(s2) BY <1>4, <1>7, <2>2
  <2>5. on(s4) <=> on(s3) BY <1>5, <1>7, <2>2
  <2>6. on(s1) => "EnableTranscriptions" \in s2.m BY <1>3, <2>1
  <2>7. on(s1) => (too(s3) <=> too(s2)) BY <1>4, <1>7, <2>6
  <2>8. on(s1) => "EnableTranscriptions" \in s3.m
    <3>1. s3.m = W(s2) BY <1>4, <2>1
    <3> QED BY <2>3, <3>1
  <2>9. on(s1) => (too(s4) <=> too(s3)) BY <1>5, <1>7, <2>8
  <2>10. W(s3) = W(s4) BY <2>3, <2>4, <2>5, <2>7, <2>9
  <2> QED BY <1>5, <1>6, <2>1, <2>10
<1> QED BY <1>8, <1>9

\* The store t after the writer k of the store s has written v.
Written(s, k, v, t) ==
    /\ StoreState(t) /\ t.m = s.m
    /\ \A x \in Keys : t.c[x] = IF x = k /\ k # "RTCDServiceURL"
                                THEN IF k = "TranscribeAPI" \/ v = "true" THEN v ELSE "false"
                                ELSE s.c[x]

LEMMA WriteIs ==
    ASSUME NEW st, StoreState(st), NEW k \in Writers, NEW v, v # "" \/ k = "RTCDServiceURL"
    PROVE  Written(st, k, v, Write(st, k, v))
<1>1. k \in Keys BY KeyNames
<1>2. CASE k = "RTCDServiceURL"
  <2>1. Write(st, k, v) = [st EXCEPT !.r = v # ""] BY <1>2 DEF Write
  <2> QED BY <1>2, <2>1 DEF StoreState, Written
<1>3. CASE k # "RTCDServiceURL"
  <2> DEFINE z == IF k = "TranscribeAPI" \/ v = "true" THEN v ELSE "false"
  <2>1. Write(st, k, v) = [st EXCEPT !.c[k] = z] BY <1>3 DEF Write
  <2> HIDE DEF z
  <2>2. /\ StoreState(Write(st, k, v)) /\ Write(st, k, v).m = st.m
        /\ \A x \in Keys : Write(st, k, v).c[x] = IF x = k THEN z ELSE st.c[x]
    BY <1>1, <2>1 DEF StoreState
  <2> QED BY <1>3, <2>2 DEF z, Written
<1> QED BY <1>2, <1>3

\* The store after the writers have settled.
LEMMA SettledKept ==
    ASSUME NEW st, StoreState(st), NEW f, NEW lic, MountedAgree(st.c, f, st.m),
           Store(Settled(st, f, lic)), form' = f, license' = lic, FormOK(f), lic \in Licenses, FormOK(stored')
    PROVE  PageInv'
<1> DEFINE t == Settled(st, f, lic)
<1>1. StoreState(t) /\ t.m = WritersOf(lic, t.c) /\ MountedAgree(t.c, f, t.m) BY SettledIs
<1>2. config' = t.c /\ mounted' = t.m BY DEF Store
<1> HIDE DEF t
<1>3. DOMAIN config' = Keys /\ mounted' = WritersOf(license', config') /\ MountedAgree(config', form', mounted')
  BY <1>1, <1>2 DEF StoreState
<1> QED BY <1>3 DEF PageInv

LEMMA SavedForm == ASSUME FormOK(form), Save PROVE FormOK(form') /\ FormOK(stored')
BY KeyNames DEF Save, FormOK

LEMMA PageStepKept == ASSUME PageInv, AdminNext PROVE PageInv'
<1>1. DOMAIN config = Keys /\ FormOK(form) /\ FormOK(stored) /\ license \in Licenses BY DEF PageInv
<1>2. CASE OpenPage
  <2> DEFINE st == [Now EXCEPT !.m = {}]
  <2>1. StoreState(st) /\ st.m = {} BY <1>1 DEF StoreState, Now
  <2>2. MountedAgree(st.c, stored, st.m) BY <2>1 DEF MountedAgree
  <2>3. Store(Settled(st, stored, license)) /\ form' = stored /\ stored' = stored /\ license' = license
    BY <1>2 DEF OpenPage
  <2> HIDE DEF st
  <2>4. \A f, lic : f = stored /\ lic = license => PageInv'
    <3> TAKE f, lic
    <3> HAVE f = stored /\ lic = license
    <3>1. Store(Settled(st, f, lic)) BY <2>3
    <3> QED BY <1>1, <2>1, <2>2, <2>3, <3>1, SettledKept
  <2> QED BY <2>4
<1>3. CASE Save
  <2>1. FormOK(form') /\ FormOK(stored') BY <1>1, <1>3, SavedForm
  <2>2. UNCHANGED <<license, page, config, mounted, fetched>> BY <1>3 DEF Save
  <2>3. ASSUME MountedAgree(config, form, mounted), mounted \subseteq Writers
        PROVE  MountedAgree(config, form', mounted)
    <3> SUFFICES ASSUME NEW k \in mounted PROVE Agrees(config, form', k) BY DEF MountedAgree
    <3>1. Agrees(config, form, k) /\ k \in Keys BY <2>3, KeyNames DEF MountedAgree
    <3>2. form'[k] = IF form[k] = "NaN" THEN "null" ELSE form[k] BY <1>3, <3>1 DEF Save
    <3> QED BY <1>1, <3>1, <3>2 DEF Agrees, FormOK
  <2>4. WritersOf(license, config) \subseteq Writers BY DEF WritersOf
  <2> QED BY <1>1, <2>1, <2>2, <2>3, <2>4 DEF PageInv
<1>4. CASE ClosePage BY <1>1, <1>4 DEF ClosePage, PageInv
<1>5. CASE getCallsConfig
  <2>1. fetched' = page /\ UNCHANGED <<stored, license, page, form>> BY <1>5 DEF getCallsConfig
  <2>2. DOMAIN config' = Keys
    <3> DEFINE st == [Now EXCEPT !.c = Effective]
    <3>1. config' = IF page THEN Settled(st, form, license).c ELSE st.c BY <1>5 DEF getCallsConfig, Store
    <3>2. st.c = Effective /\ DOMAIN Effective = Keys BY DEF Now, Effective
    <3>3. DOMAIN Settled(st, form, license).c = Keys
      <4> DEFINE a == Commit(Commit(Commit(st, form, license), form, license), form, license)
      <4>1. Settled(st, form, license) = Commit(a, form, license) BY DEF Settled
      <4> HIDE DEF a, st
      <4> QED BY <4>1 DEF Commit
    <3> HIDE DEF st
    <3> QED BY <3>1, <3>2, <3>3
  <2> QED BY <1>1, <2>1, <2>2 DEF PageInv
<1>6. CASE requestLicense
  <2>1. /\ page /\ license = "other" /\ license' = "enterprise" /\ UNCHANGED <<stored, page, form, fetched>>
        /\ Store(Settled(Now, form, "enterprise"))
    BY <1>1, <1>6 DEF requestLicense, isOnPremNotEnterprise, isCloud, Licenses
  <2>2. CASE fetched
    <3>1. DOMAIN config' = Keys
      <4> DEFINE a == Commit(Commit(Commit(Now, form, "enterprise"), form, "enterprise"), form, "enterprise")
      <4>1. config' = Commit(a, form, "enterprise").c BY <2>1 DEF Settled, Store
      <4> HIDE DEF a
      <4> QED BY <4>1 DEF Commit
    <3> QED BY <1>1, <2>1, <2>2, <3>1 DEF PageInv, Licenses
  <2>3. CASE ~fetched
    <3>1. StoreState(Now) /\ Now.c = config /\ Now.m = mounted BY <1>1 DEF StoreState, Now
    <3>2. MountedAgree(Now.c, form, Now.m) BY <2>1, <2>3, <3>1 DEF PageInv
    <3> DEFINE st == Now
    <3>3. StoreState(st) /\ MountedAgree(st.c, form, st.m) BY <3>1, <3>2
    <3> HIDE DEF st
    <3>4. \A f, lic : f = form /\ lic = "enterprise" => PageInv'
      <4> TAKE f, lic
      <4> HAVE f = form /\ lic = "enterprise"
      <4>1. Store(Settled(st, f, lic)) BY <2>1 DEF st
      <4> QED BY <1>1, <2>1, <3>3, <4>1, SettledKept DEF Licenses
    <3> QED BY <3>4
  <2> QED BY <2>2, <2>3
<1>7. ASSUME NEW k \in Editable, NEW v \in Inputs(k), handleChange(k, v) PROVE PageInv'
  <2>1. /\ page /\ form' = [form EXCEPT ![k] = Parsed(k, v)]
        /\ UNCHANGED <<stored, license, page, fetched>>
        /\ Store(IF k \in Writers /\ Local(k, v) # Local(k, form[k])
                 THEN Settled(Write(Now, k, v), form', license) ELSE Now)
    BY <1>7 DEF handleChange, OnPage, Nothing
  <2>2. k \in Writers => v # "" \/ k = "RTCDServiceURL"
    BY KeyNames DEF Inputs, Toggles
  <2>3. k \in Writers => Parsed(k, v) = v BY KeyNames DEF Parsed
  <2>4. k = "TranscribeAPI" => v \in {"whisper.cpp", "azure"} BY KeyNames DEF Inputs
  <2>5. FormOK(form') /\ \A x \in Keys : form'[x] = IF x = k THEN Parsed(k, v) ELSE form[x]
    <3>1. DOMAIN form' = Keys /\ \A x \in Keys : form'[x] = IF x = k THEN Parsed(k, v) ELSE form[x]
      BY <1>1, <2>1 DEF FormOK
    <3>2. "TranscribeAPI" \in Keys /\ "TranscribeAPI" \in Writers BY KeyNames
    <3> QED BY <1>1, <2>3, <2>4, <3>1, <3>2 DEF FormOK
  <2>6. ~fetched => mounted \subseteq Writers /\ mounted \subseteq Keys /\ MountedAgree(config, form, mounted)
    BY <2>1, KeyNames DEF PageInv, WritersOf
  <2>7. CASE k \notin Writers
    <3>1. config' = config /\ mounted' = mounted BY <2>1, <2>7 DEF Store, Now
    <3>2. ~fetched => MountedAgree(config, form', mounted) BY <2>5, <2>6, <2>7 DEF MountedAgree, Agrees
    <3> QED BY <1>1, <2>1, <2>5, <3>1, <3>2 DEF PageInv
  <2>9. CASE k \in Writers /\ Local(k, v) = Local(k, form[k])
    <3>1. config' = config /\ mounted' = mounted BY <2>1, <2>9 DEF Store, Now
    <3>2. ASSUME ~fetched, NEW x \in mounted PROVE Agrees(config, form', x)
      <4>1. x \in Keys /\ Agrees(config, form, x) BY <2>6, <3>2 DEF MountedAgree
      <4>2. form'[x] = IF x = k THEN v ELSE form[x] BY <2>3, <2>5, <2>9, <4>1
      <4>3. x = k /\ k \in Toggles => (v = "true" <=> form[k] = "true") BY <2>9 DEF Local, Toggles
      <4>4. x = k /\ k = "TranscribeAPI" => v = form[k] BY <2>9 DEF Local
      <4> QED BY <4>1, <4>2, <4>3, <4>4 DEF Agrees
    <3>3. ~fetched => MountedAgree(config, form', mounted) BY <3>2 DEF MountedAgree
    <3> QED BY <1>1, <2>1, <2>5, <3>1, <3>3 DEF PageInv
  <2>8. CASE k \in Writers /\ Local(k, v) # Local(k, form[k])
    <3> DEFINE st == Write(Now, k, v)
               f == form'
    <3>1. StoreState(Now) /\ Now.c = config /\ Now.m = mounted BY <1>1 DEF StoreState, Now
    <3>2. /\ StoreState(st) /\ st.m = mounted
          /\ \A x \in Keys : st.c[x] = IF x = k /\ k # "RTCDServiceURL"
                                       THEN IF k = "TranscribeAPI" \/ v = "true" THEN v ELSE "false"
                                       ELSE config[x]
      <4> DEFINE now == Now
      <4>1. StoreState(now) /\ now.c = config /\ now.m = mounted BY <3>1
      <4> HIDE DEF now
      <4>2. k \in Writers /\ (v # "" \/ k = "RTCDServiceURL") BY <2>2, <2>8
      <4>3. Written(now, k, v, Write(now, k, v)) BY <4>1, <4>2, WriteIs
      <4>4. Written(now, k, v, st) BY <4>3 DEF now
      <4> HIDE DEF st
      <4> QED BY <4>1, <4>4 DEF Written
    <3>6. Store(Settled(st, f, license)) BY <2>1, <2>8
    <3> HIDE DEF st
    <3>7. CASE fetched
      <4>1. DOMAIN config' = Keys
        <5> DEFINE a == Commit(Commit(Commit(st, f, license), f, license), f, license)
        <5>1. config' = Commit(a, f, license).c BY <3>6 DEF Settled, Store
        <5> HIDE DEF a
        <5> QED BY <5>1 DEF Commit
      <4> QED BY <1>1, <2>1, <2>5, <3>7, <4>1 DEF PageInv
    <3>8. CASE ~fetched
      <4>1. ASSUME NEW x \in mounted PROVE Agrees(st.c, form', x)
        <5>1. x \in Keys /\ Agrees(config, form, x) BY <2>6, <3>8 DEF MountedAgree
        <5>2. form'[x] = IF x = k THEN v ELSE form[x] BY <2>3, <2>5, <2>8, <5>1
        <5>3. st.c[x] = IF x = k /\ k # "RTCDServiceURL"
                        THEN IF k = "TranscribeAPI" \/ v = "true" THEN v ELSE "false"
                        ELSE config[x]
          BY <3>2, <5>1
        <5>4. CASE x = k BY <2>8, <5>2, <5>3, <5>4 DEF Agrees, Toggles
        <5>5. CASE x # k BY <5>1, <5>2, <5>3, <5>5 DEF Agrees
        <5> QED BY <5>4, <5>5
      <4>2. MountedAgree(st.c, form', st.m) BY <3>2, <4>1 DEF MountedAgree
      <4>3. \A g, lic : g = form' /\ lic = license => PageInv'
        <5> TAKE g, lic
        <5> HAVE g = form' /\ lic = license
        <5>1. Store(Settled(st, g, lic)) BY <3>6
        <5> QED BY <1>1, <2>1, <2>5, <3>2, <4>2, <5>1, SettledKept
      <4> QED BY <4>3
    <3> QED BY <3>7, <3>8
  <2> QED BY <2>7, <2>8, <2>9
<1> QED BY <1>2, <1>3, <1>4, <1>5, <1>6, <1>7 DEF AdminNext

LEMMA PageInvInit == WebInit => PageInv
<1> SUFFICES ASSUME WebInit PROVE PageInv OBVIOUS
<1>1. PICK lic \in Licenses : \E e, ro : AdminStart(e, lic, ro)
  <2>1. "other" \in Licenses BY DEF Licenses
  <2> QED BY <2>1 DEF WebInit, Starts, AdminInit, Licenses
<1>2. /\ stored = Defaults /\ form = Defaults /\ page = FALSE /\ config = Effective /\ license = lic
  BY <1>1 DEF AdminStart
<1>3. FormOK(Defaults)
  <2>1. "TranscribeAPI" \in Keys /\ "TranscribeAPI" \notin Switches BY KeyNames
  <2> QED BY <2>1 DEF FormOK, Defaults
<1>4. DOMAIN Effective = Keys BY DEF Effective
<1> QED BY <1>1, <1>2, <1>3, <1>4 DEF PageInv

\* What the page shows of the settings.
LEMMA PageShows ==
    ASSUME PageInv, page, ~fetched
    PROVE  DependantsFollow
<1>1. /\ license \in Licenses /\ mounted = WritersOf(license, config)
      /\ MountedAgree(config, form, mounted)
  BY DEF PageInv
<1> DEFINE sections == Sections(license, config)
           on == config["EnableRecordings"] = "true"
           too == config["EnableTranscriptions"] = "true"
<1>2. /\ Settings["JobServiceURL"] = JobServiceURL /\ Settings["EnableRecordings"] = EnableRecordings
      /\ Settings["EnableTranscriptions"] = EnableTranscriptions /\ Settings["TranscribeAPI"] = TranscribeAPI
      /\ Settings["EnableLiveCaptions"] = EnableLiveCaptions
      /\ Settings["LiveCaptionsLanguage"] = LiveCaptionsLanguage
      /\ Settings["TranscribeAPIAzureSpeechKey"] = TranscribeAPIAzureSpeechKey
  BY DEF Settings
<1> DEFINE R == {"JobServiceURL", "EnableRecordings"}
           T == {"EnableTranscriptions", "TranscribeAPI", "TranscribeAPIAzureSpeechKey"}
           L == {"EnableLiveCaptions", "LiveCaptionsLanguage"}
<1>3. /\ \A k \in R : k \in sections <=> license = "enterprise"
      /\ \A k \in T : k \in sections <=> license = "enterprise" /\ on
      /\ \A k \in L : k \in sections <=> license = "enterprise" /\ on /\ too
  BY <1>1
  DEF Sections, GeneralSettingsSection, RTCDServiceSection, RTCServerSection, ICEAndTURNSection, On, Licenses,
      CallRecordingsSection, CallTranscriptionsSection, CallLiveCaptionsSection, GeneralKeys, RTCKeys, ICEKeys,
      RecordingKeys, TranscriptionKeys, CaptionKeys
<1>4. \A k : OnPage(k) = IF k \in sections THEN Settings[k] ELSE Nothing BY DEF OnPage
<1>5. ~Nothing.shown BY DEF Nothing
<1> HIDE DEF sections
<1>6. CASE license # "enterprise"
  <2>1. \A k \in R \cup T \cup L : OnPage(k) = Nothing BY <1>3, <1>4, <1>6
  <2> QED BY <1>5, <2>1 DEF DependantsFollow, Shows
<1>7. CASE license = "enterprise"
  <2>1. Licensed /\ ~isCloud BY <1>7 DEF Licensed, isCloud, isOnPremNotEnterprise
  <2>2. recordingsEnabled = on /\ transcriptionsEnabled = too
    BY DEF recordingsEnabled, transcriptionsEnabled, On
  <2>3. \A k, off, x : Setting(k, off, x).shown /\ Setting(k, off, x).value = x BY DEF Setting
  <2>4. /\ "EnableRecordings" \in mounted
        /\ on => "EnableTranscriptions" \in mounted /\ "TranscribeAPI" \in mounted
        /\ on /\ too => "EnableLiveCaptions" \in mounted
    BY <1>1, <1>7, WritersOfIs
  <2>5. \A k \in mounted : Agrees(config, form, k) BY <1>1 DEF MountedAgree
  <2>6. Checked("EnableRecordings") = "true" <=> on BY <2>4, <2>5 DEF Checked, Value, Agrees, Toggles
  <2>7. on => (Checked("EnableTranscriptions") = "true" <=> too)
    BY <2>4, <2>5 DEF Checked, Value, Agrees, Toggles
  <2>8. on /\ too => (Checked("EnableLiveCaptions") = "true" <=> config["EnableLiveCaptions"] = "true")
    BY <2>4, <2>5 DEF Checked, Value, Agrees, Toggles
  <2>9. on => Value("TranscribeAPI") = config["TranscribeAPI"] BY <2>4, <2>5 DEF Value, Agrees, Toggles
  <2>10. Transcribing <=> on /\ too BY <2>1, <2>2 DEF Transcribing
  <2>11. OnPage("EnableRecordings").shown /\ OnPage("EnableRecordings").value = Checked("EnableRecordings")
    <3>1. EnableRecordings.shown /\ EnableRecordings.value = Checked("EnableRecordings")
      BY <2>1 DEF EnableRecordings, When, Setting
    <3> QED BY <1>2, <1>3, <1>4, <1>7, <3>1
  <2>12. OnPage("JobServiceURL").shown <=> on
    <3>1. JobServiceURL.shown <=> on BY <1>5, <2>1, <2>2 DEF JobServiceURL, When, Setting
    <3> QED BY <1>2, <1>3, <1>4, <1>7, <3>1
  <2>13. /\ OnPage("EnableTranscriptions").shown <=> on
         /\ on => OnPage("EnableTranscriptions").value = Checked("EnableTranscriptions")
    <3>1. on => EnableTranscriptions.shown /\ EnableTranscriptions.value = Checked("EnableTranscriptions")
      BY <2>1, <2>2 DEF EnableTranscriptions, When, Setting
    <3> QED BY <1>2, <1>3, <1>4, <1>5, <1>7, <3>1
  <2>14. /\ OnPage("TranscribeAPI").shown <=> on /\ too
         /\ on /\ too => OnPage("TranscribeAPI").value = Value("TranscribeAPI")
    <3>1. on /\ too => TranscribeAPI.shown /\ TranscribeAPI.value = Value("TranscribeAPI") BY <2>10 DEF TranscribeAPI, When, Setting
    <3>2. ~(on /\ too) => ~TranscribeAPI.shown BY <1>5, <2>10 DEF TranscribeAPI, When
    <3> QED BY <1>2, <1>3, <1>4, <1>5, <1>7, <2>10, <3>1, <3>2
  <2>15. /\ OnPage("TranscribeAPIAzureSpeechKey").shown <=> on /\ too /\ config["TranscribeAPI"] = "azure"
    <3>1. on /\ too => (TranscribeAPIAzureSpeechKey.shown <=> on /\ too /\ config["TranscribeAPI"] = "azure") BY <1>5, <2>10 DEF TranscribeAPIAzureSpeechKey, When, Setting
    <3>2. ~(on /\ too) => ~TranscribeAPIAzureSpeechKey.shown BY <1>5, <2>10 DEF TranscribeAPIAzureSpeechKey, When
    <3> QED BY <1>2, <1>3, <1>4, <1>5, <1>7, <2>10, <3>1, <3>2
  <2>16. /\ OnPage("EnableLiveCaptions").shown <=> on /\ too
         /\ on /\ too => OnPage("EnableLiveCaptions").value = Checked("EnableLiveCaptions")
    <3>1. on /\ too => EnableLiveCaptions.shown /\ EnableLiveCaptions.value = Checked("EnableLiveCaptions") BY <2>10 DEF EnableLiveCaptions, When, Setting
    <3> QED BY <1>2, <1>3, <1>4, <1>5, <1>7, <2>10, <3>1
  <2>17. /\ OnPage("LiveCaptionsLanguage").shown <=> on /\ too /\ config["EnableLiveCaptions"] = "true"
    <3>1. on /\ too => (LiveCaptionsLanguage.shown <=> on /\ too /\ config["EnableLiveCaptions"] = "true") BY <1>5, <2>10 DEF LiveCaptionsLanguage, When, Setting, liveCaptionsEnabled, On
    <3> QED BY <1>2, <1>3, <1>4, <1>5, <1>7, <2>10, <3>1
  <2> HIDE DEF on, too, R, T, L
  <2> QED BY <2>6, <2>7, <2>8, <2>9, <2>11, <2>12, <2>13, <2>14, <2>15, <2>16, <2>17 DEF DependantsFollow, Shows
<1> QED BY <1>6, <1>7

\* The settings of recordings, transcriptions and captions are on the page
\* exactly when the page shows their switches turned on (enable_recordings.tsx
\* and the other components that write the store when they are mounted or
\* changed), for any number of edits, saves, visits and trial licences, and
\* whatever the server takes from its environment.
THEOREM PageAgreesWithItself == WebSpec => []DependantsFollow
<1>1. PageInv /\ [WebNext]_<<part, adminVars, ringVars, mediaVars, entryVars, promptVars, windowVars>> => PageInv'
  <2>1. PageInv /\ UNCHANGED adminVars => PageInv' BY DEF PageInv, adminVars
  <2>2. [WebNext]_<<part, adminVars, ringVars, mediaVars, entryVars, promptVars, windowVars>>
           => AdminNext \/ UNCHANGED adminVars
    BY DEF WebNext, AdminStep, RingStep, MediaStep, EntryStep, PromptStep, WindowStep
  <2> QED BY <2>1, <2>2, PageStepKept
<1>2. PageInv => DependantsFollow BY PageShows DEF DependantsFollow
<1> QED BY <1>1, <1>2, PageInvInit, PTL DEF WebSpec

=============================================================================
