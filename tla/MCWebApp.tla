----------------------------- MODULE MCWebApp ------------------------------
(***************************************************************************)
(* The parts of the web app that keep their own state, checked in one run. *)
(* A behaviour is of one part, chosen at the start, and the variables of   *)
(* the others keep their first values: the parts' states add up instead of *)
(* multiplying.                                                            *)
(***************************************************************************)
EXTENDS AdminConsole, IncomingCalls, CallMedia

CONSTANTS
    Chans, DMs, MaxClients, MaxClicks,          \* CallEntry
    Skews, MaxEvents, MaxLag, MaxDone,          \* CallPrompts
    Others, MaxActs, MaxOnWay                   \* CallWindows

VARIABLES
    part,
    site, chan, win, cls, turns, msgs, clicks,
    srv, lag, store, al, data, pop, past, done,
    client, kept, up, down, view, ui, popout, room, acts

Entry == INSTANCE CallEntry
Prompt == INSTANCE CallPrompts
Window == INSTANCE CallWindows

Parts == {"admin", "ring", "media", "entry", "prompt", "window"}

\* The part that a behaviour is about begins in any of its states, the others
\* in one of them.
Starts(p, all, one) == IF part = p THEN all ELSE one

WebInit ==
    /\ part \in Parts
    /\ Starts("admin", AdminInit, AdminStart(<<>>, "other", FALSE))
    /\ RingInit /\ (part # "ring" => prefs = [ringing |-> FALSE, loads |-> {}])
    /\ Starts("media", MediaInit, MediaStart(0, FALSE, {}))
    /\ Starts("entry", Entry!EntryInit, Entry!EntryStart(FALSE, FALSE, FALSE, FALSE, TRUE))
    /\ Starts("prompt", Prompt!PromptInit, Prompt!PromptStart(0, "rec"))
    /\ Starts("window", Window!WindowsInit, Window!WindowsStart("mic", FALSE, FALSE, "off"))

entryVars == <<site, chan, win, cls, turns, msgs, clicks>>
promptVars == <<srv, lag, store, al, data, pop, past, done>>
windowVars == <<client, kept, up, down, view, ui, popout, room, acts>>

AdminStep ==
    /\ part = "admin" /\ AdminNext
    /\ UNCHANGED <<part, ringVars, mediaVars, entryVars, promptVars, windowVars>>
RingStep ==
    /\ part = "ring" /\ RingNext
    /\ UNCHANGED <<part, adminVars, mediaVars, entryVars, promptVars, windowVars>>
MediaStep ==
    /\ part = "media" /\ MediaNext
    /\ UNCHANGED <<part, adminVars, ringVars, entryVars, promptVars, windowVars>>
EntryStep ==
    /\ part = "entry" /\ Entry!EntryNext
    /\ UNCHANGED <<part, adminVars, ringVars, mediaVars, promptVars, windowVars>>
PromptStep ==
    /\ part = "prompt" /\ Prompt!PromptNext
    /\ UNCHANGED <<part, adminVars, ringVars, mediaVars, entryVars, windowVars>>
WindowStep ==
    /\ part = "window" /\ Window!WindowsNext
    /\ UNCHANGED <<part, adminVars, ringVars, mediaVars, entryVars, promptVars>>

WebNext == AdminStep \/ RingStep \/ MediaStep \/ EntryStep \/ PromptStep \/ WindowStep

WebSpec ==
    WebInit /\ [][WebNext]_<<part, adminVars, ringVars, mediaVars, entryVars, promptVars, windowVars>>

-----------------------------------------------------------------------------
\* The type invariants of the parts (reducers.ts, client.ts, index.tsx and the
\* states of the components).
WebTypeOK ==
    CASE part = "admin" -> AdminTypeOK
      [] part = "ring" -> RingTypeOK
      [] part = "media" -> MediaTypeOK
      [] part = "entry" -> Entry!EntryTypeOK
      [] part = "prompt" -> Prompt!PromptTypeOK
      [] part = "window" -> Window!WindowsTypeOK

\* index.tsx, connectCall: one client at a time (CallEntry).
OneClient == part = "entry" => Entry!OneClient

\* clock_skew.ts: the disclaimer follows the news (CallPrompts).
PromptFollowsNews == part = "prompt" => Prompt!PromptFollowsNews

\* setMissingScreenPermissions: the windows agree on the alerts (CallPrompts).
AlertsCurrent == part = "prompt" => Prompt!AlertsCurrent

\* Both windows of a call show what the client does (CallWindows).
WindowsAgree == part = "window" => Window!WindowsAgree

\* A pop-out ends with its call, and its capture with it (CallWindows).
PopoutEnds == part = "window" => Window!PopoutEnds

=============================================================================
