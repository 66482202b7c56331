---------------------------- MODULE AdminConsole ----------------------------
(***************************************************************************)
(* The page of the plugin in the System Console                            *)
(* (webapp/src/components/admin_console_settings).                         *)
(*                                                                         *)
(* A setting is a component over the value of the form of the System       *)
(* Console, the plugin's copy of the configuration in the Redux store and  *)
(* the settings that the server takes from its environment.  Five of them, *)
(* the writers, also write the store when they are mounted or changed, and *)
(* other settings and whole sections appear or disappear with it.          *)
(*                                                                         *)
(* Values are strings: "true", "false" and "unset" for a switch, a text or *)
(* the empty text for the rest.                                            *)
(***************************************************************************)
EXTENDS Naturals, FiniteSets

CONSTANTS
    Editable,      \* bound: the settings the administrator changes
    Overridable,   \* bound: the settings the environment may set
    MaxEdits       \* bound: changes made on the page

GeneralKeys == {"DefaultEnabled", "MaxCallParticipants", "AllowScreenSharing", "EnableSimulcast",
                "EnableRinging", "EnableAV1", "EnableDCSignaling", "EnableVideo"}
RTCKeys == {"UDPServerAddress", "TCPServerAddress", "UDPServerPort", "TCPServerPort", "EnableIPv6"}
ICEKeys == {"ICEHostOverride", "ICEHostPortOverride", "ICEServersConfigs", "TURNStaticAuthSecret",
            "TURNCredentialsExpirationMinutes", "ServerSideTURN"}
RecordingKeys == {"EnableRecordings", "JobServiceURL", "MaxRecordingDuration", "RecordingQuality"}
TranscriptionKeys == {"EnableTranscriptions", "TranscribeAPI", "TranscriberModelSize", "TranscriberNumThreads",
                      "TranscribeAPIAzureSpeechKey", "TranscribeAPIAzureSpeechRegion"}
CaptionKeys == {"EnableLiveCaptions", "LiveCaptionsModelSize", "LiveCaptionsNumTranscribers",
                "LiveCaptionsNumThreadsPerTranscriber", "LiveCaptionsLanguage"}
Keys == GeneralKeys \cup {"RTCDServiceURL"} \cup RTCKeys \cup ICEKeys
        \cup RecordingKeys \cup TranscriptionKeys \cup CaptionKeys

Switches == {"DefaultEnabled", "AllowScreenSharing", "EnableSimulcast", "EnableRinging", "EnableAV1",
             "EnableDCSignaling", "EnableVideo", "EnableIPv6", "ServerSideTURN", "EnableRecordings",
             "EnableTranscriptions", "EnableLiveCaptions"}
Numbers == {"MaxCallParticipants", "UDPServerPort", "TCPServerPort", "ICEHostPortOverride",
            "TURNCredentialsExpirationMinutes", "MaxRecordingDuration", "TranscriberNumThreads",
            "LiveCaptionsNumTranscribers", "LiveCaptionsNumThreadsPerTranscriber"}
Writers == {"RTCDServiceURL", "EnableRecordings", "EnableTranscriptions", "TranscribeAPI", "EnableLiveCaptions"}

ASSUME AdminAssumption ==
    Editable \subseteq Keys /\ Overridable \subseteq Keys /\ MaxEdits \in Nat

VARIABLES
    env,       \* the settings the server takes from its environment
    stored,    \* the settings in the configuration of the server
    license,   \* "cloud", "enterprise" or "other"
    readOnly,  \* may the administrator only look?
    page,      \* is the page open?
    form,      \* the values of the form: props.value
    config,    \* callsConfig in the store
    rtcd,      \* rtcdEnabled in the store
    mounted,   \* the writers that are mounted
    edits,     \* changes made so far, for MaxEdits
    fetched    \* was the configuration fetched while the page was open?

adminVars == <<env, stored, license, readOnly, page, form, config, rtcd, mounted, edits, fetched>>

\* What the server uses: GET /config.
Effective == [k \in Keys |-> IF k \in DOMAIN env THEN env[k] ELSE stored[k]]

-----------------------------------------------------------------------------
(* Selectors                                                               *)

isCloud == license = "cloud"
isOnPremNotEnterprise == ~isCloud /\ license # "enterprise"
On(c, k) == c[k] = "true"
recordingsEnabled == On(config, "EnableRecordings")
transcriptionsEnabled == On(config, "EnableTranscriptions")
liveCaptionsEnabled == On(config, "EnableLiveCaptions")
Licensed == ~isCloud /\ ~isOnPremNotEnterprise

-----------------------------------------------------------------------------
(* Settings.  A setting that is not there has no value and no input.       *)

Overridden(k) == k \in DOMAIN env
Nothing == [shown |-> FALSE, disabled |-> TRUE, warning |-> FALSE, value |-> "none"]
Setting(k, off, v) ==
    [shown |-> TRUE, disabled |-> readOnly \/ off \/ Overridden(k), warning |-> Overridden(k), value |-> v]
When(condition, s) == IF condition THEN s ELSE Nothing

\* The value of a text, a number or a choice; default stands for no value.
Value(k) == IF Overridden(k) THEN config[k] ELSE form[k]
ValueOr(k, default) == IF Overridden(k) THEN config[k] ELSE IF form[k] = "unset" THEN default ELSE form[k]
NullAsEmpty(v) == IF v = "null" THEN "" ELSE v
\* Is the switch on?
Checked(k) == IF Value(k) = "true" THEN "true" ELSE "false"

TestMode ==
    LET on == IF Overridden("DefaultEnabled") THEN config["DefaultEnabled"] # "true"
              ELSE form["DefaultEnabled"] \in {"unset", "false"}
    IN  Setting("DefaultEnabled", FALSE, IF on THEN "on" ELSE "off")
MaxCallParticipants == Setting("MaxCallParticipants", FALSE, Value("MaxCallParticipants"))
AllowScreenSharing ==
    Setting("AllowScreenSharing", FALSE,
            IF Overridden("AllowScreenSharing") THEN config["AllowScreenSharing"]
            ELSE IF form["AllowScreenSharing"] \in {"unset", "true"} THEN "true" ELSE "false")
EnableSimulcast == Setting("EnableSimulcast", FALSE, Checked("EnableSimulcast"))
EnableAV1 == Setting("EnableAV1", FALSE, Checked("EnableAV1"))
EnableRinging == Setting("EnableRinging", FALSE, Checked("EnableRinging"))
EnableDCSignaling == Setting("EnableDCSignaling", FALSE, Checked("EnableDCSignaling"))
\* This one does not look at the environment.
EnableVideo ==
    [shown |-> TRUE, disabled |-> readOnly, warning |-> FALSE,
     value |-> IF form["EnableVideo"] = "true" THEN "true" ELSE "false"]

RTCDServiceURL == Setting("RTCDServiceURL", FALSE, Value("RTCDServiceURL"))

UDPServerAddress == Setting("UDPServerAddress", rtcd, Value("UDPServerAddress"))
UDPServerPort == Setting("UDPServerPort", rtcd, Value("UDPServerPort"))
TCPServerAddress == Setting("TCPServerAddress", rtcd, Value("TCPServerAddress"))
TCPServerPort == Setting("TCPServerPort", rtcd, Value("TCPServerPort"))
EnableIPv6 == Setting("EnableIPv6", rtcd, Checked("EnableIPv6"))

ICEHostOverride == Setting("ICEHostOverride", rtcd, Value("ICEHostOverride"))
ICEHostPortOverride == Setting("ICEHostPortOverride", rtcd, NullAsEmpty(Value("ICEHostPortOverride")))
ICEServersConfigs == Setting("ICEServersConfigs", FALSE, Value("ICEServersConfigs"))
TURNStaticAuthSecret == Setting("TURNStaticAuthSecret", FALSE, Value("TURNStaticAuthSecret"))
TURNCredentialsExpirationMinutes ==
    Setting("TURNCredentialsExpirationMinutes", FALSE, NullAsEmpty(Value("TURNCredentialsExpirationMinutes")))
ServerSideTURN == Setting("ServerSideTURN", rtcd, Checked("ServerSideTURN"))

EnableRecordings == When(~isCloud, Setting("EnableRecordings", FALSE, Checked("EnableRecordings")))
JobServiceURL ==
    When(Licensed /\ recordingsEnabled, Setting("JobServiceURL", FALSE, Value("JobServiceURL")))
MaxRecordingDuration ==
    When(Licensed /\ recordingsEnabled, Setting("MaxRecordingDuration", FALSE, ValueOr("MaxRecordingDuration", "60")))
RecordingQuality ==
    When(Licensed /\ recordingsEnabled, Setting("RecordingQuality", FALSE, ValueOr("RecordingQuality", "medium")))

Transcribing == Licensed /\ recordingsEnabled /\ transcriptionsEnabled
EnableTranscriptions ==
    When(Licensed /\ recordingsEnabled, Setting("EnableTranscriptions", FALSE, Checked("EnableTranscriptions")))
TranscribeAPI == When(Transcribing, Setting("TranscribeAPI", FALSE, Value("TranscribeAPI")))
TranscriberModelSize ==
    When(Transcribing /\ config["TranscribeAPI"] = "whisper.cpp",
         Setting("TranscriberModelSize", FALSE, ValueOr("TranscriberModelSize", "base")))
TranscriberNumThreads ==
    When(Transcribing /\ config["TranscribeAPI"] = "whisper.cpp",
         Setting("TranscriberNumThreads", FALSE, Value("TranscriberNumThreads")))
TranscribeAPIAzureSpeechKey ==
    When(Transcribing /\ config["TranscribeAPI"] = "azure",
         Setting("TranscribeAPIAzureSpeechKey", FALSE, Value("TranscribeAPIAzureSpeechKey")))
TranscribeAPIAzureSpeechRegion ==
    When(Transcribing /\ config["TranscribeAPI"] = "azure",
         Setting("TranscribeAPIAzureSpeechRegion", FALSE, Value("TranscribeAPIAzureSpeechRegion")))

EnableLiveCaptions == When(Transcribing, Setting("EnableLiveCaptions", FALSE, Checked("EnableLiveCaptions")))
LiveCaptionsModelSize ==
    When(Transcribing /\ liveCaptionsEnabled, Setting("LiveCaptionsModelSize", FALSE, Value("LiveCaptionsModelSize")))
LiveCaptionsNumTranscribers ==
    When(Transcribing /\ liveCaptionsEnabled,
         Setting("LiveCaptionsNumTranscribers", FALSE, Value("LiveCaptionsNumTranscribers")))
LiveCaptionsNumThreadsPerTranscriber ==
    When(Transcribing /\ liveCaptionsEnabled,
         Setting("LiveCaptionsNumThreadsPerTranscriber", FALSE, Value("LiveCaptionsNumThreadsPerTranscriber")))
LiveCaptionsLanguage ==
    When(Transcribing /\ liveCaptionsEnabled, Setting("LiveCaptionsLanguage", FALSE, Value("LiveCaptionsLanguage")))

-----------------------------------------------------------------------------
(* Sections: the settings they mount under a licence lic, for a            *)
(* configuration c in the store                                            *)

GeneralSettingsSection == GeneralKeys
RTCDServiceSection(lic) == IF lic = "other" THEN {} ELSE {"RTCDServiceURL"}
RTCServerSection == RTCKeys
ICEAndTURNSection == ICEKeys
CallRecordingsSection(lic) == IF lic \in {"cloud", "other"} THEN {} ELSE RecordingKeys
CallTranscriptionsSection(lic, c) ==
    IF lic = "enterprise" /\ On(c, "EnableRecordings") THEN TranscriptionKeys ELSE {}
CallLiveCaptionsSection(lic, c) ==
    IF lic = "enterprise" /\ On(c, "EnableRecordings") /\ On(c, "EnableTranscriptions")
    THEN CaptionKeys ELSE {}

Sections(lic, c) ==
    GeneralSettingsSection \cup RTCDServiceSection(lic) \cup RTCServerSection \cup ICEAndTURNSection
    \cup CallRecordingsSection(lic) \cup CallTranscriptionsSection(lic, c) \cup CallLiveCaptionsSection(lic, c)

\* index.tsx: the component registered for every setting of the manifest.
Settings ==
    [DefaultEnabled |-> TestMode, MaxCallParticipants |-> MaxCallParticipants,
     AllowScreenSharing |-> AllowScreenSharing, EnableSimulcast |-> EnableSimulcast, EnableAV1 |-> EnableAV1,
     EnableRinging |-> EnableRinging, EnableDCSignaling |-> EnableDCSignaling, EnableVideo |-> EnableVideo,
     RTCDServiceURL |-> RTCDServiceURL,
     UDPServerAddress |-> UDPServerAddress, UDPServerPort |-> UDPServerPort, TCPServerAddress |-> TCPServerAddress,
     TCPServerPort |-> TCPServerPort, EnableIPv6 |-> EnableIPv6,
     ICEHostOverride |-> ICEHostOverride, ICEHostPortOverride |-> ICEHostPortOverride,
     ICEServersConfigs |-> ICEServersConfigs, TURNStaticAuthSecret |-> TURNStaticAuthSecret,
     TURNCredentialsExpirationMinutes |-> TURNCredentialsExpirationMinutes, ServerSideTURN |-> ServerSideTURN,
     EnableRecordings |-> EnableRecordings, JobServiceURL |-> JobServiceURL,
     MaxRecordingDuration |-> MaxRecordingDuration, RecordingQuality |-> RecordingQuality,
     EnableTranscriptions |-> EnableTranscriptions, TranscribeAPI |-> TranscribeAPI,
     TranscriberModelSize |-> TranscriberModelSize, TranscriberNumThreads |-> TranscriberNumThreads,
     TranscribeAPIAzureSpeechKey |-> TranscribeAPIAzureSpeechKey,
     TranscribeAPIAzureSpeechRegion |-> TranscribeAPIAzureSpeechRegion,
     EnableLiveCaptions |-> EnableLiveCaptions, LiveCaptionsModelSize |-> LiveCaptionsModelSize,
     LiveCaptionsNumTranscribers |-> LiveCaptionsNumTranscribers,
     LiveCaptionsNumThreadsPerTranscriber |-> LiveCaptionsNumThreadsPerTranscriber,
     LiveCaptionsLanguage |-> LiveCaptionsLanguage]

\* What the page shows of setting k.
OnPage(k) == IF page /\ k \in Sections(license, config) THEN Settings[k] ELSE Nothing

-----------------------------------------------------------------------------
(* The writers: what their effects do to the store.  st holds the          *)
(* configuration, rtcdEnabled and the mounted writers.                     *)

\* reducers.ts, callsConfig and rtcdEnabled, for the value v of writer k.
Write(st, k, v) ==
    IF k = "RTCDServiceURL" THEN [st EXCEPT !.r = v # ""]
    ELSE IF k = "TranscribeAPI" /\ v = "" THEN st
    ELSE [st EXCEPT !.c[k] = IF k = "TranscribeAPI" \/ v = "true" THEN v ELSE "false"]

\* One commit: the writers that come with the sections of st run their effects
\* on the values they find in the form f; those that go are forgotten.
Commit(st, f, lic) ==
    LET m == Writers \cap Sections(lic, st.c)
        effect(k) == IF k \in m \ st.m THEN Write(st, k, f[k]) ELSE st
    IN  [c |-> [k \in Keys |-> effect(k).c[k]], r |-> effect("RTCDServiceURL").r, m |-> m]

\* A change of a writer can mount two more sections, one after the other.
Settled(st, f, lic) ==
    LET once == Commit(st, f, lic)
        twice == Commit(once, f, lic)
        thrice == Commit(twice, f, lic)
    IN  Commit(thrice, f, lic)

Store(st) == config' = st.c /\ rtcd' = st.r /\ mounted' = st.m
Now == [c |-> config, r |-> rtcd, m |-> mounted]

-----------------------------------------------------------------------------
(* Actions                                                                 *)

\* The values the input of setting k can be given, and what is left of them:
\* a number that was erased is not a number.
Inputs(k) ==
    IF k \in Switches THEN {"true", "false"}
    ELSE IF k = "TranscribeAPI" THEN {"whisper.cpp", "azure"} ELSE {"", "5"}
Parsed(k, v) == IF k \in Numbers /\ v = "" THEN "NaN" ELSE v

\* The page is opened: the settings are mounted over the stored values.
OpenPage ==
    /\ ~page /\ page' = TRUE
    /\ form' = stored
    /\ Store(Settled([Now EXCEPT !.m = {}], stored, license))
    /\ UNCHANGED <<env, stored, license, readOnly, edits, fetched>>

\* Mutant of handleChange: the local state of the setting is not set.
handleChange_FormOnly(k, v) ==
    /\ edits < MaxEdits /\ edits' = edits + 1
    /\ k \in Editable /\ OnPage(k).shown /\ ~OnPage(k).disabled
    /\ v \in Inputs(k) /\ Parsed(k, v) # form[k]
    /\ form' = [form EXCEPT ![k] = Parsed(k, v)]
    /\ UNCHANGED <<env, stored, license, readOnly, page, config, rtcd, mounted, fetched>>

\* What a writer keeps of its value: a switch, or the API.
Local(k, v) ==
    IF k = "TranscribeAPI" THEN v
    ELSE IF (IF k = "RTCDServiceURL" THEN v # "" ELSE v = "true") THEN "on" ELSE "off"

\* handleChange of a setting; a writer changes its local state too, and if that
\* is another one its effect writes it to the store.
handleChange(k, v) ==
    /\ edits < MaxEdits /\ edits' = edits + 1
    /\ k \in Editable /\ OnPage(k).shown /\ ~OnPage(k).disabled
    /\ v \in Inputs(k) /\ Parsed(k, v) # form[k]
    /\ form' = [form EXCEPT ![k] = Parsed(k, v)]
    /\ Store(IF k \in Writers /\ Local(k, v) # Local(k, form[k])
             THEN Settled(Write(Now, k, v), form', license) ELSE Now)
    /\ UNCHANGED <<env, stored, license, readOnly, page, fetched>>

\* The System Console saves the form, or leaves the page without saving it.
Save ==
    /\ page /\ ~readOnly
    /\ stored' = [k \in Keys |-> IF form[k] = "NaN" THEN "null" ELSE form[k]]
    /\ form' = stored'
    /\ UNCHANGED <<env, license, readOnly, page, config, rtcd, mounted, edits, fetched>>

ClosePage ==
    /\ page /\ page' = FALSE
    /\ mounted' = {} /\ fetched' = FALSE
    /\ form' = stored
    /\ UNCHANGED <<env, stored, license, readOnly, config, rtcd, edits>>

\* onActivate, when the main WebSocket reconnects: the configuration is
\* fetched; a writer that stays mounted does not write again.
getCallsConfig ==
    /\ Store(IF page THEN Settled([Now EXCEPT !.c = Effective], form, license) ELSE [Now EXCEPT !.c = Effective])
    /\ fetched' = page
    /\ UNCHANGED <<env, stored, license, readOnly, page, form, edits>>

\* requestLicense, of the RTCD and of the recordings section: the page gets
\* the trial licence and mounts the sections it unlocks.
requestLicense ==
    /\ page /\ isOnPremNotEnterprise
    /\ license' = "enterprise"
    /\ Store(Settled(Now, form, "enterprise"))
    /\ UNCHANGED <<env, stored, readOnly, page, form, edits, fetched>>

-----------------------------------------------------------------------------
Defaults ==
    [k \in Keys |-> IF k \in Switches THEN "unset" ELSE IF k = "TranscribeAPI" THEN "whisper.cpp"
                    ELSE IF k \in Numbers THEN "5" ELSE ""]

\* The app has the configuration of the server and the page is not open.
AdminStart(e, lic, ro) ==
    /\ env = e /\ license = lic /\ readOnly = ro
    /\ stored = Defaults /\ form = Defaults /\ page = FALSE
    /\ config = Effective /\ rtcd = FALSE /\ mounted = {}
    /\ edits = 0 /\ fetched = FALSE

AdminInit ==
    \E ks \in SUBSET Overridable, lic \in {"cloud", "enterprise", "other"}, ro \in BOOLEAN :
       AdminStart([k \in ks |-> IF k \in Switches THEN "true" ELSE "5"], lic, ro)

AdminNext ==
    \/ OpenPage \/ Save \/ ClosePage \/ getCallsConfig \/ requestLicense
    \/ \E k \in Editable : \E v \in Inputs(k) : handleChange(k, v)

AdminSpec == AdminInit /\ [][AdminNext]_adminVars

-----------------------------------------------------------------------------
Text == {"true", "false", "unset", "", "5", "NaN", "null", "whisper.cpp", "azure"}

\* The types of the configuration, of the form and of the store.
AdminTypeOK ==
    /\ DOMAIN env \subseteq Overridable /\ license \in {"cloud", "enterprise", "other"}
    /\ \A f \in {stored, form, config} : f \in [Keys -> Text]
    /\ {readOnly, page, rtcd, fetched} \subseteq BOOLEAN /\ mounted \subseteq Writers /\ edits \in 0 .. MaxEdits

\* A switch as the page shows it.
Shows(k, v) == OnPage(k).shown /\ OnPage(k).value = v

\* The settings of a feature are on the page exactly when the switches of the
\* feature are there and on: what the page shows of one component agrees with
\* what it shows of the others, however the switches were turned, saved and
\* discarded before (enable_recordings.tsx and the other writers, the sections,
\* the conditions of the dependants).  The one exception: the configuration is
\* fetched again while the page is open, which undoes what the switches wrote.
DependantsFollow ==
    page /\ ~fetched =>
        /\ OnPage("JobServiceURL").shown <=> Shows("EnableRecordings", "true")
        /\ OnPage("EnableTranscriptions").shown <=> Shows("EnableRecordings", "true")
        /\ OnPage("EnableLiveCaptions").shown <=> Shows("EnableTranscriptions", "true")
        /\ OnPage("LiveCaptionsLanguage").shown <=> Shows("EnableLiveCaptions", "true")
        /\ OnPage("TranscribeAPIAzureSpeechKey").shown <=> Shows("TranscribeAPI", "azure")

=============================================================================
