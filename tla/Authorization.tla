--------------------------- MODULE Authorization ---------------------------
(***************************************************************************)
(* The component authorization of nethcti-server: which profile a user     *)
(* has, what the profile permits, and the reload that reads both from the  *)
(* files of the configuration.  The endpoints of the users are those of    *)
(* the component user, which reads the same files at another moment: its   *)
(* reload waits for the one of astproxy.                                   *)
(*                                                                         *)
(* A profile is the set of what it grants: <<macro, "value">> when the     *)
(* macro permission is on, <<macro, permission>> when the permission is.   *)
(* A macro permission the file does not have makes the code throw and      *)
(* refuse, as one that is off.                                             *)
(***************************************************************************)
EXTENDS Naturals, FiniteSets

CONSTANTS Names,       \* names of users as the files write them
          Users,       \* the same names in small letters, as requests have them
          LowerCase,   \* from Names to Users
          Extens, Cellphones, Voicemails, Queues, Streams,
          ProfileIds, NoProfile,
          Grants,      \* what a profile can grant
          Files        \* the contents the two files may have

ASSUME LowerCaseAssumption ==
  /\ LowerCase \in [Names -> Users]
  /\ \A m, n \in Names : LowerCase[m] = LowerCase[n] => m = n
ASSUME ProfilesAssumption == NoProfile \notin ProfileIds

\* The key of the name of a user followed by @ and the domain.
AtDomain(u) == <<u>>
Keys == Users \cup Extens \cup {AtDomain(u) : u \in Users}

UserConfig == [profile_id : ProfileIds \cup {NoProfile}, mainextension : SUBSET Extens,
               extension : SUBSET Extens, cellphone : SUBSET Cellphones,
               voicemail : SUBSET Voicemails]
\* In a file every main extension has one user, and is nobody's name.
ASSUME FilesAssumption ==
  \A f \in Files :
    /\ DOMAIN f.users \subseteq Names
    /\ \A n \in DOMAIN f.users : f.users[n] \in UserConfig
    /\ DOMAIN f.profiles \subseteq ProfileIds
    /\ \A i \in DOMAIN f.profiles : f.profiles[i] \subseteq Grants
    /\ \A m, n \in DOMAIN f.users :
         f.users[m].mainextension \cap f.users[n].mainextension # {} => m = n
ASSUME NamesAssumption ==
  /\ Users \cap Extens = {}
  /\ \A u \in Users : AtDomain(u) \notin Users \cup Extens
  /\ \A u, v \in Users : AtDomain(u) = AtDomain(v) => u = v

VARIABLES disk,            \* what the files say now
          mapUserProfile,  \* the profile of every key
          profiles,        \* what every profile grants
          users            \* the endpoints the component user has

policyVars == <<disk, mapUserProfile, profiles, users>>

----------------------------------------------------------------------------
\* config, first file: a user has its own name, in small letters, its name
\* at the domain and its main extension as keys of its profile.
KeysOf(f, n) == {LowerCase[n], AtDomain(LowerCase[n])} \cup f.users[n].mainextension
ProfilesByKey(f) ==
  [k \in UNION {KeysOf(f, n) : n \in DOMAIN f.users} |->
     f.users[CHOOSE n \in DOMAIN f.users : k \in KeysOf(f, n)].profile_id]
Nothing == [k \in {} |-> NoProfile]

\* The component user keeps the endpoints of every user of the file.
EndpointsByUser(f) ==
  [u \in {LowerCase[n] : n \in DOMAIN f.users} |->
     f.users[CHOOSE n \in DOMAIN f.users : LowerCase[n] = u]]

getUserProfileId(k) == IF k \in DOMAIN mapUserProfile THEN mapUserProfile[k] ELSE NoProfile
userHasProfile(k) == getUserProfileId(k) # NoProfile
GrantsOf(k) == IF getUserProfileId(k) \in DOMAIN profiles
               THEN profiles[getUserProfileId(k)] ELSE {}
HasMacro(k, macro) == <<macro, "value">> \in GrantsOf(k)
Has(k, macro, permission) == HasMacro(k, macro) /\ <<macro, permission>> \in GrantsOf(k)

authorizePhonebookUser(k) == HasMacro(k, "phonebook")
authorizeAdminPhonebookUser(k) == Has(k, "phonebook", "ad_phonebook")
authorizeRecordingUser(k) == Has(k, "settings", "recording")
authorizeLostQueueCallsUser(k) == Has(k, "queue_agent", "lost_queue_call")
authorizeAdminRecordingUser(k) == Has(k, "presence_panel", "ad_recording")
authorizeQManagerUser(k) == HasMacro(k, "qmanager")
authorizeOperatorPanel(k) == HasMacro(k, "operator_panel")
authorizeAdminQueuesUser(k) == Has(k, "queue_agent", "ad_queue_agent")
authorizeQueuesUser(k) == HasMacro(k, "queue_agent")
authorizeOffhourUser(k) == HasMacro(k, "off_hour")
authorizeAdminOffhourUser(k) == Has(k, "off_hour", "ad_off_hour")
authorizeAdvancedOffhourUser(k) == Has(k, "off_hour", "advanced_off_hour")
authorizeAdminHangupUser(k) == Has(k, "presence_panel", "hangup")
authorizeAdminPickupUser(k) == Has(k, "presence_panel", "pickup")
authorizeSpyUser(k) == Has(k, "presence_panel", "spy")
authorizeIntrudeUser(k) == Has(k, "presence_panel", "intrude")
authorizeAdminTransferUser(k) == Has(k, "presence_panel", "transfer")
authorizeOpTrunksUser(k) == Has(k, "presence_panel", "trunks")
authorizeAdminParkingsUser(k) == Has(k, "presence_panel", "ad_parking")
authorizeAdminPhoneUser(k) == Has(k, "presence_panel", "ad_phone")
authorizePresencePanelUser(k) == HasMacro(k, "presence_panel")
authorizeOpParkingsUser(k) == Has(k, "settings", "parkings")
authorizeDndUser(k) == Has(k, "settings", "dnd")
authorizeCfUser(k) == Has(k, "settings", "call_forward")
authorizePhoneButtonsUser(k) == Has(k, "settings", "phone_buttons")
authorizeScreenSharing(k) == Has(k, "settings", "screen_sharing")
authorizeVideoconf(k) == Has(k, "settings", "video_conference")
authorizeCdrUser(k) == HasMacro(k, "cdr")
authorizeAdminCdrUser(k) == Has(k, "cdr", "ad_cdr")
authorizeGroupCdrUser(k) == Has(k, "cdr", "group_cdr")
authorizeCustomerCardUser(k) == HasMacro(k, "customer_card")
authorizeStreamingUser(k) == HasMacro(k, "streaming")
\* The body that would look the authorization up is commented out: the
\* function returns undefined, which is never TRUE.
authorizePhoneRedirectUser(k) == FALSE

\* Without a profile the privacy is on; with one that was not read it is off.
isPrivacyEnabled(k) == ~userHasProfile(k) \/ Has(k, "settings", "privacy")

\* Permissions on single objects: the permission is named after the object.
ObjectsOf(k, macro, objects) == {o \in objects : Has(k, macro, o)}
getAllowedQManagerQueues(k) == ObjectsOf(k, "qmanager", Queues)
getAllowedStreamingSources(k) == ObjectsOf(k, "streaming", Streams)
authorizeStreamingSourceUser(k, s) == Has(k, "streaming", s)
authorizedCustomerCards(k, cards) == ObjectsOf(k, "customer_card", cards)

----------------------------------------------------------------------------
\* What the component user answers of the endpoints of a user.
hasExtensionEndpoint(u, e) ==
  u \in DOMAIN users /\ e \in users[u].extension \cup users[u].mainextension
getAllEndpointsExtension(u) == {e \in Extens : hasExtensionEndpoint(u, e)}
hasCellphoneEndpoint(u, c) == u \in DOMAIN users /\ c \in users[u].cellphone
hasVoicemailEndpoint(u, v) == u \in DOMAIN users /\ v \in users[u].voicemail

verifyUserEndpointExten(u, e) == hasExtensionEndpoint(u, e)
verifyUserEndpointCellphone(u, c) == hasCellphoneEndpoint(u, c)
verifyUserEndpointVoicemail(u, v) == hasVoicemailEndpoint(u, v)

----------------------------------------------------------------------------
PolicyInit ==
  /\ disk \in Files
  /\ mapUserProfile = ProfilesByKey(disk)
  /\ profiles = disk.profiles
  /\ users = EndpointsByUser(disk)

\* NethServer writes the files anew.
Configure == \E f \in Files : disk' = f /\ UNCHANGED <<mapUserProfile, profiles, users>>

\* reload: the maps are emptied and the files read, in one turn; a file that
\* cannot be read when its turn comes leaves its map, and those after it, empty.
Reload ==
  \E read \in {{}, {"users"}, {"users", "profiles"}} :
    /\ mapUserProfile' = IF "users" \in read THEN ProfilesByKey(disk) ELSE Nothing
    /\ profiles' = IF "profiles" \in read THEN disk.profiles ELSE [i \in {} |-> {}]
    /\ UNCHANGED <<disk, users>>

\* The component user reloads when astproxy has: later, from the file of then.
ReloadUser ==
  /\ users' = EndpointsByUser(disk)
  /\ UNCHANGED <<disk, mapUserProfile, profiles>>

=============================================================================
