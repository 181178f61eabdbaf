---------------------------- MODULE ModelService ----------------------------
(***************************************************************************)
(* What the runtime knows of models: the profiles and models a release     *)
(* offers (provider-profiles.ts, model-profile.ts), the stored default     *)
(* selection, the API keys in the operating system's keyring, the binding  *)
(* a task is created with, and the handles that hold a key for one task or *)
(* one probe (ModelService, model-runtime.ts).                             *)
(*                                                                         *)
(* A release pins one version of the PI SDK and, with it, one catalogue:   *)
(* its number stands for PI_SDK_VERSION.  A selection determines the       *)
(* provider and the API, and whether it was the default or an override is  *)
(* a column nothing reads, so a binding is a selection and a release.      *)
(***************************************************************************)
EXTENDS Naturals

CONSTANTS Profiles,      \* profile ids
          Models,        \* model ids
          Catalog,       \* release -> profile -> the models listed
          DefaultModel,  \* profile -> its defaultModelId
          FirstProfile,  \* the profile of DEFAULT_MODEL_SELECTION
          Secrets,       \* API keys
          Owners,        \* who may hold a handle
          None

Releases == DOMAIN Catalog
Selections == [profile : Profiles, model : Models]

(* modelsFor refuses a catalogue that misses a default model.              *)
ASSUME CatalogAssumption ==
  /\ Releases \subseteq Nat
  /\ Catalog \in [Releases -> [Profiles -> SUBSET Models]]
  /\ DefaultModel \in [Profiles -> Models]
  /\ FirstProfile \in Profiles
  /\ \A v \in Releases, p \in Profiles : DefaultModel[p] \in Catalog[v][p]
  /\ None \notin Secrets \cup Selections

VARIABLES
  release,     \* the release installed
  preference,  \* the row of model_preferences, or None
  keyring,     \* profile -> the key stored for it, or None
  handle       \* owner -> its model handle, or None

serviceVars == <<release, preference, keyring, handle>>

(* key: the key is in the handle's runtime; stuck: its removal failed, and *)
(* dispose, which is memoised, fails again each time it is called.         *)
Handles == [selection : Selections, sdk : Releases, secret : Secrets,
            key : BOOLEAN, stuck : BOOLEAN]

ServiceTypeOK ==
  /\ release \in Releases
  /\ preference \in Selections \cup {None}
  /\ keyring \in [Profiles -> Secrets \cup {None}]
  /\ handle \in [Owners -> Handles \cup {None}]

ServiceInit ==
  /\ release \in Releases
  /\ preference = None
  /\ keyring = [p \in Profiles |-> None]
  /\ handle = [o \in Owners |-> None]

----------------------------------------------------------------------------
(* assertModelSelectionAvailable and resolveNoNeedWorkModelIdentity.       *)
Available(s) == s.model \in Catalog[release][s.profile]

Fallback == [profile |-> FirstProfile, model |-> DefaultModel[FirstProfile]]

(* getDefaultSelection; it throws when the stored model is not offered any *)
(* longer, whatever it is asked for.                                       *)
DefaultSelection == IF preference = None THEN Fallback ELSE preference
DefaultUsable == Available(DefaultSelection)

(* resolveTaskSelection: a task's override, or the default for None.       *)
Chosen(override) == IF override = None THEN DefaultSelection ELSE override

(* The model probe asks for: the default of the profile, unless the        *)
(* default selection is of this profile.                                   *)
ProbeSelection(p) ==
  IF DefaultSelection.profile = p
  THEN DefaultSelection
  ELSE [profile |-> p, model |-> DefaultModel[p]]

BindingFor(s) == [selection |-> s, sdk |-> release]

----------------------------------------------------------------------------
(* The synchronous half of createHandle for a binding: what it throws.     *)
(* The keyring may always refuse to be read, or hold a corrupt envelope.   *)
Refusals(b) ==
  IF b = None THEN {"MODEL_BINDING_MISSING"}
  ELSE IF b.sdk # release THEN {"MODEL_UNAVAILABLE"}
  ELSE IF ~Available(b.selection) THEN {"error"}
  ELSE IF keyring[b.selection.profile] = None THEN {"error", "MODEL_CREDENTIAL_MISSING"}
  ELSE {"error"}

(* Mutated form of Identity: the default at the time, not the binding.     *)
IdentityOfDefault(b) == DefaultSelection

Identity(b) == b.selection

Openable(b) ==
  b # None /\ b.sdk = release /\ Available(b.selection) /\ keyring[b.selection.profile] # None

NewHandle(s) ==
  [selection |-> s, sdk |-> release, secret |-> keyring[s.profile],
   key |-> FALSE, stuck |-> FALSE]

Installed(o) == [handle EXCEPT ![o].key = TRUE]

(* removeRuntimeApiKey after the model was not found; an error is ignored, *)
(* and nobody holds the handle.                                            *)
Forgotten(o) == [handle EXCEPT ![o] = None]

(* Mutated form of Disposals: dispose leaves the key where it is.          *)
DisposalsKeepingKey(o) == {handle}

(* The outcomes of dispose: the key is removed, or the removal fails.      *)
Disposals(o) ==
  IF handle[o] = None THEN {handle}
  ELSE IF handle[o].stuck THEN {handle}
  ELSE {[handle EXCEPT ![o] = None], [handle EXCEPT ![o].stuck = TRUE]}

HasKey(o) == handle[o] # None /\ handle[o].key

----------------------------------------------------------------------------
(* PUT /v1/models/selection.                                               *)
SetDefault ==
  /\ \E s \in Selections : Available(s) /\ preference' = s
  /\ UNCHANGED <<release, keyring, handle>>

(* PUT and DELETE /v1/models/credentials/:profileId; deleting what is not  *)
(* there is no error.                                                      *)
SetCredential ==
  /\ \E p \in Profiles, k \in Secrets : keyring' = [keyring EXCEPT ![p] = k]
  /\ UNCHANGED <<release, preference, handle>>

DeleteCredential ==
  /\ \E p \in Profiles : keyring' = [keyring EXCEPT ![p] = None]
  /\ UNCHANGED <<release, preference, handle>>

ServiceRequest == SetDefault \/ SetCredential \/ DeleteCredential

----------------------------------------------------------------------------
(* The failures classifyNoNeedWorkProviderFailure tells apart, by status,  *)
(* by code and by the words of the message; "aborted" matches no pattern.  *)
Failures == {"401", "402", "404", "429", "5xx", "malformed", "aborted"}

ByStatus(e) ==
  CASE e = "401" -> "MODEL_AUTH_REJECTED"
    [] e = "402" -> "MODEL_QUOTA_EXHAUSTED"
    [] e = "404" -> "MODEL_UNAVAILABLE"
    [] e = "429" -> "MODEL_RATE_LIMITED"
    [] e = "5xx" -> "MODEL_TEMPORARILY_UNAVAILABLE"
    [] OTHER     -> "MODEL_PROTOCOL_ERROR"

Classify(e, output) == IF output THEN "UNKNOWN_MODEL_OUTCOME" ELSE ByStatus(e)

Reasons == {Classify(e, o) : e \in Failures, o \in BOOLEAN}
             \cup {"MODEL_BINDING_MISSING", "MODEL_CREDENTIAL_MISSING"}

(* createModelBlock.                                                       *)
Recoverable(reason) == reason # "MODEL_PROTOCOL_ERROR"
=============================================================================
