---------------------------- MODULE Onboarding ----------------------------
(***************************************************************************)
(* From the start of the program to a session: the configuration is loaded *)
(* (config.ts, with the keys in the OS keychain), or the setup wizard asks *)
(* for one and saves it (SetupScreen.tsx); the user approves a target      *)
(* (TargetSelectionScreen.tsx, audit-target.ts); the app checks it again   *)
(* and opens the session (App.tsx).  Saving is asynchronous and may be     *)
(* asked for more than once; the keychain and the disk may fail; the       *)
(* directory may be replaced; the process may die and be started again.    *)
(***************************************************************************)
EXTENDS Naturals, FiniteSets

CONSTANTS
    Providers, Keyless, Embedding, Compatible, WithUrl,   \* of the catalog; "azure" and "ollama" are known here
    InEnvironment,   \* the providers whose key is (also) in a variable of the environment
    MaxSubmits, MaxFailures, MaxRestarts, MaxReplacements   \* bounds

OnboardingAssumption ==
    /\ {"azure"} \cup Keyless \cup Embedding \cup Compatible \cup WithUrl \cup InEnvironment \subseteq Providers
    /\ "azure" \notin WithUrl
    /\ {MaxSubmits, MaxFailures, MaxRestarts, MaxReplacements} \subseteq Nat

VARIABLES
    screen, step, answers,     \* of the app; of the wizard
    saves, timers, cleanup,    \* saves under way, their stages; timers set; the one an unmount clears
    file, keychain,            \* the configuration on disk; the key of each provider
    config,                    \* the configuration of the app
    directory, shown, target, checked, trusted, opened,   \* identities: at the path, shown, approved, ...
    submits, failures, restarts

wizardVars == <<step, answers, saves, timers, cleanup, submits>>
storeVars == <<file, keychain>>
targetVars == <<directory, shown, target, checked, trusted, opened>>
onboardingVars == <<screen, wizardVars, storeVars, config, targetVars, failures, restarts>>

None == [provider |-> "none"]
Blank == [provider |-> "", key |-> "", endpoint |-> "azure-openai-v1", auth |-> "entra-id", model |-> "",
          effort |-> "default", embedding |-> "cloud", given |-> {}]
Versioned == {"azure-openai-legacy", "model-inference"}
EndpointTypes == Versioned \cup {"azure-openai-v1"}

OptionSteps == {"provider", "azureEndpointType", "azureAuth", "azureCredential", "model", "azureApiMode",
                "azureReasoning", "azureVerbosity", "embedding"}
TextSteps == {"baseUrl", "apiKey", "azureEndpoint", "azureApiVersion", "azureClientId", "azureDeployment",
              "customModel", "azureEmbeddingDeployment", "azureEmbeddingDimension", "license"}

Init ==
    /\ screen = "boot" /\ step = "provider" /\ answers = Blank
    /\ saves = <<>> /\ timers = {} /\ cleanup = 0 /\ submits = 0
    /\ file = None /\ config = None /\ \E k \in {"", "old"} : keychain = [p \in Providers |-> k]
    /\ directory = 1 /\ shown = 0 /\ target = 0 /\ checked = FALSE /\ trusted = {} /\ opened = 0
    /\ failures = 0 /\ restarts = 0

TypeOK ==
    /\ screen \in {"boot", "setup", "target", "initializing", "license-blocked", "shell"}
    /\ step \in OptionSteps \cup TextSteps \cup {"fetching", "done"}
    /\ {answers.provider, config.provider, file.provider} \subseteq Providers \cup {"", "none"}
    /\ \A i \in DOMAIN saves : i \in 1..MaxSubmits /\ saves[i] \in {"key", "write", "writeKey", "load"}
    /\ timers \subseteq 1..MaxSubmits /\ cleanup \in 0..MaxSubmits
    /\ keychain \in [Providers -> {"", "old", "new", "env"}]

Fails == failures < MaxFailures /\ failures' = failures + 1
Works == UNCHANGED failures

-----------------------------------------------------------------------------
\* The wizard: an answer, and the step it leads to.  There is no way back.
Ask(from, to, a) ==
    /\ screen = "setup" /\ step = from /\ step' = to /\ answers' = a
    /\ UNCHANGED <<screen, saves, timers, cleanup, submits, storeVars, config, targetVars, failures, restarts>>
Given(f) == [answers EXCEPT !.given = @ \cup {f}]

handleProviderSelect(p) == Ask("provider",
    IF p = "azure" THEN "azureEndpointType" ELSE IF p \in WithUrl THEN "baseUrl" ELSE "apiKey",
    [answers EXCEPT !.provider = p])
handleBaseUrlSubmit == Ask("baseUrl", "apiKey", Given("baseUrl"))
handleAzureEndpointTypeSelect(t) == Ask("azureEndpointType", "azureEndpoint", [answers EXCEPT !.endpoint = t])

\* The type detected in the URL replaces the one that was selected.
handleAzureEndpointSubmit(t) == Ask("azureEndpoint", IF t \in Versioned THEN "azureApiVersion" ELSE "azureAuth",
    [Given("endpoint") EXCEPT !.endpoint = t])
handleAzureApiVersionSubmit == Ask("azureApiVersion", "azureAuth", Given("apiVersion"))
handleAzureAuthSelect(m) == Ask("azureAuth", IF m = "api-key" THEN "apiKey" ELSE "azureCredential",
    [answers EXCEPT !.auth = m])
handleAzureCredentialSelect(m) ==
    Ask("azureCredential", IF m = "managed-identity" THEN "azureClientId" ELSE "azureDeployment", answers)
handleAzureClientIdSubmit == Ask("azureClientId", "azureDeployment", answers)
handleAzureDeploymentSubmit == Ask("azureDeployment", "model", Given("deployment"))

RequiresApiKey(a) == a.provider \notin Keyless /\ ~(a.provider = "azure" /\ a.auth = "entra-id")

handleApiKeySubmit(k) ==
    /\ k = "" => answers.provider \in Keyless
    /\ Ask("apiKey", IF answers.provider = "azure" THEN "azureDeployment"
                     ELSE IF answers.provider \in Compatible THEN "fetching" ELSE "model",
           [answers EXCEPT !.key = k])
fetchApiModels == \E to \in {"model", "apiKey"} : Ask("fetching", to, answers)

AfterModel == IF answers.provider = "azure" THEN "azureApiMode" ELSE "embedding"
handleModelSelect(m) == Ask("model", IF m = "custom" THEN "customModel" ELSE AfterModel,
                            IF m = "custom" THEN answers ELSE [answers EXCEPT !.model = m])
handleCustomModelSubmit(m) == Ask("customModel", AfterModel, [answers EXCEPT !.model = m])
handleAzureApiModeSelect == Ask("azureApiMode", "azureReasoning", answers)
handleAzureReasoningSelect(e) == Ask("azureReasoning", "azureVerbosity", [answers EXCEPT !.effort = e])
handleAzureVerbositySelect == Ask("azureVerbosity", "embedding", answers)

AfterEmbedding(e) == IF answers.provider = "azure" /\ e = "cloud" THEN "azureEmbeddingDeployment" ELSE "license"
handleEmbeddingSelect(e) ==
    /\ e = "cloud" => answers.provider \in Embedding \cup {"azure"}
    /\ Ask("embedding", AfterEmbedding(e), [answers EXCEPT !.embedding = e])
handleAzureEmbeddingDeploymentSubmit ==
    Ask("azureEmbeddingDeployment", "azureEmbeddingDimension", Given("embeddingDeployment"))
handleAzureEmbeddingDimensionSubmit == Ask("azureEmbeddingDimension", "license", answers)

-----------------------------------------------------------------------------
\* validateConfig: what the endpoint and the model of an Azure configuration need of each other.
validateConfig(a) == a.provider = "azure" =>
    /\ a.endpoint \in Versioned => "apiVersion" \in a.given
    /\ a.model = "gpt-5.6-sol" => a.endpoint # "azure-openai-legacy" /\ a.effort # "minimal"

With(s, i, v) == [j \in DOMAIN s \cup {i} |-> IF j = i THEN v ELSE s[j]]
Without(s, i) == [j \in DOMAIN s \ {i} |-> s[j]]

\* Enter on the license, once more as long as the save has not ended; an invalid configuration is refused.
handleLicenseSubmit ==
    /\ screen = "setup" /\ step = "license" /\ validateConfig(answers)
    /\ submits < MaxSubmits /\ submits' = submits + 1
    /\ saves' = With(saves, submits + 1, IF answers.key # "" /\ answers.provider # "ollama" THEN "key" ELSE "writeKey")
    /\ UNCHANGED <<screen, step, answers, timers, cleanup, storeVars, config, targetVars, failures, restarts>>

\* saveConfig: the key goes to the keychain or, when that fails, into the file.  It also fails when the
\* keychain has the key and cannot be asked for it.
KeyIsStored(stored) == IF stored THEN "write" ELSE "writeKey"
setApiKey(i) ==
    /\ i \in DOMAIN saves /\ saves[i] = "key"
    /\ \/ /\ Works /\ keychain' = [keychain EXCEPT ![answers.provider] = answers.key]
          /\ saves' = With(saves, i, KeyIsStored(TRUE))
       \/ /\ Fails /\ keychain' \in {keychain, [keychain EXCEPT ![answers.provider] = answers.key]}
          /\ saves' = With(saves, i, KeyIsStored(FALSE))
    /\ UNCHANGED <<screen, step, answers, timers, cleanup, submits, file, config, targetVars, restarts>>

WriteFile(i) ==
    /\ i \in DOMAIN saves /\ saves[i] \in {"write", "writeKey"}
    /\ \/ /\ Works /\ file' = IF saves[i] = "write" THEN [answers EXCEPT !.key = ""] ELSE answers
          /\ saves' = With(saves, i, "load")
       \/ Fails /\ UNCHANGED file /\ saves' = Without(saves, i)
    /\ UNCHANGED <<screen, step, answers, timers, cleanup, submits, keychain, config, targetVars, restarts>>

\* getApiKey: of the keychain, if that answers and has one, or of the environment.
getApiKey(p, answered) ==
    IF answered /\ keychain[p] # "" THEN keychain[p] ELSE IF p \in InEnvironment THEN "env" ELSE ""

\* loadConfig, if the keychain answers and if it does not.
loadConfig(answered) ==
    LET key == IF file.key # "" THEN file.key ELSE getApiKey(file.provider, answered)
    IN  IF file = None THEN None
        ELSE IF RequiresApiKey(file) /\ key = "" THEN None ELSE [file EXCEPT !.key = key]

\* The wizard reads what it saved; with it the app goes to the target, a moment later.
Reload(i) ==
    /\ i \in DOMAIN saves /\ saves[i] = "load" /\ saves' = Without(saves, i)
    /\ \E answered \in BOOLEAN : (IF answered THEN Works ELSE Fails) /\
          IF loadConfig(answered) = None THEN UNCHANGED <<config, step, timers, cleanup>>
          ELSE /\ config' = loadConfig(answered) /\ timers' = timers \cup {i} /\ cleanup' = i
               /\ step' = IF screen = "setup" THEN "done" ELSE step
    /\ UNCHANGED <<screen, answers, submits, storeVars, targetVars, restarts>>

\* A screen that goes takes the timer it remembers with it.
GoTo(s) ==
    /\ screen' = s
    /\ cleanup' = IF screen = "setup" THEN 0 ELSE cleanup

TimerFires(i) ==
    /\ i \in timers /\ GoTo("target")
    /\ timers' = timers \ {i, IF screen = "setup" THEN cleanup ELSE 0}
    /\ UNCHANGED <<step, answers, saves, submits, storeVars, config, targetVars, failures, restarts>>

-----------------------------------------------------------------------------
\* handleBootComplete
BootComplete ==
    /\ screen = "boot" /\ GoTo(IF config = None THEN "setup" ELSE "target")
    /\ UNCHANGED <<step, answers, saves, timers, submits, storeVars, config, targetVars, failures, restarts>>

\* The directory is resolved and shown; the approval resolves it again.
selectTarget ==
    /\ screen = "target" /\ shown' = directory
    /\ UNCHANGED <<screen, wizardVars, storeVars, config, directory, target, checked, trusted, opened, failures, restarts>>

SameAsShown == shown = directory
handleTrustSelect ==
    /\ screen = "target" /\ shown # 0 /\ trusted' = trusted \cup {shown}
    /\ IF SameAsShown THEN GoTo("initializing") /\ target' = directory /\ UNCHANGED shown
       ELSE shown' = directory /\ UNCHANGED <<screen, cleanup, target>>
    /\ checked' = FALSE
    /\ UNCHANGED <<step, answers, saves, timers, submits, storeVars, config, directory, opened, failures, restarts>>

Replace ==
    /\ directory <= MaxReplacements /\ directory' = directory + 1
    /\ UNCHANGED <<screen, wizardVars, storeVars, config, shown, target, checked, trusted, opened, failures, restarts>>

\* The app asserts the identity; then, after the license gate, the session does, and is opened.
AppInit ==
    /\ screen = "initializing" /\ ~checked /\ config # None
    /\ IF target = directory THEN checked' = TRUE /\ UNCHANGED <<screen, cleanup>>
       ELSE GoTo("target") /\ UNCHANGED checked
    /\ UNCHANGED <<step, answers, saves, timers, submits, storeVars, config, directory, shown, target, trusted,
                   opened, failures, restarts>>

LicenseBlocks ==
    /\ screen = "initializing" /\ checked /\ GoTo("license-blocked")
    /\ UNCHANGED <<step, answers, saves, timers, submits, storeVars, config, targetVars, failures, restarts>>

initSession ==
    /\ screen = "initializing" /\ checked
    /\ IF target = directory THEN GoTo("shell") /\ opened' = directory ELSE GoTo("target") /\ UNCHANGED opened
    /\ UNCHANGED <<step, answers, saves, timers, submits, storeVars, config, directory, shown, target, checked,
                   trusted, failures, restarts>>

\* The process dies or ends, and is started again.
Restart ==
    /\ restarts < MaxRestarts /\ restarts' = restarts + 1
    /\ \E answered \in BOOLEAN : (IF answered THEN Works ELSE Fails) /\ config' = loadConfig(answered)
    /\ screen' = "boot" /\ step' = "provider" /\ answers' = Blank /\ saves' = <<>> /\ timers' = {} /\ cleanup' = 0
    /\ shown' = 0 /\ target' = 0 /\ checked' = FALSE /\ trusted' = {} /\ opened' = 0
    /\ UNCHANGED <<submits, storeVars, directory>>

Wizard ==
    \/ \E p \in Providers : handleProviderSelect(p)
    \/ handleBaseUrlSubmit
    \/ \E t \in EndpointTypes : handleAzureEndpointTypeSelect(t) \/ handleAzureEndpointSubmit(t)
    \/ handleAzureApiVersionSubmit \/ handleAzureClientIdSubmit \/ handleAzureDeploymentSubmit
    \/ \E m \in {"entra-id", "api-key"} : handleAzureAuthSelect(m)
    \/ \E m \in {"default", "managed-identity"} : handleAzureCredentialSelect(m)
    \/ \E k \in {"", "new"} : handleApiKeySubmit(k)
    \/ fetchApiModels
    \/ \E m \in {"gpt-5.6-sol", "other"} : handleModelSelect(m) \/ handleCustomModelSubmit(m)
    \/ handleModelSelect("custom") \/ handleAzureApiModeSelect \/ handleAzureVerbositySelect
    \/ \E e \in {"default", "minimal"} : handleAzureReasoningSelect(e)
    \/ \E e \in {"cloud", "ollama", "skip"} : handleEmbeddingSelect(e)
    \/ handleAzureEmbeddingDeploymentSubmit \/ handleAzureEmbeddingDimensionSubmit \/ handleLicenseSubmit

Next ==
    \/ Wizard
    \/ \E i \in 1..MaxSubmits : setApiKey(i) \/ WriteFile(i) \/ Reload(i) \/ TimerFires(i)
    \/ BootComplete \/ selectTarget \/ handleTrustSelect \/ Replace \/ AppInit \/ LicenseBlocks \/ initSession
    \/ Restart

Spec == Init /\ [][Next]_onboardingVars

-----------------------------------------------------------------------------
\* A configuration the app works with, from the wizard or from disk, has all that its provider
\* needs: a key, an endpoint, a deployment, and a deployment for embeddings in the cloud.
ConfigIsUsable == config # None =>
    /\ validateConfig(config) /\ config.model # "" /\ (RequiresApiKey(config) => config.key # "")
    /\ config.provider \in WithUrl => "baseUrl" \in config.given
    /\ config.provider = "azure" => {"endpoint", "deployment"} \subseteq config.given
    /\ config.embedding = "cloud" => IF config.provider = "azure" THEN "embeddingDeployment" \in config.given
                                     ELSE config.provider \in Embedding

\* The wizard is done with a configuration.  A provider that needs a key is used with the one the
\* user gave, or with that of the environment while the keychain holds the one the user gave; never
\* with an older one that the keychain still has, also when the keychain refused the new one.
KeyIsTheGiven == step = "done" => config # None /\ (RequiresApiKey(config) =>
    \/ config.key = answers.key
    \/ config.key = "env" /\ keychain[config.provider] = answers.key)

\* A session is opened on the directory that was on the screen when the user approved it.
SessionIsTrusted == opened \in trusted \cup {0}

OnboardingIsSound == ConfigIsUsable /\ KeyIsTheGiven /\ SessionIsTrusted

\* Not so: a save that ends after its screen is gone leaves a timer that takes the app back.
TimersEndWithTheirScreen == screen \in {"initializing", "shell"} => timers = {}
\* Not so: a model that is not compatible with the endpoint is refused at the last step, with no way back.
WizardCanEnd == step = "license" => validateConfig(answers)
\* Not so: the keychain takes the key and then does not answer, and the one in the environment is used.
OnlyTheGiven == step = "done" /\ RequiresApiKey(config) => config.key = answers.key
\* Not so: a provider without a key gets the one that the keychain or the environment has.
NoKeyIsNoKey == step = "done" => config.key = answers.key
=============================================================================
