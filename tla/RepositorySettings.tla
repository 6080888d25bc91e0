--------------------------- MODULE RepositorySettings ---------------------------
(***************************************************************************)
(* What a repository's settings make of its reviews: the configuration in  *)
(* force (gateway persistence/in-memory.ts), and the job the orchestrator  *)
(* is asked for with it (webhooks/review-job-request.ts).  `settings` is   *)
(* [override, organization, disabled]: the threshold of the repository and *)
(* of its organization, None where it has not set one, and the agents it   *)
(* has switched off.                                                       *)
(***************************************************************************)
EXTENDS Integers

CONSTANTS PlatformThreshold,   \* PLATFORM_DEFAULT_CONFIDENCE_THRESHOLD
          AgentKinds,          \* AgentKindSchema.options
          None

ASSUME SettingsAssumption == PlatformThreshold \in Int /\ None # PlatformThreshold

(* Mutant: a threshold of zero is none.                                    *)
MFirstThreshold(settings) ==
  IF settings.override \notin {None, 0} THEN settings.override
  ELSE IF settings.organization # None THEN settings.organization
  ELSE PlatformThreshold

(* The repository's threshold, else its organization's, else the default.  *)
FirstThreshold(settings) ==
  IF settings.override # None THEN settings.override
  ELSE IF settings.organization # None THEN settings.organization
  ELSE PlatformThreshold

(* getEffectiveConfig: an agent without a row is enabled.                  *)
EffectiveConfig(settings) ==
  [enabledAgents |-> AgentKinds \ settings.disabled,
   confidenceThreshold |-> FirstThreshold(settings)]

(* No agents, no job: the webhook answers repository_disabled.             *)
Reviewable(config) == config.enabledAgents # {}

BuildReviewJobRequest(config, files, skippedFiles) ==
  [files |-> files, skippedFiles |-> skippedFiles,
   enabledAgents |-> config.enabledAgents,
   confidenceThreshold |-> config.confidenceThreshold]

(* What the report says of the threshold: the request's, which the graph's *)
(* state starts with and thresholdNode copies.                             *)
ReportedThreshold(request) == request.confidenceThreshold
=================================================================================
