------------------------------ MODULE RunStart ------------------------------
(* `krayt run' before the run: runRun resolves krayt.yaml, the flags, the     *)
(* prompt, the secrets file and the adapter, and either goes on itself or,    *)
(* with --detach, leaves all of it to a child.  The child is the same command *)
(* with the same arguments, and reads each file again, which may have changed.*)
EXTENDS Naturals, FiniteSets

CONSTANTS
  Files,     \* what krayt.yaml may say; all "unset" is as good as no file
  Commands   \* command lines: the flags, how krayt.yaml is found, --detach

VARIABLES
  cmdline,  \* the command line
  stray,    \* KRAYT_TASK_FILE is set in the operator's shell
  file,     \* krayt.yaml as it is
  stdin,    \* the prompt on the command's standard input
  task,     \* the prompt in the task file as it is
  keys,     \* the names in the secrets file as it is
  who,      \* who is at work: the command, its child, or nobody any more
  spool,    \* the prompt kept for the child
  plan      \* what the run was started with: none or one

launchVars == <<cmdline, stray, file, stdin, task, keys, who, spool, plan>>

Keys    == {"api_key", "token", "other"}
Prompts == {"empty", "asked", "edited", "stray"}
Refused == {"mitm", "capabilities", "unconfined", "readonly"}
Policy  == Refused \cup {"passthrough", "repo", "extra_conf"}
Paths   == {"unset", "inside", "missing", "absolute", "climbs", "link"}
Modes   == {"unset", "none", "allowlist", "full"}

RunStartAssumption ==
  /\ Files \subseteq [policy : SUBSET Policy, inject : SUBSET Keys, net : Modes, task : Paths \cup {"-"},
                      secrets : Paths, agent : {"claude-code", "none"}]
  /\ Commands \subseteq [config : {"found", "named"}, here : BOOLEAN, detach : BOOLEAN,
                         task : Paths \cup {"-"}, secrets : Paths, net : Modes]

LaunchTypeOK ==
  /\ cmdline \in Commands /\ file \in Files
  /\ {stdin, task} \subseteq Prompts /\ spool \in Prompts \cup {"none"}
  /\ keys \subseteq Keys /\ stray \in BOOLEAN
  /\ who \in {"command", "child", "refused", "started"}
  /\ Cardinality(plan) = IF who = "started" THEN 1 ELSE 0

LaunchInit ==
  /\ cmdline \in Commands /\ stray \in BOOLEAN /\ file \in Files
  /\ stdin \in {"empty", "asked"} /\ task \in {"empty", "asked"}
  /\ keys \in {{}, {"api_key"}, {"api_key", "token"}, {"api_key", "other"}}
  /\ who = "command" /\ spool = "none" /\ plan = {}

-----------------------------------------------------------------------------
(* applyConfig: what the flags leave open comes from krayt.yaml. *)

\* Found in the repository, not named with --config.
AutoLoaded == cmdline.config = "found"

Overlay(f) ==
  IF cmdline[f] # "unset" THEN [val |-> cmdline[f], by |-> "flag"]
  ELSE [val |-> file[f], by |-> "file"]

AutoLoadable_CommandOnly ==
  who = "command" => file.policy \subseteq {"readonly"} /\ file.inject = {} /\ file.net # "full"

\* rejectAutoLoadedPolicy.  A read-only root only tightens, so it is let through
\* here; msb cannot do it (Validated).
AutoLoadable == file.policy \subseteq {"readonly"} /\ file.inject = {} /\ file.net # "full"

\* containedRepoPath: no absolute path, no way out with .. or through a link.  A
\* file that is not there is let through, and so is "-", a file name like others.
Contained(f) == Overlay(f).by = "file" => file[f] \in {"unset", "inside", "missing", "-"}

FileAccepted == AutoLoaded => AutoLoadable /\ Contained("task") /\ Contained("secrets")

-----------------------------------------------------------------------------
(* What is read: the prompt and the names in the secrets file. *)

\* taskFile is "-", which is standard input.  A found krayt.yaml names a file of the
\* repository, whose root goes before it; but when the repository is ".", as it is
\* by default, "-" stays "-".
OnStdin ==
  Overlay("task").val = "-" /\ (Overlay("task").by = "flag" \/ ~AutoLoaded \/ cmdline.here)

ReadTaskPrompt_AnySpool ==
  IF spool # "none" THEN spool
  ELSE IF stray THEN "stray"
  ELSE IF OnStdin THEN IF who = "child" THEN "empty" ELSE stdin
  ELSE task

\* readTaskPrompt: the child's environment is the command's, with the spool if
\* there is one; a stray file counts in the child only.
ReadTaskPrompt ==
  IF who = "child" /\ spool # "none" THEN spool
  ELSE IF who = "child" /\ stray THEN "stray"
  ELSE IF OnStdin THEN IF who = "child" THEN "empty" ELSE stdin
  ELSE task

Readable(f) == Overlay(f).val # "missing"

\* loadSecretKeySet
SecretKeys == IF Overlay("secrets").val = "unset" THEN {} ELSE keys

-----------------------------------------------------------------------------
(* The adapter: its credential and the scopes of all secrets. *)

AuthKeys == IF file.agent = "claude-code" THEN {"api_key", "token"} ELSE {}

ExactlyOne_First == file.agent = "none" \/ SecretKeys \cap AuthKeys # {}

\* exactlyOne
ExactlyOne == file.agent = "none" \/ Cardinality(SecretKeys \cap AuthKeys) = 1

\* mergeAdapterSecrets: a key the operator scoped keeps that scope.
Scopes ==
  [k \in file.inject \cup (SecretKeys \cap AuthKeys) |->
     IF k \in file.inject THEN "operator" ELSE "adapter"]

\* ValidateContainerPolicyForMsb and ValidateNetworkPolicyForMsb: what msb cannot
\* do is refused, and secrets and scopes must name each other.
Validated == file.policy \cap Refused = {} /\ DOMAIN Scopes = SecretKeys

-----------------------------------------------------------------------------
(* The two processes. *)

\* The host's memory and disk are measured here, unless the check is skipped.
Resolves ==
  /\ FileAccepted
  /\ Overlay("task").val # "unset" /\ Readable("task") /\ Readable("secrets")
  /\ ReadTaskPrompt # "empty"
  /\ ExactlyOne /\ Validated

Plan ==
  [task |-> Overlay("task"), secrets |-> Overlay("secrets"), net |-> Overlay("net"),
   policy |-> file.policy, scopes |-> Scopes, prompt |-> ReadTaskPrompt]

Refuse ==
  /\ who \in {"command", "child"}
  /\ who' = "refused"
  /\ UNCHANGED <<cmdline, stray, file, stdin, task, keys, spool, plan>>

\* spoolTaskPrompt and spawnDetachedRun
Detach ==
  /\ who = "command" /\ cmdline.detach /\ Resolves
  /\ who' = "child"
  /\ spool' = IF OnStdin THEN stdin ELSE "none"
  /\ UNCHANGED <<cmdline, stray, file, stdin, task, keys, plan>>

\* Manager.Run
Start ==
  /\ who = "child" \/ (who = "command" /\ ~cmdline.detach)
  /\ Resolves
  /\ who' = "started" /\ plan' = {Plan}
  /\ UNCHANGED <<cmdline, stray, file, stdin, task, keys, spool>>

\* While the child starts, anybody may go on working in the repository.
Change ==
  /\ who = "child"
  /\ \/ file' \in Files /\ UNCHANGED <<task, keys>>
     \/ task' \in {"empty", "edited"} /\ UNCHANGED <<file, keys>>
     \/ keys' \in {{}, {"api_key", "token"}} /\ UNCHANGED <<file, task>>
  /\ UNCHANGED <<cmdline, stray, stdin, who, spool, plan>>

LaunchNext == Refuse \/ Detach \/ Start \/ Change

LaunchSpec == LaunchInit /\ [][LaunchNext]_launchVars

-----------------------------------------------------------------------------
(* Properties. *)

\* A krayt.yaml that was only found in the repository, also one that came there
\* after the operator's command had checked another, decides nothing about
\* policy, where secrets may go or which host file is read: it names files of the
\* repository, or the operator's own standard input.  A flag beats any file.
OperatorDecides ==
  \A p \in plan :
    /\ AutoLoaded =>
         /\ p.policy = {} /\ \A k \in DOMAIN p.scopes : p.scopes[k] = "adapter"
         /\ p.net.val = "full" => p.net.by = "flag"
         /\ p.task.by = "file" => p.task.val \in {"inside", "-"}
         /\ p.secrets.by = "file" => p.secrets.val \in {"unset", "inside"}
    /\ \A f \in {"task", "secrets", "net"} : cmdline[f] # "unset" => p[f].val = cmdline[f]

\* No run starts without a prompt.  It is what came on standard input, whole, or
\* the task file's; but for the child that was given no spool, of which
\* PromptNotHijacked speaks.
PromptIsTheOperators ==
  \A p \in plan :
    /\ p.prompt # "empty"
    /\ ~stray \/ ~cmdline.detach \/ spool # "none" =>
         p.prompt = IF spool # "none" \/ OnStdin THEN stdin ELSE task

\* Violated.  run.go says that a stray KRAYT_TASK_FILE in a user's shell cannot
\* hijack --task.
PromptNotHijacked ==
  \A p \in plan : cmdline.task # "unset" => p.prompt # "stray"

\* A run has exactly one credential its agent knows, and each name in the secrets
\* file is bound to hosts by the operator or by the adapter.
OneCredential ==
  \A p \in plan :
    /\ \A k, j \in DOMAIN p.scopes \cap {"api_key", "token"} :
         file.agent = "claude-code" => k = j
    /\ file.agent = "claude-code" => DOMAIN p.scopes \cap {"api_key", "token"} # {}
    /\ p.secrets.val # "unset" => DOMAIN p.scopes = keys
=============================================================================
