----------------------------- MODULE MCRunStart ----------------------------
(* Command lines and configuration files, each one step from an ordinary one.  *)
EXTENDS RunStart

File == [policy |-> {}, inject |-> {}, net |-> "allowlist", task |-> "inside", secrets |-> "inside",
         agent |-> "claude-code"]

\* The constant Files.
SomeFiles ==
  {File, [File EXCEPT !.net = "full"], [File EXCEPT !.agent = "none"],
   [File EXCEPT !.inject = {"other"}], [File EXCEPT !.inject = {"api_key"}],
   [File EXCEPT !.net = "unset", !.task = "unset", !.secrets = "unset", !.agent = "none"]}
  \cup {[File EXCEPT !.policy = {p}] :
          p \in {"mitm", "capabilities", "unconfined", "readonly", "passthrough", "repo", "extra_conf"}}
  \cup {[File EXCEPT !.task = p] : p \in {"missing", "absolute", "climbs", "link", "-"}}
  \cup {[File EXCEPT !.secrets = p] : p \in {"unset", "absolute", "link", "missing"}}

\* The constant Commands.  Where the repository is matters when krayt.yaml has the
\* task file.
SomeCommands ==
  {c \in [config : {"found", "named"}, here : BOOLEAN, detach : BOOLEAN,
          task : {"unset", "-", "absolute"}, secrets : {"unset"}, net : {"unset", "none"}] :
     /\ ~c.here => c.task = "unset" /\ c.net = "unset"
     /\ c.net = "none" => c.task = "unset"}
=============================================================================
