----------------------------- MODULE HostPolicy -----------------------------
(* The network policy of a run: which host entries krayt accepts             *)
(* (validateHostPattern), how two entries relate (coversPattern and          *)
(* patternsOverlap), the checks made before a sandbox exists                 *)
(* (ValidateNetworkPolicyForMsb), and the rules handed to msb (NetworkArgs).  *)
(*                                                                           *)
(* A host is a sequence of labels.  An entry keeps the parts of its spelling  *)
(* that the code looks at: blanks around it, where a `*' stands, letter case,  *)
(* and what the rest is (a name, an address, or something no request host     *)
(* can be).                                                                   *)
EXTENDS Naturals, Sequences, FiniteSets, SequencesExt, Calculation

CONSTANTS
  Label,    \* the labels of names
  Hosts,    \* the hosts a guest may name
  Entries,  \* the entries a policy may hold
  Policies  \* the policies

Host(labels) == [labels |-> labels, place |-> "public"]

Entry(star, labels) ==
  [star |-> star, labels |-> labels, body |-> "name", padded |-> FALSE, upper |-> FALSE]

Places == {"public", "private", "loopback", "link-local", "meta", "multicast", "host", "dns"}

\* Each name of an entry is a host, and so is one directly under it, and some
\* name has one label.  An address and a name are never spelled alike.
HostPolicyAssumption ==
  /\ Hosts \subseteq [labels : Seq(Label), place : Places]
  /\ \E x \in Label : Host(<<x>>) \in Hosts
  /\ Entries \subseteq [star : {"none", "leading", "inner", "bare"}, labels : Seq(Label),
                        body : {"name", "ip4", "ip6"}, padded : BOOLEAN, upper : BOOLEAN]
  /\ \A e \in Entries :
       e.body = "name" /\ e.labels # << >> =>
         /\ Host(e.labels) \in Hosts
         /\ \E x \in Label : Host(<<x>> \o e.labels) \in Hosts
  /\ \A e, f \in Entries : e.labels = f.labels /\ e.labels # << >> => e.body = f.body
  /\ \A np \in Policies :
       /\ np.allow \subseteq Entries /\ IsFiniteSet(np.allow)
       /\ np.passthrough \subseteq Entries
       /\ \A i \in DOMAIN np.secrets : np.secrets[i].hosts \subseteq Entries

EntriesInput  == [of : {"entries"}, a : Entries, b : Entries]
PolicyInput(keysets) == [of : {"policy"}, np : Policies, keys : keysets]

-----------------------------------------------------------------------------
(* What an entry is. *)

\* lower(): trims and folds ASCII case; it decides nothing about acceptance.
Lower(p) == [p EXCEPT !.upper = FALSE, !.padded = FALSE]

\* validateHostEntry: an exact host that some request host can equal.
ValidHostEntry(p) ==
  /\ p.star = "none"
  /\ \/ p.body = "name" /\ p.labels # << >>
     \/ p.body \in {"ip4", "ip6"}

\* validateHostPattern: an exact host, or one leading wildcard over a DNS
\* suffix of at least two labels; blanks are refused, never trimmed.
ValidHostPattern(p) ==
  /\ ~p.padded
  /\ CASE p.star = "none" -> ValidHostEntry(p)
       [] p.star = "leading" -> /\ ValidHostEntry([p EXCEPT !.star = "none"])
                                /\ p.body = "name"
                                /\ Len(p.labels) >= 2
       [] OTHER -> FALSE                  \* "*", "a.*.b", "*.*.b"

\* msb's matchers, on the text as given: only a leading "*." is a wildcard, a
\* bare "*" of a secret scope is any host, and a text that is not a host
\* matches nothing.
MsbMatches(p, h) ==
  \/ p.star = "bare"
  \/ /\ ~p.padded /\ p.body = "name"
     /\ \/ p.star = "leading" /\ IsSuffix(p.labels, h.labels)
        \/ p.star = "none" /\ p.labels = h.labels

-----------------------------------------------------------------------------
(* How entries relate. *)

HostCovers(pattern, labels) ==
  LET p == Lower(pattern) IN
    IF p.star = "leading" THEN IsSuffix(p.labels, labels) ELSE p.labels = labels

\* a subsumes every host b could match: an exact host never covers a wildcard.
CoversPattern(a, b) ==
  /\ Lower(b).star = "leading" => Lower(a).star = "leading"
  /\ HostCovers(a, Lower(b).labels)

PatternsOverlap_OneWay(a, b) == CoversPattern(a, b)
PatternsOverlap(a, b) == CoversPattern(a, b) \/ CoversPattern(b, a)

AnyCovers(patterns, p) == \E entry \in patterns : CoversPattern(entry, p)

AnyOverlaps(patterns, p) == \E entry \in patterns : PatternsOverlap(entry, p)

-----------------------------------------------------------------------------
(* The checks before a run.  policy: mode, mitm, allow and passthrough (sets  *)
(* of entries), secrets (a sequence of [key, hosts]).  keys: the names in the *)
(* secrets file, or "nofile".                                                 *)

\* SecretSpecsFromConfig: one entry per key, and none without hosts.
SecretSpecsOK(secrets) ==
  /\ \A i, j \in DOMAIN secrets : secrets[i].key = secrets[j].key => i = j
  /\ \A i \in DOMAIN secrets : secrets[i].hosts # {}

\* MergeSecretSpecs: a key the user scoped keeps the user's hosts.
MergeSecretSpecs(user, adapter) ==
  user \o SelectSeq(adapter, LAMBDA s : \A i \in DOMAIN user : user[i].key # s.key)

ValidateNetworkPolicy(np) ==
  /\ \A h \in np.allow \cup np.passthrough : ValidHostPattern(h)
  /\ np.mode = "allowlist" => \A h \in np.passthrough : AnyCovers(np.allow, h)

SecretHostOK(np, h) ==
  /\ ValidHostPattern(h)
  /\ np.mode = "allowlist" => AnyCovers(np.allow, h)
  /\ ~AnyOverlaps(np.passthrough, h)

ValidateNetworkPolicyForMsb(np, keys) ==
  /\ ~np.mitm
  /\ SecretSpecsOK(np.secrets)
  /\ keys = {"nofile"} => np.secrets = << >>
  /\ \A i \in DOMAIN np.secrets :
       /\ \A h \in np.secrets[i].hosts : SecretHostOK(np, h)
       /\ np.secrets[i].key \in keys
  /\ keys # {"nofile"} =>
       \A k \in keys : \E i \in DOMAIN np.secrets : np.secrets[i].key = k
  /\ ValidateNetworkPolicy(np)

-----------------------------------------------------------------------------
(* The rules msb is given, and what msb makes of them. *)

DenyGroups == <<"private", "loopback", "link-local", "meta", "multicast", "host">>

Group(act, place) == [act |-> act, on |-> "group", dest |-> place]

AllowDNSArgs == <<Group("allow", "dns")>>

DenyGroupArgs == [i \in DOMAIN DenyGroups |-> Group("deny", DenyGroups[i])]

NetworkArgs_AllowFirst(np) ==
  LET allowed == SetToSeq({[act |-> "allow", on |-> "host", dest |-> p] : p \in np.allow})
  IN [ok |-> np.mode \in {"none", "full", "allowlist"},
      default |-> IF np.mode = "full" THEN "allow" ELSE "deny",
      rules |-> CASE np.mode = "full" -> AllowDNSArgs \o DenyGroupArgs
                  [] np.mode = "allowlist" -> AllowDNSArgs \o allowed \o DenyGroupArgs
                  [] OTHER -> << >>,
      bypass |-> np.passthrough, intercept |-> np.secrets # << >>]

\* NetworkArgs: the default action, the rules in order, the hosts tunneled
\* uninspected, and whether TLS is intercepted; an unknown mode is an error.
NetworkArgs(np) ==
  LET rules == CASE np.mode = "none" -> << >>
                 [] np.mode = "full" -> AllowDNSArgs \o DenyGroupArgs
                 [] np.mode = "allowlist" ->
                      AllowDNSArgs \o DenyGroupArgs
                        \o SetToSeq({[act |-> "allow", on |-> "host", dest |-> p] : p \in np.allow})
                 [] OTHER -> << >>
  IN [ok |-> np.mode \in {"none", "full", "allowlist"},
      default |-> IF np.mode = "full" THEN "allow" ELSE "deny",
      rules |-> rules, bypass |-> np.passthrough, intercept |-> np.secrets # << >>]

\* msb takes the first rule that names a connection's destination.  The
\* gateway that resolves names is itself a private address.
RuleNames(rule, h) ==
  \/ rule.on = "host" /\ MsbMatches(rule.dest, h)
  \/ rule.on = "group" /\ \/ rule.dest = h.place
                          \/ rule.dest = "private" /\ h.place = "dns"

Egress(args, h) ==
  LET naming == {i \in DOMAIN args.rules : RuleNames(args.rules[i], h)} IN
    IF naming = {} THEN args.default
    ELSE args.rules[CHOOSE i \in naming : \A j \in naming : i <= j].act

\* msb substitutes a secret on the way to h: the connection is permitted and
\* inspected.
Substituted(args, h) ==
  /\ Egress(args, h) = "allow"
  /\ args.intercept
  /\ \A p \in args.bypass : ~MsbMatches(p, h)

-----------------------------------------------------------------------------
(* What the checks are for. *)

Public == {h \in Hosts : h.place = "public"}

\* (RelationsExact) Of two accepted entries covers is inclusion, and overlap
\* intersection, of the hosts msb lets them match; and no accepted entry matches
\* nothing or everything. (validateHostPattern, coversPattern, patternsOverlap.)
RelationsExact ==
  input.of = "entries" =>
    LET a == input.a
        b == input.b
    IN ValidHostPattern(a) /\ ValidHostPattern(b) /\ a.body = "name" /\ b.body = "name" =>
         /\ CoversPattern(a, b) <=> \A h \in Hosts : MsbMatches(b, h) => MsbMatches(a, h)
         /\ PatternsOverlap(a, b) <=> \E h \in Hosts : MsbMatches(a, h) /\ MsbMatches(b, h)
         /\ \E g, h \in Hosts : MsbMatches(a, g) /\ ~MsbMatches(a, h)

\* (PolicyHolds) Whatever passes the checks before a run does what it says once
\* msb has it as rules: each secret is substituted at every public host of its
\* scope, nothing gets out in mode none, no address of a denied group is reached
\* under an allowed name, and names resolve. (ValidateNetworkPolicyForMsb,
\* NetworkArgs.)
PolicyHolds ==
  input.of = "policy" =>
    LET np   == input.np
        args == NetworkArgs(np)
    IN ValidateNetworkPolicyForMsb(np, input.keys) /\ args.ok =>
         /\ np.mode = "none" => \A h \in Hosts : Egress(args, h) = "deny"
         /\ np.mode # "none" =>
              /\ \A i \in DOMAIN np.secrets : \A p \in np.secrets[i].hosts :
                   \A h \in Public : MsbMatches(p, h) => Substituted(args, h)
              /\ \A h \in Hosts : h.place \in Range(DenyGroups) => Egress(args, h) = "deny"
              /\ \A h \in Hosts : h.place = "dns" => Egress(args, h) = "allow"
=============================================================================
