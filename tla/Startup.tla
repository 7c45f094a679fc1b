------------------------------ MODULE Startup -------------------------------
(***************************************************************************)
(* From the command line to the receive loops: check_config, serve and run *)
(* of crates/heeler-server/src/main.rs, bind_sockets and the first half of *)
(* run_server of server.rs, drop_privileges of privilege.rs.  Every call   *)
(* to the system may fail; the first failure ends the process.             *)
(***************************************************************************)
EXTENDS Config, TokenBucket, Sequences

CONSTANTS
  Inputs,    \* what a process may be started with, and on which host
  NoFile     \* there is no configuration file at the path

Root == 0
FirstFreePort == 1024

\* A low port takes root or CAP_NET_BIND_SERVICE.  Port 0 asks for any free port.
IsLow(port) == 0 < port /\ port < FirstFreePort

\* What a layer may say, as the parsers' types have it, of the settings that are more
\* than looked at.  A rate is a u32; a second's worth of its micro-tokens fits a u64.
LayerIsTyped(layer) ==
  /\ "bind" \in DOMAIN layer => layer.bind \in Seq([class : STRING, port : Nat])
  /\ \A key \in {"requests_per_second", "global_requests_per_second"} \cap DOMAIN layer :
       layer[key] \in Nat /\ layer[key] * MICRO < U64
  /\ \A key \in {"burst", "global_burst"} \cap DOMAIN layer : layer[key] \in Nat
  /\ \A key \in {"allow", "deny"} \cap DOMAIN layer : layer[key] \subseteq Rule \cup {Unusable}

ASSUME StartupAssumption ==
  /\ LayerIsTyped(Default)
  /\ \A i \in Inputs :
       /\ i.command \in {"serve", "check-config"}
       /\ i.path_given \in BOOLEAN
       /\ \/ i.file \in {NoFile, Unusable}
          \/ DOMAIN i.file \subseteq DOMAIN Default /\ LayerIsTyped(i.file)
       /\ DOMAIN i.env \subseteq EnvKeys
       /\ EnvIsUsable(i.env) => LayerIsTyped(i.env)
       /\ DOMAIN i.args \subseteq ArgKeys /\ LayerIsTyped(i.args)
       /\ \A key \in {"metrics_enabled", "public_bind_acknowledged"} \cap DOMAIN i.args : i.args[key]
       /\ i.command = "check-config" => i.args = <<>>
       /\ i.host \in [uid : Nat, primary_gid : Nat, gid : Nat, keeps_capabilities : BOOLEAN,
                       net_bind : BOOLEAN]

VARIABLES
  input,      \* command, path_given, the layers file, env and args, and the host
  config,     \* the configuration as far as it is loaded
  at,         \* where the start-up is
  real, effective, saved,  \* user ids of the process
  net_bind,   \* does it have CAP_NET_BIND_SERVICE?
  group, supplementary,    \* its group id and the set of its further groups
  jailed,     \* has it changed its root directory?
  bound,      \* UDP sockets bound
  receiving,  \* receive loops spawned
  broke,      \* history: did a call to the system fail by itself?
  started_as  \* history: the effective user id at the start

uids == <<real, effective, saved, net_bind>>
stvars == <<input, config, at, real, effective, saved, net_bind, group, supplementary, jailed,
            bound, receiving, broke, started_as>>

Places ==
  {"file", "env", "args", "validate", "logging", "public", "bind", "drop", "resolve", "chroot",
   "chdir", "setgroups", "setgid", "setuid", "verify", "runtime", "clock", "metrics", "spawn",
   "serving", "checked", "failed"}

\* Root has the capability, and others have it if they were given it.
StInit ==
  /\ input \in Inputs
  /\ config = Default
  /\ at = "file"
  /\ \E u \in {Root, 1} : real = u /\ effective = u /\ saved = u /\ started_as = u
  /\ net_bind = (started_as = Root \/ input.host.net_bind)
  /\ group = started_as /\ supplementary = {started_as}
  /\ jailed = FALSE
  /\ bound = 0
  /\ receiving = 0
  /\ broke = FALSE

Then(from, to) == at = from /\ at' = to
Bound == UNCHANGED <<bound, receiving>>
Same == UNCHANGED <<input, config, started_as>>
gids == <<group, supplementary>>
Rights == UNCHANGED <<uids, gids, jailed>>
Loading == UNCHANGED <<input, started_as, broke>> /\ Rights /\ Bound

-----------------------------------------------------------------------------
(* load_config *)

\* The system's file may be missing, one that was asked for may not.
LoadFile ==
  /\ LET missing == input.file = NoFile
         refused == input.file = Unusable \/ (missing /\ input.path_given)
     IN  /\ Then("file", IF refused THEN "failed" ELSE "env")
         /\ config' = IF refused \/ missing THEN config ELSE Over(config, input.file)
  /\ Loading

\* Mutated form: the environment can grant consent but not take it back.
ApplyEnvThatGrants ==
  /\ Then("env", IF EnvIsUsable(input.env) THEN "args" ELSE "failed")
  /\ config' = IF EnvIsUsable(input.env)
               THEN [Over(config, input.env) EXCEPT
                       !.public_bind_acknowledged = @ \/ config.public_bind_acknowledged]
               ELSE config
  /\ Loading

\* The whole start fails when one variable does not parse, so what was applied before it
\* does not matter.
ApplyEnv ==
  /\ Then("env", IF EnvIsUsable(input.env) THEN "args" ELSE "failed")
  /\ config' = IF EnvIsUsable(input.env) THEN Over(config, input.env) ELSE config
  /\ Loading

ApplyArgs ==
  /\ Then("args", "validate")
  /\ config' = WithArgs(config, input.args)
  /\ Loading

-----------------------------------------------------------------------------
(* serve *)

\* Config::validate; check_config ends here.
Validate ==
  /\ Then("validate", IF ~IsValid(config) THEN "failed"
                      ELSE IF input.command = "serve" THEN "logging" ELSE "checked")
  /\ UNCHANGED broke /\ Rights /\ Bound /\ Same

\* init_logging parses the level, which validate does not look at.
InitLogging ==
  /\ Then("logging", IF config.level = Unusable THEN "failed" ELSE "public")
  /\ UNCHANGED broke /\ Rights /\ Bound /\ Same

CheckPublicBind ==
  /\ Then("public", IF PublicBindAddresses(config) # {} /\ config.strict_public_bind
                       /\ ~config.public_bind_acknowledged
                    THEN "failed" ELSE "bind")
  /\ UNCHANGED broke /\ Rights /\ Bound /\ Same

\* bind_socket for one address after the other.
Bind ==
  /\ at = "bind"
  /\ IF IsLow(config.bind[bound + 1].port) /\ ~net_bind
     THEN at' = "failed" /\ UNCHANGED bound
     ELSE /\ bound' = bound + 1
          /\ at' = IF bound' = Len(config.bind) THEN "drop" ELSE "bind"
  /\ UNCHANGED <<receiving, broke>> /\ Rights /\ Same

(* drop_privileges *)

EnterDrop ==
  /\ Then("drop", IF config.drop_privileges /\ effective = Root THEN "resolve" ELSE "runtime")
  /\ UNCHANGED broke /\ Rights /\ Bound /\ Same

\* Names are looked up in /etc, which is not there in the new root directory.
Resolve ==
  /\ Then("resolve", IF input.host.uid = Root \/ ("named" \in {config.user, config.group} /\ jailed) THEN "failed"
                     ELSE IF config.chroot_dir # "" THEN "chroot" ELSE "setgroups")
  /\ UNCHANGED broke /\ Rights /\ Bound /\ Same

\* The group given, or else the one of the user: its own number if that is a number.
Gid ==
  IF config.group # "" THEN input.host.gid
  ELSE IF config.user = "named" THEN input.host.primary_gid ELSE input.host.uid

Chroot ==
  /\ Then("chroot", "chdir")
  /\ jailed' = TRUE
  /\ UNCHANGED <<uids, gids, broke>> /\ Bound /\ Same

Chdir ==
  /\ Then("chdir", "setgroups")
  /\ UNCHANGED broke /\ Rights /\ Bound /\ Same

\* Mutated form: the supplementary groups stay root's.
SetGroupsForgotten ==
  /\ Then("setgroups", "setgid")
  /\ UNCHANGED broke /\ Rights /\ Bound /\ Same

\* Each of these needs root, which EnterDrop has checked; setuid then sets all three ids,
\* and takes root's capabilities away unless the process was told to keep them.
SetGroups ==
  /\ Then("setgroups", "setgid")
  /\ supplementary' = {Gid}
  /\ UNCHANGED <<uids, group, jailed, broke>> /\ Bound /\ Same

SetGid ==
  /\ Then("setgid", "setuid")
  /\ group' = Gid
  /\ UNCHANGED <<uids, supplementary, jailed, broke>> /\ Bound /\ Same

SetUid ==
  /\ Then("setuid", "verify")
  /\ real' = input.host.uid /\ effective' = input.host.uid /\ saved' = input.host.uid
  /\ net_bind' = input.host.keeps_capabilities
  /\ UNCHANGED <<gids, jailed, broke>> /\ Bound /\ Same

\* Mutated form: the result of the last setuid is read the wrong way round.
VerifyDropInverted ==
  /\ LET regained == input.host.keeps_capabilities \/ Root \in {real, saved}
     IN  /\ Then("verify", IF regained THEN "runtime" ELSE "failed")
         /\ effective' = IF regained THEN Root ELSE effective
  /\ UNCHANGED <<real, saved, net_bind, gids, jailed, broke>> /\ Bound /\ Same

\* setuid(0) must fail; it succeeds for a process that kept the capability.
VerifyDrop ==
  /\ LET regained == input.host.keeps_capabilities \/ Root \in {real, saved}
     IN  /\ Then("verify", IF regained THEN "failed" ELSE "runtime")
         /\ effective' = IF regained THEN Root ELSE effective
  /\ UNCHANGED <<real, saved, net_bind, gids, jailed, broke>> /\ Bound /\ Same

(* The runtime, and run *)

BuildRuntime ==
  /\ Then("runtime", "clock")
  /\ UNCHANGED broke /\ Rights /\ Bound /\ Same

ReadFirstClock ==
  /\ Then("clock", IF config.metrics_enabled THEN "metrics" ELSE "spawn")
  /\ UNCHANGED broke /\ Rights /\ Bound /\ Same

BindMetrics ==
  /\ Then("metrics", IF IsLow(config.metrics_bind.port) /\ ~net_bind THEN "failed" ELSE "spawn")
  /\ UNCHANGED broke /\ Rights /\ Bound /\ Same

\* run_server hands one socket after the other to a loop, which receives at once.
SpawnLoop ==
  /\ at = "spawn"
  /\ receiving' = receiving + 1
  /\ at' = IF receiving' = bound THEN "serving" ELSE "spawn"
  /\ UNCHANGED <<bound, broke>> /\ Rights /\ Same

\* A call to the system fails by itself, and the error ends the process.
SystemFails ==
  /\ at \in Places \ {"env", "args", "validate", "public", "drop", "verify", "serving",
                     "checked", "failed"}
  /\ at' = "failed"
  /\ broke' = TRUE
  /\ Rights /\ Bound /\ Same

StNext ==
  \/ LoadFile \/ ApplyEnv \/ ApplyArgs
  \/ Validate \/ InitLogging \/ CheckPublicBind \/ Bind
  \/ EnterDrop \/ Resolve \/ Chroot \/ Chdir \/ SetGroups \/ SetGid \/ SetUid \/ VerifyDrop
  \/ BuildRuntime \/ ReadFirstClock \/ BindMetrics \/ SpawnLoop
  \/ SystemFails

StSpec == StInit /\ [][StNext]_stvars

-----------------------------------------------------------------------------
(* What the operator said, read off the layers without loading them *)

\* The highest layer that gives a key wins: arguments, variables, file, defaults.
Given(key) ==
  LET file == IF input.file = NoFile THEN <<>> ELSE input.file
      layers == <<input.args, input.env, file, Default>>
      highest == Min({i \in DOMAIN layers : key \in DOMAIN layers[i]})
  IN  layers[highest][key]

\* The group to drop to: the one given, or else that of the user, which is the user's own
\* number for a user given by number.
TargetGroup ==
  IF Given("group") # "" THEN input.host.gid
  ELSE IF Given("user") = "named" THEN input.host.primary_gid ELSE input.host.uid

\* Where the operator's last word was to drop privileges and root started the process, no
\* loop ever receives a datagram with a user id of root's, with root's right to low ports,
\* in the old root directory, or with any group but the target's, whichever calls failed
\* on the way.  That is root's group only if the operator named it or chose a user it is
\* the primary group of: user 0 is refused as a target, group 0 is not (drop_privileges).
NoLoopRunsAsRoot ==
  receiving > 0 /\ Given("drop_privileges") /\ started_as = Root =>
    /\ Root \notin {real, effective, saved} /\ ~net_bind
    /\ {group} \cup supplementary = {TargetGroup}
    /\ Given("chroot_dir") # "" => jailed

Consent == ~Given("strict_public_bind") \/ Given("public_bind_acknowledged")

\* No socket is bound, to any address, while the addresses the highest layer lists
\* include a public one and the operator's last word on it is not consent: a refusal in
\* the environment takes back what the file grants, and an argument outweighs both
\* (load_config, apply_env_overrides, serve).
PublicBindNeedsConsent ==
  bound > 0 =>
    /\ config.bind = Given("bind")
    /\ (\E i \in DOMAIN Given("bind") : IsPublic(Given("bind")[i])) => Consent

\* The order of the steps costs no start that could have worked: unless the system
\* fails, a start fails only for a reason in what the operator said or in who starts it.
\* Low ports take root or CAP_NET_BIND_SERVICE.  Root can bind low UDP ports and still
\* drop its privileges, into a new root directory and to a user given by name; only a low
\* port of the metrics listener, which is bound after the drop, cannot be had together
\* with it.  A variable that does not parse stops
\* the start even where an argument outweighs it.
StartFailsForAReason ==
  LET drops == config.drop_privileges /\ started_as = Root
      unprivileged == started_as # Root /\ ~input.host.net_bind
  IN  at = "failed" /\ ~broke =>
        \/ input.file = Unusable \/ (input.file = NoFile /\ input.path_given)
        \/ \E key \in DOMAIN input.env : input.env[key] = Unusable
        \/ ~IsValid(config)
        \/ Given("level") = Unusable
        \/ ~Consent /\ \E i \in DOMAIN config.bind : IsPublic(config.bind[i])
        \/ unprivileged /\ \E i \in DOMAIN config.bind : IsLow(config.bind[i].port)
        \/ drops /\ (input.host.uid = Root \/ input.host.keeps_capabilities)
        \/ /\ config.metrics_enabled /\ IsLow(config.metrics_bind.port)
           /\ drops \/ unprivileged

\* Neither a metrics listener nor a claim to be a primary server comes about unasked,
\* whichever layers the settings come from (load_config, validate).  The listener is on
\* the address of the operator's last word, and an address among the arguments asks for it
\* even against the other layers; stratum 1 goes with the name of another source.
OnlyOnRequest ==
  /\ at = "metrics" => /\ config.metrics_bind = Given("metrics_bind")
                       /\ Given("metrics_enabled") \/ "metrics_bind" \in DOMAIN input.args
  /\ receiving > 0 /\ "metrics_bind" \in DOMAIN input.args => config.metrics_enabled
  /\ receiving > 0 /\ Given("stratum") = 1 => Given("reference_id") # Default.reference_id

\* The bucket yields a request after a second, however empty it was.
Recovers(rate, size) ==
  \A rest \in 0 .. size * MICRO :
    TakeSucceeds([micro_tokens |-> rest, last_refill |-> 0], rate, size, Second)

\* A configuration that validate accepts shuts nobody out for good: a request fits into
\* the buffer, is of a version that is served, and finds a token in the client's bucket
\* after a second at most.  The global bucket has one too, except when it has a rate and
\* no burst, which validate lets pass and which then refuses every request.
RequestsCanPass ==
  receiving > 0 =>
    /\ PACKET_SIZE <= config.max_packet_size
    /\ config.versions \cap {3, 4} # {}
    /\ config.rate_limit_enabled =>
         /\ Recovers(config.requests_per_second, config.burst)
         /\ config.global_requests_per_second > 0 =>
              (Recovers(config.global_requests_per_second, config.global_burst)
                 <=> config.global_burst > 0)

-----------------------------------------------------------------------------
(* Which sources the table of an accepted configuration refuses *)

DeniedBy(c, ip) == Denied(c.allow, c.deny, c.default_action = "allow", ip)

\* The precedence the module documents, stated without lengths being compared by their
\* maximum: a source is refused exactly if a deny rule matches it that no matching allow
\* rule is more specific than, or if nothing matches and the default is to refuse.
Precedence ==
  at = "checked" =>
    \A ip \in IpAddr :
      LET matching(rules) == {n \in Nets(rules) : Contains(n, Canonical(ip))}
      IN  DeniedBy(config, ip) <=>
            \/ \E d \in matching(config.deny) : \A a \in matching(config.allow) : a.len <= d.len
            \/ /\ matching(config.allow) \cup matching(config.deny) = {}
               /\ config.default_action = "deny"

\* Adding a deny rule to a table lets nobody in, and adding an allow rule keeps nobody
\* out (evaluate).
RulesAreMonotone ==
  at = "checked" =>
    \A ip \in IpAddr, r \in config.allow \cup config.deny :
      /\ DeniedBy([config EXCEPT !.deny = @ \ {r}], ip) => DeniedBy(config, ip)
      /\ DeniedBy(config, ip) => DeniedBy([config EXCEPT !.allow = @ \ {r}], ip)

\* What the module's comment says: an exact-address deny always beats any allow.
ExactDenyWins ==
  at = "checked" =>
    \A ip \in IpAddr :
      [family |-> ip.family, bits |-> ip.bits, len |-> Width[ip.family]] \in Nets(config.deny) =>
        ((\E a \in Nets(config.allow) : Contains(a, Canonical(ip))) => DeniedBy(config, ip))

\* What from_millis promises: "exact integer arithmetic", truncated toward zero.
ShortIsExact ==
  at = "checked" =>
    /\ ShortSigned(config.root_delay_ms) =
         Quotient(config.root_delay_ms * SHORT_UNIT, MILLIS_PER_SECOND)
    /\ ShortUnsigned(config.root_dispersion_ms) =
         (config.root_dispersion_ms * SHORT_UNIT) \div MILLIS_PER_SECOND
=============================================================================
