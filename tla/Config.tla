------------------------------- MODULE Config -------------------------------
(***************************************************************************)
(* crates/heeler-server/src/config.rs and load_config of main.rs: the      *)
(* layers a configuration is put together from, and its validation.        *)
(*                                                                         *)
(* A configuration is one flat record of the settings that the start-up or *)
(* the validation looks at; those that are only handed on are left out.  A *)
(* layer is a function on some of the keys.  A text is one of a few words, *)
(* and Unusable stands for every text that its parser refuses.  The        *)
(* arithmetic is that of a release build, which wraps.                     *)
(***************************************************************************)
EXTENDS Access

CONSTANTS
  PACKET_SIZE,          \* 48 in the code
  MAX_PACKET_SIZE,      \* 1024
  SHORT_UNIT,           \* 65536, the NTP short format's units of a second
  MILLIS_PER_SECOND,    \* 1000
  WORD32, WORD64,       \* 2^32, 2^64
  Unusable,             \* a text that does not parse
  NotSet,               \* Option::None
  DefaultAllow,         \* the rules 127.0.0.0/8 and ::1/128
  DefaultGlobalBurst    \* 20000

ASSUME ConfigAssumption ==
  /\ {PACKET_SIZE, SHORT_UNIT, MILLIS_PER_SECOND, DefaultGlobalBurst} \subseteq Nat \ {0}
  /\ MAX_PACKET_SIZE \in Nat /\ MAX_PACKET_SIZE >= PACKET_SIZE
  /\ WORD32 \in Nat /\ WORD64 \in Nat /\ WORD32 < WORD64 /\ WORD32 % 2 = 0 /\ WORD64 % 2 = 0
  /\ DefaultAllow \subseteq Rule

\* A socket address: what its IP address is for, and its port.
Address(class, port) == [class |-> class, port |-> port]

(* The Default implementations of the sections *)

ServerSection ==
  [bind |-> <<Address("loopback", 123), Address("loopback", 123)>>,
   workers |-> 1, max_packet_size |-> 512,
   strict_public_bind |-> TRUE, public_bind_acknowledged |-> FALSE]

ProtocolSection ==
  [versions |-> {3, 4}, stratum |-> 2, reference_id |-> "HLER", poll |-> 6, precision |-> NotSet,
   root_delay_ms |-> 0, root_dispersion_ms |-> 5, leap_indicator |-> 0]

ClockSection ==
  [source |-> "system", max_backward_jump_ms |-> 250, max_forward_jump_ms |-> 5000]

AccessSection == [allow |-> DefaultAllow, deny |-> {}, default_action |-> "deny"]

RateLimitSection ==
  [rate_limit_enabled |-> TRUE, requests_per_second |-> 4, burst |-> 8,
   global_requests_per_second |-> 10000, global_burst |-> DefaultGlobalBurst,
   client_entry_ttl_seconds |-> 600, max_client_entries |-> 100000]

LoggingSection == [format |-> "pretty", level |-> "info"]

MetricsSection == [metrics_enabled |-> FALSE, metrics_bind |-> Address("loopback", 9180)]

SecuritySection ==
  [drop_privileges |-> TRUE, user |-> "named", group |-> "named", chroot_dir |-> ""]

\* Two sections, which have no key in common, as one record.
Beside(f, g) ==
  [key \in DOMAIN f \cup DOMAIN g |-> IF key \in DOMAIN f THEN f[key] ELSE g[key]]

Default ==
  Beside(Beside(Beside(ServerSection, ProtocolSection), Beside(ClockSection, AccessSection)),
         Beside(Beside(RateLimitSection, LoggingSection), Beside(MetricsSection, SecuritySection)))

\* A layer over what lies below it.
Over(config, layer) ==
  [key \in DOMAIN config |-> IF key \in DOMAIN layer THEN layer[key] ELSE config[key]]

-----------------------------------------------------------------------------
(* apply_env_overrides.  An empty variable counts as unset. *)

EnvKeys ==
  {"bind", "level", "format", "stratum", "reference_id", "metrics_enabled", "metrics_bind",
   "rate_limit_enabled", "public_bind_acknowledged"}
ParsedEnvKeys == EnvKeys \ {"level", "format", "reference_id"}

EnvIsUsable(env) == \A key \in ParsedEnvKeys \cap DOMAIN env : env[key] # Unusable

\* load_config: the options of serve; a metrics address implies --metrics.
ArgKeys ==
  {"bind", "level", "format", "stratum", "metrics_enabled", "metrics_bind",
   "public_bind_acknowledged"}

\* Mutated form: the implication is forgotten.
WithArgsOnly(config, args) == Over(config, args)

WithArgs(config, args) ==
  [Over(config, args) EXCEPT !.metrics_enabled = @ \/ "metrics_bind" \in DOMAIN args]

-----------------------------------------------------------------------------
(* validate, section by section *)

ServerIsValid(c) ==
  /\ c.bind # <<>>
  /\ c.workers = 1
  /\ c.max_packet_size \in PACKET_SIZE .. MAX_PACKET_SIZE

\* Division of signed integers rounds towards zero.
Quotient(a, b) == IF a >= 0 THEN a \div b ELSE -((-a) \div b)
AsI64(a) == ((a + (WORD64 \div 2)) % WORD64) - (WORD64 \div 2)

FixedPointOutOfRange == NotSet

\* NtpShortSigned::from_millis
ShortSigned(millis) ==
  LET bits == Quotient(AsI64(millis * SHORT_UNIT), MILLIS_PER_SECOND)
  IN  IF bits \in -(WORD32 \div 2) .. (WORD32 \div 2) - 1 THEN bits ELSE FixedPointOutOfRange

\* NtpShortUnsigned::from_millis
ShortUnsigned(millis) ==
  LET bits == ((millis * SHORT_UNIT) % WORD64) \div MILLIS_PER_SECOND
  IN  IF millis >= 0 /\ bits < WORD32 THEN bits ELSE FixedPointOutOfRange

\* Stratum::for_server, ReferenceId::from_config and LeapIndicator::from_config
StratumIsValid(stratum) == stratum \in 1 .. 15
ReferenceIdIsValid(text) == text # Unusable
LeapIsValid(leap) == leap \in 0 .. 3

ProtocolIsValid(c) ==
  /\ c.versions # {} /\ c.versions \subseteq {3, 4}
  /\ StratumIsValid(c.stratum)
  /\ ReferenceIdIsValid(c.reference_id)
  /\ ~(c.stratum = 1 /\ c.reference_id = "HLER")
  /\ LeapIsValid(c.leap_indicator)
  /\ c.poll \in 0 .. 17
  /\ c.precision # NotSet => c.precision \in -30 .. 0
  /\ ShortSigned(c.root_delay_ms) # FixedPointOutOfRange
  /\ ShortUnsigned(c.root_dispersion_ms) # FixedPointOutOfRange

ClockIsValid(c) ==
  /\ c.source = "system"
  /\ c.max_backward_jump_ms > 0 /\ c.max_forward_jump_ms > 0

\* AccessControl::from_rules
AccessIsValid(c) ==
  /\ c.default_action \in {"allow", "deny"}
  /\ Unusable \notin c.allow \cup c.deny

\* Mutated form: the burst is not looked at.
RateLimitIsValidLoosely(c) ==
  c.rate_limit_enabled =>
    c.requests_per_second > 0 /\ c.max_client_entries > 0 /\ c.client_entry_ttl_seconds > 0

RateLimitIsValid(c) ==
  c.rate_limit_enabled =>
    /\ c.requests_per_second > 0 /\ c.burst > 0
    /\ c.max_client_entries > 0
    /\ c.client_entry_ttl_seconds > 0

LoggingIsValid(c) == c.format \in {"pretty", "compact", "json"}

SecurityIsValid(c) == c.drop_privileges => c.user # ""

IsValid(c) ==
  /\ ServerIsValid(c) /\ ProtocolIsValid(c) /\ ClockIsValid(c) /\ AccessIsValid(c)
  /\ RateLimitIsValid(c) /\ LoggingIsValid(c) /\ SecurityIsValid(c)

-----------------------------------------------------------------------------
\* public_bind_addresses: all but loopback, private (or ULA) and link-local ones.
IsPublic(address) == address.class \notin {"loopback", "private", "link_local"}
PublicBindAddresses(c) == {i \in DOMAIN c.bind : IsPublic(c.bind[i])}
=============================================================================
