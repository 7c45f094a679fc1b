--------------------------- MODULE StartupProofs ---------------------------
(***************************************************************************)
(* Proofs about Startup, for every set of inputs: what the layers come to, *)
(* the order in which privileges go, and the access table that an accepted *)
(* configuration describes.                                                *)
(***************************************************************************)
EXTENDS Startup, WellFoundedInduction, TLAPS

-----------------------------------------------------------------------------
(* Least and greatest numbers *)

\* Every set of naturals that is not empty has a least element.
LEMMA LeastNatural ==
  ASSUME NEW T \in SUBSET Nat, T # {}
  PROVE  \E x \in T : \A y \in T : x <= y
<1> DEFINE Less == {p \in Nat \X Nat : p[1] < p[2]}
<1>1. IsWellFoundedOn(Less, Nat)
  BY NatLessThanWellFounded, Zenon DEF OpToRel
<1>2. PICK x \in T : \A y \in T : <<y, x>> \notin Less
  BY <1>1, WFMin, Zenon
<1>3. ASSUME NEW y \in T
      PROVE  x <= y
  <2>1. <<y, x>> \notin Less /\ x \in Nat /\ y \in Nat
    BY <1>2, Zenon
  <2> QED
    BY <2>1
<1> QED
  BY <1>3, Zenon

\* Min is the least element where there is one (Given).
LEMMA MinIs ==
  ASSUME NEW S \in SUBSET Int, NEW m \in S, \A y \in S : m <= y
  PROVE  Min(S) = m
<1>1. \A x \in S : (\A y \in S : x <= y) => x = m
  OBVIOUS
<1> QED
  BY <1>1, Zenon DEF Min

\* Max is an element that no other exceeds, in a set of numbers with a bound
\* (longest_match).
LEMMA MaxIs ==
  ASSUME NEW S \in SUBSET Int, S # {}, NEW bound_above \in Int, \A y \in S : y <= bound_above
  PROVE  Max(S) \in S /\ \A y \in S : y <= Max(S)
<1> DEFINE T == {n \in Nat : bound_above - n \in S}
<1>1. PICK s \in S : TRUE
  BY Zenon
<1>2. bound_above - s \in T
  OBVIOUS
<1>3. PICK t \in T : \A u \in T : t <= u
  BY <1>2, LeastNatural, Zenon
<1>4. ASSUME NEW y \in S
      PROVE  y <= bound_above - t
  <2>1. bound_above - y \in T
    OBVIOUS
  <2>2. t <= bound_above - y
    BY <2>1, <1>3, Zenon
  <2> QED
    BY <2>2
<1>5. bound_above - t \in S
  BY Zenon
<1>6. \E x \in S : \A y \in S : x >= y
  BY <1>4, <1>5, Zenon
<1>7. Max(S) \in S /\ \A y \in S : Max(S) >= y
  BY <1>6, Zenon DEF Max
<1> QED
  BY <1>7, Zenon

-----------------------------------------------------------------------------
(* The layers *)

\* The keys of two sections put together, and what they say.
LEMMA BesideIs ==
  ASSUME NEW f, NEW g
  PROVE  /\ DOMAIN Beside(f, g) = DOMAIN f \cup DOMAIN g
         /\ \A key \in DOMAIN f : Beside(f, g)[key] = f[key]
         /\ \A key \in DOMAIN g \ DOMAIN f : Beside(f, g)[key] = g[key]
BY Zenon DEF Beside

\* The settings that the start-up looks at are all there, and the default name of the
\* time source is the one that stratum 1 may not go with.
LEMMA DefaultKeys ==
  /\ {"bind", "strict_public_bind", "public_bind_acknowledged", "stratum", "reference_id",
      "allow", "deny", "default_action", "requests_per_second", "burst",
      "global_requests_per_second", "global_burst", "level", "metrics_enabled",
      "metrics_bind", "drop_privileges", "user", "group", "chroot_dir"} \subseteq DOMAIN Default
  /\ Default.reference_id = "HLER"
<1> DEFINE a == Beside(ServerSection, ProtocolSection)
           b == Beside(ClockSection, AccessSection)
           c == Beside(RateLimitSection, LoggingSection)
           d == Beside(MetricsSection, SecuritySection)
           ab == Beside(a, b)
           cd == Beside(c, d)
<1>1. /\ DOMAIN ServerSection = {"bind", "workers", "max_packet_size", "strict_public_bind",
                                 "public_bind_acknowledged"}
      /\ DOMAIN ProtocolSection = {"versions", "stratum", "reference_id", "poll", "precision",
                                   "root_delay_ms", "root_dispersion_ms", "leap_indicator"}
      /\ ProtocolSection["reference_id"] = "HLER"
  BY Zenon DEF ServerSection, ProtocolSection
<1>2. DOMAIN AccessSection = {"allow", "deny", "default_action"}
  BY Zenon DEF AccessSection
<1>3. /\ DOMAIN RateLimitSection = {"rate_limit_enabled", "requests_per_second", "burst",
                                    "global_requests_per_second", "global_burst",
                                    "client_entry_ttl_seconds", "max_client_entries"}
      /\ DOMAIN LoggingSection = {"format", "level"}
  BY DEF RateLimitSection, LoggingSection
<1>4. /\ DOMAIN MetricsSection = {"metrics_enabled", "metrics_bind"}
      /\ DOMAIN SecuritySection = {"drop_privileges", "user", "group", "chroot_dir"}
  BY Zenon DEF MetricsSection, SecuritySection
<1>5. /\ DOMAIN a = DOMAIN ServerSection \cup DOMAIN ProtocolSection
      /\ a["reference_id"] = "HLER"
  <2>1. "reference_id" \in DOMAIN ProtocolSection \ DOMAIN ServerSection
    BY <1>1, Zenon
  <2>2. DOMAIN a = DOMAIN ServerSection \cup DOMAIN ProtocolSection
    BY BesideIs, Zenon
  <2>3. \A key \in DOMAIN ProtocolSection \ DOMAIN ServerSection : a[key] = ProtocolSection[key]
    BY BesideIs, Zenon
  <2> HIDE DEF a
  <2>4. a["reference_id"] = ProtocolSection["reference_id"]
    BY <2>1, <2>3, Zenon
  <2> QED
    BY <1>1, <2>2, <2>4, Zenon
<1>6. DOMAIN b = DOMAIN ClockSection \cup DOMAIN AccessSection
  BY BesideIs, Zenon
<1>7. DOMAIN c = DOMAIN RateLimitSection \cup DOMAIN LoggingSection
  BY BesideIs, Zenon
<1>8. DOMAIN d = DOMAIN MetricsSection \cup DOMAIN SecuritySection
  BY BesideIs, Zenon
<1> HIDE DEF a, b, c, d
<1>9. /\ DOMAIN ab = DOMAIN a \cup DOMAIN b
      /\ ab["reference_id"] = a["reference_id"]
  <2>1. "reference_id" \in DOMAIN a
    BY <1>1, <1>5, Zenon
  <2>2. DOMAIN ab = DOMAIN a \cup DOMAIN b
    BY BesideIs, Zenon
  <2>3. ab["reference_id"] = a["reference_id"]
    BY <2>1, BesideIs, Zenon
  <2> QED
    BY <2>2, <2>3, Zenon
<1>10. DOMAIN cd = DOMAIN c \cup DOMAIN d
  BY BesideIs, Zenon
<1> HIDE DEF ab, cd
<1>11. Default = Beside(ab, cd)
  BY Zenon DEF Default, a, b, c, d, ab, cd
<1>12. /\ DOMAIN Default = DOMAIN ab \cup DOMAIN cd
       /\ Default["reference_id"] = ab["reference_id"]
  <2>1. "reference_id" \in DOMAIN ab
    BY <1>1, <1>5, <1>9, Zenon
  <2>2. DOMAIN Beside(ab, cd) = DOMAIN ab \cup DOMAIN cd
    BY BesideIs, Zenon
  <2>3. Beside(ab, cd)["reference_id"] = ab["reference_id"]
    BY <2>1, BesideIs, Zenon
  <2> QED
    BY <1>11, <2>2, <2>3, Zenon
<1>13. DOMAIN ServerSection \cup DOMAIN ProtocolSection \subseteq DOMAIN Default
  BY <1>5, <1>9, <1>12, Zenon
<1>14. DOMAIN AccessSection \subseteq DOMAIN Default
  BY <1>6, <1>9, <1>12, Zenon
<1>15. DOMAIN RateLimitSection \cup DOMAIN LoggingSection \subseteq DOMAIN Default
  BY <1>7, <1>10, <1>12, Zenon
<1>16. DOMAIN MetricsSection \cup DOMAIN SecuritySection \subseteq DOMAIN Default
  BY <1>8, <1>10, <1>12, Zenon
<1>17. Default.reference_id = "HLER"
  BY <1>5, <1>9, <1>12, Zenon
<1> QED
  BY <1>1, <1>2, <1>3, <1>4, <1>13, <1>14, <1>15, <1>16, <1>17, Zenon

\* A layer over another keeps its keys and has the last word on each.
LEMMA OverIs ==
  ASSUME NEW c, NEW layer
  PROVE  /\ DOMAIN Over(c, layer) = DOMAIN c
         /\ \A key \in DOMAIN c :
              Over(c, layer)[key] = IF key \in DOMAIN layer THEN layer[key] ELSE c[key]
BY Zenon DEF Over

\* A layer of the right types over another gives a configuration of the right types.
LEMMA OverIsTyped ==
  ASSUME NEW c, NEW layer, LayerIsTyped(c), LayerIsTyped(layer)
  PROVE  LayerIsTyped(Over(c, layer))
<1> DEFINE o == Over(c, layer)
<1>1. /\ DOMAIN o = DOMAIN c
      /\ \A key \in DOMAIN c : o[key] = IF key \in DOMAIN layer THEN layer[key] ELSE c[key]
  BY OverIs, Zenon
<1> HIDE DEF o
<1>2. "bind" \in DOMAIN o => o.bind \in Seq([class : STRING, port : Nat])
  BY <1>1, Zenon DEF LayerIsTyped
<1>3. \A key \in {"requests_per_second", "global_requests_per_second"} \cap DOMAIN o :
        o[key] \in Nat /\ o[key] * MICRO < U64
  BY <1>1, Zenon DEF LayerIsTyped
<1>4. \A key \in {"burst", "global_burst"} \cap DOMAIN o : o[key] \in Nat
  BY <1>1, Zenon DEF LayerIsTyped
<1>5. \A key \in {"allow", "deny"} \cap DOMAIN o : o[key] \subseteq Rule \cup {Unusable}
  BY <1>1, Zenon DEF LayerIsTyped
<1>6. LayerIsTyped(o)
  BY <1>2, <1>3, <1>4, <1>5, Zenon DEF LayerIsTyped
<1> QED
  BY <1>6, Zenon DEF o

\* The arguments have the last word; an address for the metrics also switches them on.
LEMMA WithArgsIs ==
  ASSUME NEW c, NEW args, DOMAIN c = DOMAIN Default
  PROVE  /\ DOMAIN WithArgs(c, args) = DOMAIN c
         /\ \A key \in DOMAIN c \ {"metrics_enabled"} : WithArgs(c, args)[key] = Over(c, args)[key]
         /\ WithArgs(c, args).metrics_enabled =
              (Over(c, args).metrics_enabled \/ "metrics_bind" \in DOMAIN args)
<1> DEFINE o == Over(c, args)
           asked == o.metrics_enabled \/ "metrics_bind" \in DOMAIN args
<1>1. DOMAIN o = DOMAIN c /\ "metrics_enabled" \in DOMAIN o
  BY OverIs, DefaultKeys, Zenon
<1>2. WithArgs(c, args) = [o EXCEPT !.metrics_enabled = asked]
  BY Zenon DEF WithArgs
<1> HIDE DEF o, asked
<1>3. /\ DOMAIN [o EXCEPT !.metrics_enabled = asked] = DOMAIN o
      /\ \A key \in DOMAIN o \ {"metrics_enabled"} : [o EXCEPT !.metrics_enabled = asked][key] = o[key]
      /\ [o EXCEPT !.metrics_enabled = asked].metrics_enabled = asked
  BY <1>1, Zenon
<1> QED
  BY <1>1, <1>2, <1>3, Zenon DEF o, asked

\* So they do in a configuration of the right types.
LEMMA WithArgsIsTyped ==
  ASSUME NEW c, NEW args, DOMAIN c = DOMAIN Default, LayerIsTyped(c), LayerIsTyped(args)
  PROVE  LayerIsTyped(WithArgs(c, args))
<1> DEFINE w == WithArgs(c, args)
           o == Over(c, args)
<1>1. LayerIsTyped(o)
  BY OverIsTyped, Zenon
<1>2. DOMAIN o = DOMAIN c
  BY OverIs, Zenon
<1>3. DOMAIN w = DOMAIN c /\ \A key \in DOMAIN c \ {"metrics_enabled"} : w[key] = o[key]
  BY WithArgsIs, Zenon
<1> HIDE DEF w, o
<1>4. LayerIsTyped(w)
  BY <1>1, <1>2, <1>3, Zenon DEF LayerIsTyped
<1> QED
  BY <1>4, Zenon DEF w

\* What the layers from the file down, and from the environment down, say.
FileLayer == IF input.file = NoFile THEN <<>> ELSE input.file
FromFile(key) == IF key \in DOMAIN FileLayer THEN FileLayer[key] ELSE Default[key]
FromEnv(key) == IF key \in DOMAIN input.env THEN input.env[key] ELSE FromFile(key)

\* The highest layer that gives a key wins: Given, which picks it by its number, is what
\* the layers come to when they are laid one over the other as load_config does.
LEMMA GivenIs ==
  ASSUME NEW key \in DOMAIN Default
  PROVE  Given(key) = IF key \in DOMAIN input.args THEN input.args[key] ELSE FromEnv(key)
<1> DEFINE layers == <<input.args, input.env, FileLayer, Default>>
           having == {i \in DOMAIN layers : key \in DOMAIN layers[i]}
<1>1. Given(key) = layers[Min(having)][key]
  BY Zenon DEF Given, FileLayer
<1>2. /\ DOMAIN layers = 1 .. 4
      /\ layers[1] = input.args /\ layers[2] = input.env /\ layers[3] = FileLayer
      /\ layers[4] = Default
  OBVIOUS
<1> HIDE DEF layers
<1>3. having \in SUBSET Int /\ \A i \in having : i \in 1 .. 4 /\ key \in DOMAIN layers[i]
  BY <1>2
<1>4. CASE key \in DOMAIN input.args
  <2>1. 1 \in having /\ \A i \in having : 1 <= i
    BY <1>2, <1>3, <1>4
  <2>2. Min(having) = 1
    BY <1>3, <2>1, MinIs, Zenon
  <2> QED
    BY <1>1, <1>2, <1>4, <2>2, Zenon
<1>5. CASE key \notin DOMAIN input.args /\ key \in DOMAIN input.env
  <2>1. 2 \in having /\ \A i \in having : 2 <= i
    BY <1>2, <1>3, <1>5
  <2>2. Min(having) = 2
    BY <1>3, <2>1, MinIs, Zenon
  <2> QED
    BY <1>1, <1>2, <1>5, <2>2, Zenon DEF FromEnv
<1>6. CASE /\ key \notin DOMAIN input.args /\ key \notin DOMAIN input.env
           /\ key \in DOMAIN FileLayer
  <2>1. 3 \in having /\ \A i \in having : 3 <= i
    BY <1>2, <1>3, <1>6
  <2>2. Min(having) = 3
    BY <1>3, <2>1, MinIs, Zenon
  <2> QED
    BY <1>1, <1>2, <1>6, <2>2, Zenon DEF FromEnv, FromFile
<1>7. CASE /\ key \notin DOMAIN input.args /\ key \notin DOMAIN input.env
           /\ key \notin DOMAIN FileLayer
  <2>1. 4 \in having /\ \A i \in having : 4 <= i
    BY <1>2, <1>3, <1>7
  <2>2. Min(having) = 4
    BY <1>3, <2>1, MinIs, Zenon
  <2> QED
    BY <1>1, <1>2, <1>7, <2>2, Zenon DEF FromEnv, FromFile
<1> QED
  BY <1>4, <1>5, <1>6, <1>7, Zenon

-----------------------------------------------------------------------------
(* Loading, and what is checked before a socket is bound *)

\* The configuration is what the operator said.
Loaded ==
  /\ \A key \in DOMAIN Default \ {"metrics_enabled"} : config[key] = Given(key)
  /\ config.metrics_enabled = (Given("metrics_enabled") \/ "metrics_bind" \in DOMAIN input.args)

\* No public address without consent, in the settings of the configuration.
Agreed ==
  ~(PublicBindAddresses(config) # {} /\ config.strict_public_bind
      /\ ~config.public_bind_acknowledged)

Reading == {"file", "env", "args"}
Checking == {"validate", "logging", "public"}
Ends == {"checked", "failed"}
Bounding == {"bind"}
AllBound == Places \ (Reading \cup Checking \cup Bounding \cup Ends)

\* How far loading and checking are at each place, and that sockets and loops come after.
LoadHolds ==
  /\ input \in Inputs
  /\ at \in Places
  /\ bound \in Nat /\ receiving \in Nat
  /\ DOMAIN config = DOMAIN Default /\ LayerIsTyped(config)
  /\ at = "file" => config = Default
  /\ at = "env" => \A key \in DOMAIN Default : config[key] = FromFile(key)
  /\ at = "args" => \A key \in DOMAIN Default : config[key] = FromEnv(key)
  /\ at \in Checking \cup Bounding \cup AllBound \cup {"checked"} => Loaded
  /\ at \in (Checking \ {"validate"}) \cup Bounding \cup AllBound \cup {"checked"} => IsValid(config)
  /\ at \in Bounding \cup AllBound => Agreed
  /\ at \in Reading \cup Checking => bound = 0
  /\ at \in Reading \cup Checking \cup Bounding => receiving = 0
  /\ at \in Bounding => bound < Len(config.bind)
  /\ at \in AllBound => bound = Len(config.bind) /\ bound > 0
  /\ bound > 0 => Loaded /\ Agreed /\ IsValid(config)
  /\ receiving > 0 => bound > 0

\* What the assumption says of the input of one process.
LEMMA InputIs ==
  ASSUME input \in Inputs
  PROVE  /\ input.file \in {NoFile, Unusable} \/ LayerIsTyped(input.file)
         /\ EnvIsUsable(input.env) => LayerIsTyped(input.env)
         /\ LayerIsTyped(input.args)
BY StartupAssumption, Zenon

\* Nothing that only concerns what was said and what was loaded changes when neither does.
LEMMA SettingsAreKept ==
  ASSUME UNCHANGED <<input, config>>
  PROVE  /\ Loaded => Loaded'
         /\ Agreed => Agreed'
         /\ IsValid(config) => IsValid(config)'
         /\ LayerIsTyped(config) => LayerIsTyped(config)'
         /\ \A key : Given(key)' = Given(key)
<1>1. \A key : Given(key)' = Given(key)
  BY Zenon DEF Given
<1>2. Loaded => Loaded'
  BY <1>1, Zenon DEF Loaded
<1>3. Agreed => Agreed'
  BY Zenon DEF Agreed, PublicBindAddresses
<1>4. IsValid(config) => IsValid(config)'
  BY Zenon
<1>5. LayerIsTyped(config) => LayerIsTyped(config)'
  BY Zenon
<1> QED
  BY <1>1, <1>2, <1>3, <1>4, <1>5, Zenon

\* The list of addresses is a sequence, and the file's layer is typed.
LEMMA BindIsASequence ==
  ASSUME LoadHolds
  PROVE  config.bind \in Seq([class : STRING, port : Nat]) /\ Len(config.bind) \in Nat
<1>1. config.bind \in Seq([class : STRING, port : Nat])
  BY DefaultKeys, Zenon DEF LoadHolds, LayerIsTyped
<1> QED
  BY <1>1

\* A process that has not loaded anything has its defaults.
LEMMA LoadInit ==
  ASSUME StInit
  PROVE  LoadHolds
<1>1. LayerIsTyped(Default)
  BY StartupAssumption, Zenon
<1> QED
  BY <1>1 DEF StInit, LoadHolds, Places, Reading, Checking, Bounding, AllBound, Ends

\* Reading the file and the environment and the arguments lays one over the other, and
\* nothing is bound meanwhile (load_config).
LEMMA ReadingKeepsLoad ==
  ASSUME LoadHolds, LoadFile \/ ApplyEnv \/ ApplyArgs
  PROVE  LoadHolds'
<1> USE DEF Places, Reading, Checking, Bounding, AllBound, Ends
<1>1. /\ UNCHANGED <<input, bound, receiving>> /\ input \in Inputs
      /\ at \in Reading /\ bound = 0 /\ receiving = 0
      /\ DOMAIN config = DOMAIN Default /\ LayerIsTyped(config)
  BY Zenon DEF LoadHolds, LoadFile, ApplyEnv, ApplyArgs, Loading, Bound, Then
<1>2. /\ UNCHANGED FileLayer
      /\ \A key : FromFile(key)' = FromFile(key) /\ FromEnv(key)' = FromEnv(key)
  BY <1>1, Zenon DEF FileLayer, FromFile, FromEnv
<1>3. \A key : Given(key)' = Given(key)
  BY <1>1, Zenon DEF Given
<1>4. CASE LoadFile /\ at' = "failed"
  <2>1. config' = config
    <3>1. at = "file" /\ (input.file = Unusable \/ (input.file = NoFile /\ input.path_given))
      BY <1>4, Zenon DEF LoadFile, Then
    <3> QED
      BY <1>4, <3>1, Zenon DEF LoadFile
  <2> QED
    BY <1>1, <1>4, <2>1 DEF LoadHolds
<1>5. CASE LoadFile /\ at' = "env"
  <2>1. at = "file" /\ config = Default /\ input.file # Unusable
    BY <1>5, Zenon DEF LoadFile, Then, LoadHolds
  <2>2. /\ DOMAIN config' = DOMAIN Default
        /\ LayerIsTyped(config')
        /\ \A key \in DOMAIN Default : config'[key] = FromFile(key)
    <3>1. CASE input.file = NoFile
      <4>1. config' = config /\ DOMAIN FileLayer = {}
        BY <3>1, <1>5 DEF LoadFile, FileLayer
      <4> QED
        BY <4>1, <2>1, <1>1, Zenon DEF FromFile
    <3>2. CASE input.file # NoFile
      <4>1. config' = Over(config, input.file) /\ FileLayer = input.file
        BY <3>2, <2>1, <1>5, Zenon DEF LoadFile, FileLayer
      <4>2. LayerIsTyped(input.file)
        BY <3>2, <2>1, <1>1, InputIs, Zenon
      <4>3. LayerIsTyped(config')
        BY <4>1, <4>2, <1>1, OverIsTyped, Zenon
      <4>4. /\ DOMAIN config' = DOMAIN config
            /\ \A key \in DOMAIN config :
                 config'[key] = IF key \in DOMAIN FileLayer THEN FileLayer[key] ELSE config[key]
        BY <4>1, OverIs
      <4> QED
        BY <4>3, <4>4, <2>1, Zenon DEF FromFile
    <3> QED
      BY <3>1, <3>2, Zenon
  <2> QED
    BY <1>1, <1>2, <1>5, <2>2 DEF LoadHolds
<1>6. CASE ApplyEnv /\ ~EnvIsUsable(input.env)
  <2>1. config' = config /\ at' = "failed"
    BY <1>6, Zenon DEF ApplyEnv, Then
  <2> QED
    BY <1>1, <2>1 DEF LoadHolds
<1>7. CASE ApplyEnv /\ EnvIsUsable(input.env)
  <2>1. at = "env" /\ at' = "args" /\ config' = Over(config, input.env)
    BY <1>7, Zenon DEF ApplyEnv, Then
  <2>2. \A key \in DOMAIN Default : config[key] = FromFile(key)
    BY <2>1, Zenon DEF LoadHolds
  <2>3. LayerIsTyped(config')
    BY <1>1, <1>7, <2>1, InputIs, OverIsTyped, Zenon
  <2>4. /\ DOMAIN config' = DOMAIN config
        /\ \A key \in DOMAIN config :
             config'[key] = IF key \in DOMAIN input.env THEN input.env[key] ELSE config[key]
    BY <2>1, OverIs
  <2>5. \A key \in DOMAIN Default : config'[key] = FromEnv(key)
    BY <1>1, <2>2, <2>4, Zenon DEF FromEnv
  <2> QED
    BY <1>1, <1>2, <2>1, <2>3, <2>4, <2>5 DEF LoadHolds
<1>8. CASE ApplyArgs
  <2>1. at = "args" /\ at' = "validate" /\ config' = WithArgs(config, input.args)
    BY <1>8, Zenon DEF ApplyArgs, Then
  <2>2. \A key \in DOMAIN Default : config[key] = FromEnv(key)
    BY <2>1, Zenon DEF LoadHolds
  <2>3. LayerIsTyped(config')
    BY <1>1, <2>1, InputIs, WithArgsIsTyped, Zenon
  <2>4. \A key \in DOMAIN Default : Over(config, input.args)[key] = Given(key)
    BY <1>1, <2>2, OverIs, GivenIs
  <2>5. DOMAIN config' = DOMAIN config
    BY <1>1, <2>1, WithArgsIs, Zenon
  <2>6. \A key \in DOMAIN Default \ {"metrics_enabled"} : config'[key] = Given(key)
    BY <1>1, <2>1, <2>4, WithArgsIs
  <2>7. config'.metrics_enabled =
          (Over(config, input.args).metrics_enabled \/ "metrics_bind" \in DOMAIN input.args)
    BY <1>1, <2>1, WithArgsIs, Zenon
  <2>8. Over(config, input.args).metrics_enabled = Given("metrics_enabled")
    BY <2>4, DefaultKeys, Zenon
  <2>9. Loaded'
    BY <1>1, <1>3, <2>6, <2>7, <2>8, Zenon DEF Loaded
  <2> QED
    BY <1>1, <2>1, <2>3, <2>5, <2>9 DEF LoadHolds
<1> QED
  BY <1>4, <1>5, <1>6, <1>7, <1>8, Zenon DEF LoadFile, Then

\* Every step after that leaves what is loaded alone.
Later ==
  \/ Validate \/ InitLogging \/ CheckPublicBind \/ Bind
  \/ EnterDrop \/ Resolve \/ Chroot \/ Chdir \/ SetGroups \/ SetGid \/ SetUid \/ VerifyDrop
  \/ BuildRuntime \/ ReadFirstClock \/ BindMetrics \/ SpawnLoop
  \/ SystemFails

\* The later steps do not touch the configuration (serve).
LEMMA LaterIsSame ==
  ASSUME Later
  PROVE  UNCHANGED <<input, config, started_as>>
BY Zenon DEF Later, Validate, InitLogging, CheckPublicBind, Bind, EnterDrop, Resolve, Chroot, Chdir,
  SetGroups, SetGid, SetUid, VerifyDrop, BuildRuntime, ReadFirstClock, BindMetrics, SpawnLoop,
  SystemFails, Same

\* The steps between the last socket and the first loop.
Between ==
  \/ EnterDrop \/ Resolve \/ Chroot \/ Chdir \/ SetGroups \/ SetGid \/ SetUid \/ VerifyDrop
  \/ BuildRuntime \/ ReadFirstClock \/ BindMetrics

\* They neither bind nor spawn, and end among themselves, at the loops or in failure.
LEMMA BetweenIs ==
  ASSUME Between
  PROVE  /\ UNCHANGED <<bound, receiving>>
         /\ at \in AllBound /\ at' \in AllBound \cup {"failed"}
<1> USE DEF Places, Reading, Checking, Bounding, AllBound, Ends, Then, Bound
<1>1. CASE EnterDrop \/ Resolve \/ Chroot \/ Chdir
  BY <1>1, Zenon DEF EnterDrop, Resolve, Chroot, Chdir
<1>2. CASE SetGroups \/ SetGid \/ SetUid \/ VerifyDrop
  BY <1>2, Zenon DEF SetGroups, SetGid, SetUid, VerifyDrop
<1>3. CASE BuildRuntime \/ ReadFirstClock \/ BindMetrics
  BY <1>3, Zenon DEF BuildRuntime, ReadFirstClock, BindMetrics
<1> QED
  BY <1>1, <1>2, <1>3, Zenon DEF Between

\* LoadHolds is kept by every step.
LEMMA LoadStep ==
  ASSUME LoadHolds, [StNext]_stvars
  PROVE  LoadHolds'
<1> DEFINE Settled == Loaded /\ Agreed /\ IsValid(config)
<1>1. CASE LoadFile \/ ApplyEnv \/ ApplyArgs
  BY <1>1, ReadingKeepsLoad, Zenon
<1>2. ASSUME UNCHANGED <<input, config>>
      PROVE  /\ input' \in Inputs
             /\ DOMAIN config' = DOMAIN Default
             /\ LayerIsTyped(config)'
             /\ config'.bind = config.bind
             /\ Loaded => Loaded'
             /\ Agreed => Agreed'
             /\ IsValid(config) => IsValid(config)'
             /\ Settled => Settled'
  BY <1>2, SettingsAreKept, Zenon DEF LoadHolds
<1>3. ASSUME Later
      PROVE  LoadHolds'
  <2>1. UNCHANGED <<input, config>>
    BY <1>3, LaterIsSame, Zenon
  <2>2. Len(config.bind) \in Nat /\ config.bind \in Seq([class : STRING, port : Nat])
    BY BindIsASequence, Zenon
  <2> USE DEF Places, Reading, Checking, Bounding, AllBound, Ends
  <2>3. CASE Validate
    <3>1. CASE ~IsValid(config)
      BY <1>2, <2>1, <2>3, <3>1, Zenon DEF Validate, Then, Bound, LoadHolds
    <3>2. CASE IsValid(config)
      BY <1>2, <2>1, <2>3, <3>2, Zenon DEF Validate, Then, Bound, LoadHolds
    <3> QED
      BY <3>1, <3>2, Zenon
  <2>4. CASE InitLogging
    BY <1>2, <2>1, <2>4, Zenon DEF InitLogging, Then, Bound, LoadHolds
  <2>5. CASE CheckPublicBind
    <3>1. at = "public" /\ at' = IF ~Agreed THEN "failed" ELSE "bind"
      BY <2>5, Zenon DEF CheckPublicBind, Then, Agreed
    <3>2. UNCHANGED <<bound, receiving>>
      BY <2>5, Zenon DEF CheckPublicBind, Bound
    <3>3. IsValid(config) /\ bound = 0 /\ receiving = 0 /\ Loaded
      BY <3>1, Zenon DEF LoadHolds
    <3>4. config.bind # <<>>
      BY <3>3, Zenon DEF IsValid, ServerIsValid
    <3>5. 0 < Len(config.bind)
      BY <2>2, <3>4
    <3> QED
      BY <1>2, <2>1, <3>1, <3>2, <3>3, <3>5, Zenon DEF LoadHolds
  <2>6. CASE Bind
    <3>1. /\ at = "bind" /\ UNCHANGED receiving
          /\ \/ at' = "failed" /\ UNCHANGED bound
             \/ bound' = bound + 1 /\ at' = IF bound' = Len(config.bind) THEN "drop" ELSE "bind"
      BY <2>6, Zenon DEF Bind
    <3>2. /\ Loaded /\ Agreed /\ IsValid(config) /\ bound \in Nat /\ bound < Len(config.bind)
          /\ receiving = 0
      BY <3>1, Zenon DEF LoadHolds
    <3> QED
      BY <1>2, <2>1, <2>2, <3>1, <3>2 DEF LoadHolds
  <2>7. CASE Between
    BY <1>2, <2>1, <2>7, BetweenIs, Zenon DEF LoadHolds
  <2>8. CASE SpawnLoop
    <3>1. /\ at = "spawn" /\ at' \in {"spawn", "serving"} /\ UNCHANGED bound
          /\ receiving' = receiving + 1
      BY <2>8, Zenon DEF SpawnLoop
    <3> QED
      BY <1>2, <2>1, <3>1 DEF LoadHolds
  <2>9. CASE SystemFails
    <3>1. at' = "failed" /\ UNCHANGED <<bound, receiving>>
      BY <2>9, Zenon DEF SystemFails, Bound
    <3> QED
      BY <1>2, <2>1, <3>1, Zenon DEF LoadHolds
  <2> QED
    BY <1>3, <2>3, <2>4, <2>5, <2>6, <2>7, <2>8, <2>9, Zenon DEF Later, Between
<1>4. CASE UNCHANGED stvars
  <2>1. UNCHANGED <<input, config, at, bound, receiving>>
    BY <1>4, Zenon DEF stvars
  <2>2. UNCHANGED FileLayer /\ \A key : FromFile(key)' = FromFile(key) /\ FromEnv(key)' = FromEnv(key)
    BY <2>1, Zenon DEF FileLayer, FromFile, FromEnv
  <2> QED
    BY <1>2, <2>1, <2>2, Zenon DEF LoadHolds
<1> QED
  BY <1>1, <1>3, <1>4, Zenon DEF StNext, Later

\* At every moment the configuration is what the layers read so far come to, and nothing
\* is bound before it is complete, accepted and consented to.
THEOREM LoadInvariance == StSpec => []LoadHolds
<1>1. StInit => LoadHolds
  BY LoadInit, Zenon
<1>2. LoadHolds /\ [StNext]_stvars => LoadHolds'
  BY LoadStep, Zenon
<1> QED
  BY <1>1, <1>2, PTL DEF StSpec

\* No socket is bound to a public address against the operator's last word (serve).
THEOREM PublicBindHasConsent == StSpec => []PublicBindNeedsConsent
<1>1. LoadHolds => PublicBindNeedsConsent
  <2> SUFFICES ASSUME LoadHolds, bound > 0
               PROVE  /\ config.bind = Given("bind")
                      /\ (\E i \in DOMAIN Given("bind") : IsPublic(Given("bind")[i])) => Consent
    BY Zenon DEF PublicBindNeedsConsent
  <2>1. Loaded /\ Agreed
    BY Zenon DEF LoadHolds
  <2>2. /\ config.bind = Given("bind")
        /\ config.strict_public_bind = Given("strict_public_bind")
        /\ config.public_bind_acknowledged = Given("public_bind_acknowledged")
    BY <2>1, DefaultKeys, Zenon DEF Loaded
  <2>3. ASSUME NEW i \in DOMAIN Given("bind"), IsPublic(Given("bind")[i])
        PROVE  Consent
    <3>1. i \in PublicBindAddresses(config)
      BY <2>2, <2>3, Zenon DEF PublicBindAddresses
    <3>2. ~config.strict_public_bind \/ config.public_bind_acknowledged
      BY <2>1, <3>1, Zenon DEF Agreed
    <3> QED
      BY <2>2, <3>2, Zenon DEF Consent
  <2> QED
    BY <2>2, <2>3, Zenon
<1> QED
  BY <1>1, LoadInvariance, PTL

-----------------------------------------------------------------------------
(* The order in which privileges go *)

Whole == {"file", "env", "args", "validate", "logging", "public", "bind", "drop"}
Dropping == {"resolve", "chroot", "chdir", "setgroups", "setgid", "setuid"}
Running == {"runtime", "clock", "metrics", "spawn", "serving"}

\* Privileges are to go, and they are gone.
Drops == config.drop_privileges /\ started_as = Root
Dropped ==
  /\ Root \notin {real, effective, saved} /\ ~net_bind
  /\ group = Gid /\ supplementary = {Gid}
  /\ config.chroot_dir # "" => jailed

\* The capability the process was started with, and has until it drops its privileges.
Capable == started_as = Root \/ input.host.net_bind

\* What the process still is, and what it no longer is, at each place.
RightsHold ==
  /\ at \in Whole \cup Dropping => real = started_as /\ effective = started_as /\ saved = started_as
  /\ at \in Whole => (net_bind <=> Capable)
  /\ at \in Whole \cup {"resolve", "chroot"} => ~jailed
  /\ at \in Dropping \cup {"verify"} => Drops
  /\ at \in (Dropping \ {"resolve"}) \cup {"verify"} => input.host.uid # Root
  /\ at = "chdir" => jailed
  /\ at \in {"setgroups", "setgid", "setuid", "verify"} => (config.chroot_dir # "" => jailed)
  /\ at \in {"setgid", "setuid", "verify"} => supplementary = {Gid}
  /\ at \in {"setuid", "verify"} => group = Gid
  /\ at = "verify" => /\ real = input.host.uid /\ effective = input.host.uid
                      /\ saved = input.host.uid
                      /\ net_bind <=> input.host.keeps_capabilities
  /\ at \in Running => (Drops => Dropped) /\ (~Drops => (net_bind <=> Capable))
  /\ at = "metrics" => config.metrics_enabled
  /\ receiving > 0 => at \in {"spawn", "serving", "failed"} /\ (Drops => Dropped)

\* Who the process is to become depends on nothing that changes meanwhile.
LEMMA RightsAreKept ==
  ASSUME UNCHANGED <<input, config, started_as>>
  PROVE  /\ Gid' = Gid
         /\ Drops' <=> Drops
         /\ Capable' <=> Capable
         /\ UNCHANGED <<real, effective, saved, net_bind, group, supplementary, jailed>>
              => (Dropped <=> Dropped')
<1>1. Gid' = Gid
  BY Zenon DEF Gid
<1>2. (Drops' <=> Drops) /\ (Capable' <=> Capable)
  BY Zenon DEF Drops, Capable
<1>3. ASSUME UNCHANGED <<real, effective, saved, net_bind, group, supplementary, jailed>>
      PROVE  Dropped <=> Dropped'
  BY <1>1, <1>3, Zenon DEF Dropped
<1> QED
  BY <1>1, <1>2, <1>3, Zenon

\* RightsHold is kept by every step.
LEMMA RightsStep ==
  ASSUME LoadHolds, RightsHold, [StNext]_stvars
  PROVE  RightsHold'
<1> DEFINE SameRights == UNCHANGED <<real, effective, saved, net_bind, group, supplementary, jailed>>
<1> USE DEF Whole, Dropping, Running
<1>1. CASE LoadFile \/ ApplyEnv \/ ApplyArgs
  <2>1. /\ SameRights /\ UNCHANGED <<input, receiving, started_as>>
        /\ at \in {"file", "env", "args"} /\ at' \in {"env", "args", "validate", "failed"}
    BY <1>1, Zenon DEF LoadFile, ApplyEnv, ApplyArgs, Then, Loading, Rights, Bound, uids, gids
  <2>2. receiving = 0
    BY <2>1, Zenon DEF LoadHolds, Reading
  <2>3. Capable' <=> Capable
    BY <2>1, Zenon DEF Capable
  <2> QED
    BY <2>1, <2>2, <2>3, Zenon DEF RightsHold
<1>2. ASSUME Later
      PROVE  RightsHold'
  <2>1. UNCHANGED <<input, config, started_as>>
    BY <1>2, LaterIsSame, Zenon
  <2>2. /\ Gid' = Gid /\ (Drops' <=> Drops) /\ (Capable' <=> Capable)
        /\ (SameRights => (Dropped <=> Dropped'))
    BY <2>1, RightsAreKept, Zenon
  <2> HIDE DEF SameRights
  <2>3. CASE Validate \/ InitLogging \/ CheckPublicBind \/ Bind
    <3>1. /\ SameRights /\ UNCHANGED receiving
          /\ at \in {"validate", "logging", "public", "bind"}
          /\ at' \in {"logging", "public", "bind", "drop", "checked", "failed"}
      BY <2>3, Zenon DEF Validate, InitLogging, CheckPublicBind, Bind, Then, Rights, Bound, uids, gids, SameRights
    <3> QED
      BY <2>1, <2>2, <3>1, Zenon DEF RightsHold, SameRights
  <2>4. CASE EnterDrop
    <3>1. /\ SameRights /\ UNCHANGED receiving
          /\ at = "drop"
          /\ at' = IF config.drop_privileges /\ effective = Root THEN "resolve" ELSE "runtime"
      BY <2>4, Zenon DEF EnterDrop, Then, Rights, Bound, uids, gids, SameRights
    <3>2. effective = started_as /\ real = started_as /\ saved = started_as /\ ~jailed /\ ~(receiving > 0)
      BY <3>1, Zenon DEF RightsHold
    <3>3. at' = IF Drops THEN "resolve" ELSE "runtime"
      BY <3>1, <3>2, Zenon DEF Drops
    <3> QED
      BY <2>1, <2>2, <3>1, <3>2, <3>3, Zenon DEF RightsHold, SameRights
  <2>5. CASE Resolve
    <3>1. /\ SameRights /\ UNCHANGED receiving
          /\ at = "resolve"
          /\ at' \in {"failed", "chroot", "setgroups"}
          /\ at' \in {"chroot", "setgroups"} => input.host.uid # Root
          /\ at' = "setgroups" => config.chroot_dir = ""
      BY <2>5, Zenon DEF Resolve, Then, Rights, Bound, uids, gids, SameRights
    <3> QED
      BY <2>1, <2>2, <3>1, Zenon DEF RightsHold, SameRights
  <2>6. CASE Chroot
    <3>1. /\ UNCHANGED <<real, effective, saved, net_bind, group, supplementary, receiving>>
          /\ at = "chroot" /\ at' = "chdir" /\ jailed'
      BY <2>6, Zenon DEF Chroot, Then, Bound, uids, gids
    <3> QED
      BY <2>1, <2>2, <3>1, Zenon DEF RightsHold
  <2>7. CASE Chdir
    <3>1. SameRights /\ UNCHANGED receiving /\ at = "chdir" /\ at' = "setgroups"
      BY <2>7, Zenon DEF Chdir, Then, Rights, Bound, uids, gids, SameRights
    <3> QED
      BY <2>1, <2>2, <3>1, Zenon DEF RightsHold, SameRights
  <2>8. CASE SetGroups
    <3>1. /\ UNCHANGED <<real, effective, saved, net_bind, group, jailed, receiving>>
          /\ at = "setgroups" /\ at' = "setgid" /\ supplementary' = {Gid}
      BY <2>8, Zenon DEF SetGroups, Then, Bound, uids
    <3> QED
      BY <2>1, <2>2, <3>1, Zenon DEF RightsHold
  <2>9. CASE SetGid
    <3>1. /\ UNCHANGED <<real, effective, saved, net_bind, supplementary, jailed, receiving>>
          /\ at = "setgid" /\ at' = "setuid" /\ group' = Gid
      BY <2>9, Zenon DEF SetGid, Then, Bound, uids
    <3> QED
      BY <2>1, <2>2, <3>1, Zenon DEF RightsHold
  <2>10. CASE SetUid
    <3>1. /\ UNCHANGED <<group, supplementary, jailed, receiving>>
          /\ at = "setuid" /\ at' = "verify"
          /\ real' = input.host.uid /\ effective' = input.host.uid /\ saved' = input.host.uid
          /\ net_bind' = input.host.keeps_capabilities
      BY <2>10, Zenon DEF SetUid, Then, Bound, gids
    <3> QED
      BY <2>1, <2>2, <3>1, Zenon DEF RightsHold
  <2>11. CASE VerifyDrop
    <3> DEFINE regained == input.host.keeps_capabilities \/ Root \in {real, saved}
    <3>1. /\ UNCHANGED <<real, saved, net_bind, group, supplementary, jailed, receiving>>
          /\ at = "verify" /\ at' = IF regained THEN "failed" ELSE "runtime"
          /\ ~regained => effective' = effective
      BY <2>11, Zenon DEF VerifyDrop, Then, Bound, gids
    <3>2. /\ Drops /\ input.host.uid # Root /\ ~(receiving > 0)
          /\ config.chroot_dir # "" => jailed
          /\ supplementary = {Gid} /\ group = Gid
          /\ real = input.host.uid /\ effective = input.host.uid /\ saved = input.host.uid
          /\ net_bind <=> input.host.keeps_capabilities
      BY <3>1, Zenon DEF RightsHold
    <3>3. CASE regained
      BY <3>1, <3>2, <3>3, Zenon DEF RightsHold
    <3>4. CASE ~regained
      <4>1. SameRights /\ at' = "runtime"
        BY <3>1, <3>4, Zenon DEF SameRights
      <4>2. Dropped
        BY <3>2, <3>4, Zenon DEF Dropped
      <4> QED
        BY <2>1, <2>2, <3>1, <3>2, <4>1, <4>2, Zenon DEF RightsHold
    <3> QED
      BY <3>3, <3>4, Zenon
  <2>12. CASE BuildRuntime \/ ReadFirstClock \/ BindMetrics
    <3>1. /\ SameRights /\ UNCHANGED receiving
          /\ at \in {"runtime", "clock", "metrics"}
          /\ at' \in {"clock", "metrics", "spawn", "failed"}
          /\ at' = "metrics" => config.metrics_enabled
      BY <2>12, Zenon DEF BuildRuntime, ReadFirstClock, BindMetrics, Then, Rights, Bound, uids, gids, SameRights
    <3> QED
      BY <2>1, <2>2, <3>1, Zenon DEF RightsHold, SameRights
  <2>13. CASE SpawnLoop
    <3>1. SameRights /\ at = "spawn" /\ at' \in {"spawn", "serving"}
      BY <2>13, Zenon DEF SpawnLoop, Rights, uids, gids, SameRights
    <3> QED
      BY <2>1, <2>2, <3>1, Zenon DEF RightsHold, SameRights
  <2>14. CASE SystemFails
    <3>1. SameRights /\ UNCHANGED receiving /\ at' = "failed"
      BY <2>14, Zenon DEF SystemFails, Rights, Bound, uids, gids, SameRights
    <3> QED
      BY <2>1, <2>2, <3>1, Zenon DEF RightsHold
  <2> QED
    BY <1>2, <2>3, <2>4, <2>5, <2>6, <2>7, <2>8, <2>9, <2>10, <2>11, <2>12, <2>13, <2>14, Zenon DEF Later
<1>3. CASE UNCHANGED stvars
  <2>1. SameRights /\ UNCHANGED <<input, config, started_as, at, receiving>>
    BY <1>3, Zenon DEF stvars
  <2>2. /\ Gid' = Gid /\ (Drops' <=> Drops) /\ (Capable' <=> Capable)
        /\ (Dropped <=> Dropped')
    BY <2>1, RightsAreKept, Zenon
  <2> QED
    BY <2>1, <2>2, Zenon DEF RightsHold
<1> QED
  BY <1>1, <1>2, <1>3, Zenon DEF StNext, Later

-----------------------------------------------------------------------------
(* Why a start fails *)

\* What StartFailsForAReason lists, by itself.
Reason ==
  \/ input.file = Unusable \/ (input.file = NoFile /\ input.path_given)
  \/ \E key \in DOMAIN input.env : input.env[key] = Unusable
  \/ ~IsValid(config)
  \/ Given("level") = Unusable
  \/ ~Consent /\ \E i \in DOMAIN config.bind : IsPublic(config.bind[i])
  \/ ~Capable /\ \E i \in DOMAIN config.bind : IsLow(config.bind[i].port)
  \/ Drops /\ (input.host.uid = Root \/ input.host.keeps_capabilities)
  \/ /\ config.metrics_enabled /\ IsLow(config.metrics_bind.port)
     /\ Drops \/ ~Capable

\* Every step into failure that is not the system's has its reason already.
LEMMA FailingHasAReason ==
  ASSUME LoadHolds, RightsHold, StNext, at' = "failed", ~broke'
  PROVE  Reason
<1>1. CASE LoadFile
  <2>1. input.file = Unusable \/ (input.file = NoFile /\ input.path_given)
    BY <1>1, Zenon DEF LoadFile, Then
  <2> QED
    BY <2>1, Zenon DEF Reason
<1>2. CASE ApplyEnv
  <2>1. ~EnvIsUsable(input.env)
    BY <1>2, Zenon DEF ApplyEnv, Then
  <2>2. \E key \in DOMAIN input.env : input.env[key] = Unusable
    BY <2>1, Zenon DEF EnvIsUsable
  <2> QED
    BY <2>2, Zenon DEF Reason
<1>3. CASE Validate
  <2>1. ~IsValid(config)
    BY <1>3, Zenon DEF Validate, Then
  <2> QED
    BY <2>1, Zenon DEF Reason
<1>4. CASE InitLogging
  <2>1. at = "logging" /\ config.level = Unusable
    BY <1>4, Zenon DEF InitLogging, Then
  <2>2. Loaded
    BY <2>1, Zenon DEF LoadHolds, Checking
  <2>3. Given("level") = Unusable
    BY <2>1, <2>2, DefaultKeys, Zenon DEF Loaded
  <2> QED
    BY <2>3, Zenon DEF Reason
<1>5. CASE CheckPublicBind
  <2>1. at = "public" /\ ~Agreed
    BY <1>5, Zenon DEF CheckPublicBind, Then, Agreed
  <2>2. Loaded
    BY <2>1, Zenon DEF LoadHolds, Checking
  <2>3. /\ config.strict_public_bind = Given("strict_public_bind")
        /\ config.public_bind_acknowledged = Given("public_bind_acknowledged")
    BY <2>2, DefaultKeys, Zenon DEF Loaded
  <2>4. config.strict_public_bind /\ ~config.public_bind_acknowledged
    BY <2>1, Zenon DEF Agreed
  <2>5. ~Consent
    BY <2>3, <2>4, Zenon DEF Consent
  <2>6. \E i \in DOMAIN config.bind : IsPublic(config.bind[i])
    BY <2>1, Zenon DEF Agreed, PublicBindAddresses
  <2> QED
    BY <2>5, <2>6, Zenon DEF Reason
<1>6. CASE Bind
  <2>1. at = "bind" /\ IsLow(config.bind[bound + 1].port) /\ ~net_bind
    BY <1>6, Zenon DEF Bind
  <2>2. bound \in Nat /\ bound < Len(config.bind) /\ Len(config.bind) \in Nat
    BY <2>1, BindIsASequence, Zenon DEF LoadHolds, Bounding
  <2>3. bound + 1 \in DOMAIN config.bind
    BY <2>2, BindIsASequence
  <2>4. ~Capable
    BY <2>1, Zenon DEF RightsHold, Whole
  <2> QED
    BY <2>1, <2>3, <2>4, Zenon DEF Reason
<1>7. CASE Resolve
  <2>1. at = "resolve" /\ (input.host.uid = Root \/ jailed)
    BY <1>7, Zenon DEF Resolve, Then
  <2>2. Drops /\ ~jailed
    BY <2>1, Zenon DEF RightsHold, Dropping
  <2> QED
    BY <2>1, <2>2, Zenon DEF Reason
<1>8. CASE VerifyDrop
  <2>1. at = "verify" /\ (input.host.keeps_capabilities \/ Root \in {real, saved})
    BY <1>8, Zenon DEF VerifyDrop, Then
  <2>2. Drops /\ Root \notin {real, saved}
    BY <2>1, Zenon DEF RightsHold
  <2> QED
    BY <2>1, <2>2, Zenon DEF Reason
<1>9. CASE BindMetrics
  <2>1. at = "metrics" /\ IsLow(config.metrics_bind.port) /\ ~net_bind
    BY <1>9, Zenon DEF BindMetrics, Then
  <2>2. config.metrics_enabled /\ (~Drops => (net_bind <=> Capable))
    BY <2>1, Zenon DEF RightsHold, Running
  <2> QED
    BY <2>1, <2>2, Zenon DEF Reason
<1>10. CASE SystemFails
  BY <1>10, Zenon DEF SystemFails
<1>11. CASE \/ ApplyArgs \/ EnterDrop \/ Chroot \/ Chdir \/ SetGroups \/ SetGid \/ SetUid
            \/ BuildRuntime \/ ReadFirstClock \/ SpawnLoop
  BY <1>11, Zenon DEF ApplyArgs, EnterDrop, Chroot, Chdir, SetGroups, SetGid, SetUid, BuildRuntime,
    ReadFirstClock, SpawnLoop, Then
<1> QED
  BY <1>1, <1>2, <1>3, <1>4, <1>5, <1>6, <1>7, <1>8, <1>9, <1>10, <1>11, Zenon DEF StNext

\* A step into failure leaves all of it as it was; one that has failed takes no more.
LEMMA FailingChangesNothing ==
  ASSUME StNext, at' = "failed"
  PROVE  UNCHANGED <<input, config, started_as>> /\ at # "failed"
<1>1. CASE LoadFile
  BY <1>1, Zenon DEF LoadFile, Then, Loading
<1>2. CASE ApplyEnv
  BY <1>2, Zenon DEF ApplyEnv, Then, Loading
<1>3. CASE ApplyArgs
  BY <1>3, Zenon DEF ApplyArgs, Then
<1>4. ASSUME Later
      PROVE  UNCHANGED <<input, config, started_as>> /\ at # "failed"
  <2>1. UNCHANGED <<input, config, started_as>>
    BY <1>4, LaterIsSame, Zenon
  <2>2. at # "failed"
    BY <1>4, Zenon DEF Later, Validate, InitLogging, CheckPublicBind, Bind, EnterDrop, Resolve, Chroot,
      Chdir, SetGroups, SetGid, SetUid, VerifyDrop, BuildRuntime, ReadFirstClock, BindMetrics,
      SpawnLoop, SystemFails, Then
  <2> QED
    BY <2>1, <2>2, Zenon
<1> QED
  BY <1>1, <1>2, <1>3, <1>4, Zenon DEF StNext, Later

\* The inductive invariant.
StartInv == LoadHolds /\ RightsHold /\ StartFailsForAReason

\* Every process that starts has what it loaded, what it may do, and why it failed, in order.
THEOREM StartInvariance == StSpec => []StartInv
<1>1. StInit => StartInv
  <2> SUFFICES ASSUME StInit PROVE StartInv
    BY Zenon
  <2>1. RightsHold
    <3>1. /\ at = "file" /\ ~jailed
          /\ real = started_as /\ effective = started_as /\ saved = started_as
          /\ net_bind <=> Capable
      BY Zenon DEF StInit, Capable
    <3>2. ~(receiving > 0)
      BY DEF StInit
    <3> QED
      BY <3>1, <3>2, Zenon DEF RightsHold, Whole, Dropping, Running
  <2>2. StartFailsForAReason
    BY Zenon DEF StInit, StartFailsForAReason
  <2> QED
    BY <2>1, <2>2, LoadInit, Zenon DEF StartInv
<1>2. StartInv /\ [StNext]_stvars => StartInv'
  <2> SUFFICES ASSUME StartInv, [StNext]_stvars PROVE StartInv'
    BY Zenon
  <2>1. LoadHolds' /\ RightsHold'
    BY LoadStep, RightsStep, Zenon DEF StartInv
  <2>2. StartFailsForAReason'
    <3>1. StartFailsForAReason <=> (at = "failed" /\ ~broke => Reason)
      BY Zenon DEF StartFailsForAReason, Reason, Drops, Capable
    <3>2. (at' = "failed" /\ ~broke' => Reason') => StartFailsForAReason'
      BY Zenon DEF StartFailsForAReason, Reason, Drops, Capable
    <3>3. ASSUME UNCHANGED <<input, config, started_as>>, Reason
          PROVE  Reason'
      <4>1. /\ \A key : Given(key)' = Given(key)
            /\ IsValid(config)' = IsValid(config)
            /\ Drops' <=> Drops
            /\ Capable' <=> Capable
        BY <3>3, SettingsAreKept, RightsAreKept, Zenon
      <4>2. Consent' <=> Consent
        BY <4>1, Zenon DEF Consent
      <4> QED
        BY <3>3, <4>1, <4>2, Zenon DEF Reason
    <3>4. CASE UNCHANGED stvars
      BY <3>1, <3>2, <3>3, <3>4, Zenon DEF stvars, StartInv
    <3>5. CASE StNext
      BY <3>2, <3>3, <3>5, FailingHasAReason, FailingChangesNothing, Zenon DEF StartInv
    <3> QED
      BY <3>4, <3>5, Zenon
  <2> QED
    BY <2>1, <2>2, Zenon DEF StartInv
<1> QED
  BY <1>1, <1>2, PTL DEF StSpec

\* Whichever calls failed on the way, no loop receives with a privilege left that was to
\* go, or in a group that is not the target's (drop_privileges before run).
THEOREM LoopsRunWithoutRoot == StSpec => []NoLoopRunsAsRoot
<1>1. StartInv => NoLoopRunsAsRoot
  <2> SUFFICES ASSUME StartInv, receiving > 0, Given("drop_privileges"), started_as = Root
               PROVE  /\ Root \notin {real, effective, saved} /\ ~net_bind
                      /\ {group} \cup supplementary = {TargetGroup}
                      /\ Given("chroot_dir") # "" => jailed
    BY Zenon DEF NoLoopRunsAsRoot
  <2>1. Loaded
    BY Zenon DEF StartInv, LoadHolds
  <2>2. /\ config.drop_privileges = Given("drop_privileges")
        /\ config.group = Given("group") /\ config.user = Given("user")
        /\ config.chroot_dir = Given("chroot_dir")
    BY <2>1, DefaultKeys, Zenon DEF Loaded
  <2>3. Dropped
    BY <2>2, Zenon DEF StartInv, RightsHold, Drops
  <2>4. Gid = TargetGroup
    BY <2>2, Zenon DEF Gid, TargetGroup
  <2>5. {group} \cup supplementary = {TargetGroup}
    BY <2>3, <2>4, Zenon DEF Dropped
  <2> QED
    BY <2>2, <2>3, <2>5, Zenon DEF Dropped
<1> QED
  BY <1>1, StartInvariance, PTL

\* A start that the system does not stop fails only for what the operator said, or for who
\* starts it.
THEOREM FailuresHaveReasons == StSpec => []StartFailsForAReason
<1>1. StartInv => StartFailsForAReason
  BY Zenon DEF StartInv
<1> QED
  BY <1>1, StartInvariance, PTL

\* Metrics are served, and stratum 1 is claimed, only where somebody asked for it.
THEOREM NothingUnasked == StSpec => []OnlyOnRequest
<1>1. StartInv => OnlyOnRequest
  <2> SUFFICES ASSUME StartInv PROVE OnlyOnRequest
    BY Zenon
  <2>1. ASSUME at = "metrics"
        PROVE  /\ config.metrics_bind = Given("metrics_bind")
               /\ Given("metrics_enabled") \/ "metrics_bind" \in DOMAIN input.args
    <3>1. Loaded /\ config.metrics_enabled
      BY <2>1, Zenon DEF StartInv, LoadHolds, RightsHold, AllBound, Places, Reading, Checking, Bounding, Ends
    <3>2. config.metrics_bind = Given("metrics_bind")
      BY <3>1, DefaultKeys, Zenon DEF Loaded
    <3>3. Given("metrics_enabled") \/ "metrics_bind" \in DOMAIN input.args
      BY <3>1, Zenon DEF Loaded
    <3> QED
      BY <3>2, <3>3, Zenon
  <2>2. ASSUME receiving > 0
        PROVE  Loaded /\ IsValid(config)
    BY <2>2, Zenon DEF StartInv, LoadHolds
  <2>3. ASSUME receiving > 0, "metrics_bind" \in DOMAIN input.args
        PROVE  config.metrics_enabled
    BY <2>2, <2>3, Zenon DEF Loaded
  <2>4. ASSUME receiving > 0, Given("stratum") = 1
        PROVE  Given("reference_id") # Default.reference_id
    <3>1. config.stratum = Given("stratum") /\ config.reference_id = Given("reference_id")
      BY <2>2, <2>4, DefaultKeys, Zenon DEF Loaded
    <3>2. ~(config.stratum = 1 /\ config.reference_id = "HLER")
      BY <2>2, <2>4, Zenon DEF IsValid, ProtocolIsValid
    <3> QED
      BY <2>4, <3>1, <3>2, DefaultKeys, Zenon
  <2> QED
    BY <2>1, <2>3, <2>4, Zenon DEF OnlyOnRequest
<1> QED
  BY <1>1, StartInvariance, PTL

-----------------------------------------------------------------------------
(* What an accepted configuration lets through *)

\* A second refills as many micro-tokens as a second at the rate is worth: neither the
\* division nor the cast loses any of them.
LEMMA RefillOfASecond ==
  ASSUME NEW rate \in Nat, rate * MICRO < U64
  PROVE  RefillAmount(Second, rate) = rate * MICRO
<1> USE TokenBucketAssumption
<1> DEFINE q == rate * MICRO
<1>1. q \in Nat /\ Second * rate = NanosPerMicro * q
  BY DEF Second
<1> HIDE DEF q
<1>2. (NanosPerMicro * q) \div NanosPerMicro = q
  BY <1>1
<1>3. q < U64
  BY Zenon DEF q
<1>4. q % U64 = q
  BY <1>1, <1>3
<1> QED
  BY <1>1, <1>2, <1>4, Zenon DEF RefillAmount, q

\* A bucket with a rate yields a request after a second, unless it holds none.
LEMMA RecoversIs ==
  ASSUME NEW rate \in Nat \ {0}, rate * MICRO < U64, NEW size \in Nat
  PROVE  Recovers(rate, size) <=> size > 0
<1> USE TokenBucketAssumption
<1> DEFINE b(rest) == [micro_tokens |-> rest, last_refill |-> 0]
           refilled(rest) == RefilledTokens(b(rest), rate, size, Second)
<1>1. Second \in Nat
  BY DEF Second
<1>2. SaturatingSince(Second, 0) = Second
  BY <1>1 DEF SaturatingSince
<1>3. \A rest : refilled(rest) = IF rest + rate * MICRO <= size * MICRO
                                 THEN rest + rate * MICRO ELSE size * MICRO
  BY <1>2, RefillOfASecond, Zenon DEF RefilledTokens
<1>4. rate * MICRO >= MICRO /\ rate * MICRO \in Nat /\ size * MICRO \in Nat
  <2>1. PICK k \in Nat : rate = k + 1
    <3>1. rate - 1 \in Nat /\ rate = (rate - 1) + 1
      OBVIOUS
    <3> QED
      BY <3>1, Zenon
  <2>2. k * MICRO \in Nat /\ rate * MICRO = k * MICRO + MICRO
    BY <2>1
  <2> QED
    BY <2>2
<1>5. CASE size > 0
  <2>1. size * MICRO >= MICRO
    <3>1. PICK k \in Nat : size = k + 1
      <4>1. size - 1 \in Nat /\ size = (size - 1) + 1
        BY <1>5
      <4> QED
        BY <4>1, Zenon
    <3>2. k * MICRO \in Nat /\ size * MICRO = k * MICRO + MICRO
      BY <3>1
    <3> QED
      BY <3>2
  <2>2. ASSUME NEW rest \in 0 .. size * MICRO
        PROVE  refilled(rest) >= MICRO
    <3> HIDE DEF refilled
    <3> DEFINE refill == rate * MICRO
               full == size * MICRO
    <3>1. refilled(rest) = IF rest + refill <= full THEN rest + refill ELSE full
      BY <1>3, Zenon
    <3>2. refill >= MICRO /\ refill \in Nat /\ full \in Nat /\ full >= MICRO /\ rest \in Nat
      BY <1>4, <2>1
    <3> HIDE DEF refill, full
    <3> QED
      BY <3>1, <3>2
  <2> QED
    BY <1>5, <2>2, Zenon DEF Recovers, TakeSucceeds
<1>6. CASE size = 0
  <2>1. size * MICRO = 0
    BY <1>6
  <2>2. 0 \in 0 .. size * MICRO /\ refilled(0) = 0
    <3> HIDE DEF refilled
    <3>1. refilled(0) = IF 0 + rate * MICRO <= 0 THEN 0 + rate * MICRO ELSE 0
      BY <1>3, <2>1, Zenon
    <3> QED
      BY <1>4, <2>1, <3>1
  <2>3. ~TakeSucceeds(b(0), rate, size, Second)
    BY <2>2 DEF TakeSucceeds
  <2> QED
    BY <1>6, <2>2, <2>3 DEF Recovers
<1> QED
  BY <1>5, <1>6

\* What validate accepts lets somebody through: the packets, the versions, and the
\* buckets, save a global bucket that was given a rate and no burst.
THEOREM AcceptedServesRequests == StSpec => []RequestsCanPass
<1>1. LoadHolds => RequestsCanPass
  <2> SUFFICES ASSUME LoadHolds, receiving > 0
               PROVE  /\ PACKET_SIZE <= config.max_packet_size
                      /\ config.versions \cap {3, 4} # {}
                      /\ config.rate_limit_enabled =>
                           /\ Recovers(config.requests_per_second, config.burst)
                           /\ config.global_requests_per_second > 0 =>
                                (Recovers(config.global_requests_per_second, config.global_burst)
                                   <=> config.global_burst > 0)
    BY Zenon DEF RequestsCanPass
  <2>1. IsValid(config)
    BY Zenon DEF LoadHolds
  <2>2. PACKET_SIZE <= config.max_packet_size
    BY <2>1, ConfigAssumption DEF IsValid, ServerIsValid
  <2>3. config.versions \cap {3, 4} # {}
    BY <2>1, Zenon DEF IsValid, ProtocolIsValid
  <2>4. /\ config.requests_per_second \in Nat /\ config.requests_per_second * MICRO < U64
        /\ config.global_requests_per_second \in Nat
        /\ config.global_requests_per_second * MICRO < U64
        /\ config.burst \in Nat /\ config.global_burst \in Nat
    BY DefaultKeys, Zenon DEF LoadHolds, LayerIsTyped
  <2>5. ASSUME config.rate_limit_enabled
        PROVE  Recovers(config.requests_per_second, config.burst)
    <3>1. config.requests_per_second > 0 /\ config.burst > 0
      BY <2>1, <2>5, Zenon DEF IsValid, RateLimitIsValid
    <3> QED
      BY <2>4, <3>1, RecoversIs
  <2>6. ASSUME config.global_requests_per_second > 0
        PROVE  Recovers(config.global_requests_per_second, config.global_burst)
                 <=> config.global_burst > 0
    BY <2>4, <2>6, RecoversIs
  <2> QED
    BY <2>2, <2>3, <2>5, <2>6, Zenon
<1> QED
  BY <1>1, LoadInvariance, PTL

-----------------------------------------------------------------------------
(* The access table *)

\* The length of a rule is a number no larger than the wider address (parse_rules).
LEMMA NetLength ==
  ASSUME NEW r \in Rule
  PROVE  Net(r).len \in 0 .. Width["v6"]
<1> USE AccessAssumption
<1>1. PICK f \in Family : \/ r \in [family : {f}, bits : 0 .. 2 ^ Width[f] - 1, len : 0 .. Width[f]]
                          \/ r \in [family : {f}, bits : 0 .. 2 ^ Width[f] - 1]
  BY Zenon DEF Rule, Prefix, IpAddr
<1>2. Width[f] \in Nat /\ Width["v6"] \in Nat /\ Width[f] <= Width["v6"]
  BY DEF Family
<1>3. CASE r \in [family : {f}, bits : 0 .. 2 ^ Width[f] - 1, len : 0 .. Width[f]]
  <2>1. "len" \in DOMAIN r /\ r.len \in 0 .. Width[f]
    BY <1>3, Zenon
  <2> QED
    BY <1>2, <2>1 DEF Net
<1>4. CASE r \in [family : {f}, bits : 0 .. 2 ^ Width[f] - 1]
  <2>1. "len" \notin DOMAIN r /\ r.family = f
    BY <1>4, Zenon
  <2>2. Net(r).len = Width[f]
    BY <2>1, Zenon DEF Net
  <2> QED
    BY <1>2, <2>2
<1> QED
  BY <1>1, <1>3, <1>4, Zenon

\* The prefixes of some rules that hold an address.
Matching(rules, ip) == {n \in Nets(rules) : Contains(n, ip)}

\* longest_match returns the length of the longest prefix that matches, or NoMatch.
LEMMA LongestMatchIs ==
  ASSUME NEW rules \in SUBSET Rule, NEW ip
  PROVE  /\ \A n \in Matching(rules, ip) : n.len \in Nat
         /\ LongestMatch(Nets(rules), ip) \in Int
         /\ \A n \in Matching(rules, ip) : n.len <= LongestMatch(Nets(rules), ip)
         /\ \/ LongestMatch(Nets(rules), ip) = NoMatch /\ Matching(rules, ip) = {}
            \/ \E n \in Matching(rules, ip) : LongestMatch(Nets(rules), ip) = n.len
<1> DEFINE M == Matching(rules, ip)
           lens == {NoMatch} \cup {n.len : n \in M}
<1>1. LongestMatch(Nets(rules), ip) = Max(lens)
  BY Zenon DEF LongestMatch, Matching
<1>2. ASSUME NEW n \in M
      PROVE  n.len \in 0 .. Width["v6"]
  <2>1. n \in Nets(rules)
    BY Zenon DEF Matching
  <2>2. PICK r \in rules : n = Net(r)
    BY <2>1, Zenon DEF Nets
  <2> QED
    BY <2>2, NetLength, Zenon
<1>3. Width["v6"] \in Nat
  BY AccessAssumption, Zenon
<1> HIDE DEF M
<1>4. lens \in SUBSET Int /\ lens # {} /\ \A y \in lens : y <= Width["v6"]
  BY <1>2, <1>3 DEF NoMatch
<1>5. NoMatch \in lens /\ \A n \in M : n.len \in lens
  BY Zenon
<1>6. \A y \in lens : y = NoMatch \/ \E n \in M : y = n.len
  BY Zenon
<1> HIDE DEF lens
<1>7. Max(lens) \in lens /\ \A y \in lens : y <= Max(lens)
  <2> DEFINE top == Width["v6"]
  <2>1. top \in Int /\ \A y \in lens : y <= top
    BY <1>3, <1>4
  <2> HIDE DEF top
  <2> QED
    BY <1>4, <2>1, MaxIs, Zenon
<1>8. \A n \in M : n.len \in Nat
  BY <1>2
<1>9. Max(lens) \in Int /\ \A n \in M : n.len <= Max(lens)
  BY <1>4, <1>5, <1>7, Zenon
<1>10. \/ Max(lens) = NoMatch /\ M = {}
       \/ \E n \in M : Max(lens) = n.len
  <2>1. CASE M = {}
    BY <1>6, <1>7, <2>1, Zenon
  <2>2. ASSUME NEW n \in M
        PROVE  \E k \in M : Max(lens) = k.len
    <3>1. Max(lens) # NoMatch
      BY <1>8, <1>9 DEF NoMatch
    <3> QED
      BY <1>6, <1>7, <3>1, Zenon
  <2> QED
    BY <2>1, <2>2, Zenon
<1> QED
  BY <1>1, <1>8, <1>9, <1>10, Zenon DEF M

\* evaluate refuses a source exactly if a deny rule matches it that no matching allow rule
\* is more specific than, or if nothing matches and the default is to refuse.
LEMMA DeniedIs ==
  ASSUME NEW allow \in SUBSET Rule, NEW deny \in SUBSET Rule, NEW default_allow \in BOOLEAN, NEW ip
  PROVE  Denied(allow, deny, default_allow, ip) <=>
           \/ \E d \in Matching(deny, Canonical(ip)) :
                \A a \in Matching(allow, Canonical(ip)) : a.len <= d.len
           \/ /\ Matching(allow, Canonical(ip)) = {} /\ Matching(deny, Canonical(ip)) = {}
              /\ ~default_allow
<1> DEFINE A == Matching(allow, Canonical(ip))
           D == Matching(deny, Canonical(ip))
           best_allow == LongestMatch(Nets(allow), Canonical(ip))
           best_deny == LongestMatch(Nets(deny), Canonical(ip))
<1>1. Denied(allow, deny, default_allow, ip) <=>
        IF best_allow = NoMatch /\ best_deny = NoMatch THEN ~default_allow ELSE best_deny >= best_allow
  BY Zenon DEF Denied
<1>2. /\ best_allow \in Int
      /\ \A a \in A : a.len \in Nat /\ a.len <= best_allow
      /\ (best_allow = NoMatch /\ A = {}) \/ \E a \in A : best_allow = a.len
  BY LongestMatchIs, Zenon
<1>3. /\ best_deny \in Int
      /\ \A d \in D : d.len \in Nat /\ d.len <= best_deny
      /\ (best_deny = NoMatch /\ D = {}) \/ \E d \in D : best_deny = d.len
  BY LongestMatchIs, Zenon
<1> HIDE DEF A, D, best_allow, best_deny
<1> SUFFICES Denied(allow, deny, default_allow, ip) <=>
               \/ \E d \in D : \A a \in A : a.len <= d.len
               \/ A = {} /\ D = {} /\ ~default_allow
  BY Zenon DEF A, D
<1>4. CASE D = {}
  <2>1. best_deny = NoMatch
    BY <1>3, <1>4, Zenon
  <2>2. CASE A = {}
    BY <1>1, <1>2, <1>4, <2>1, <2>2, Zenon
  <2>3. ASSUME NEW a \in A
        PROVE  ~Denied(allow, deny, default_allow, ip)
    <3>1. best_allow > NoMatch
      BY <1>2 DEF NoMatch
    <3> QED
      BY <1>1, <1>2, <2>1, <3>1 DEF NoMatch
  <2> QED
    BY <1>4, <2>2, <2>3, Zenon
<1>5. ASSUME NEW e \in D
      PROVE  Denied(allow, deny, default_allow, ip) <=> \E d \in D : \A a \in A : a.len <= d.len
  <2>1. best_deny > NoMatch
    BY <1>3, <1>5 DEF NoMatch
  <2>2. Denied(allow, deny, default_allow, ip) <=> best_deny >= best_allow
    BY <1>1, <1>3, <2>1 DEF NoMatch
  <2>3. ASSUME best_deny >= best_allow
        PROVE  \E d \in D : \A a \in A : a.len <= d.len
    <3>1. PICK d \in D : best_deny = d.len
      BY <1>3, Zenon
    <3>2. \A a \in A : a.len <= d.len
      BY <1>2, <1>3, <2>3, <3>1
    <3> QED
      BY <3>2, Zenon
  <2>4. ASSUME NEW d \in D, \A a \in A : a.len <= d.len
        PROVE  best_deny >= best_allow
    <3>1. d.len \in Nat /\ d.len <= best_deny
      BY <1>3, Zenon
    <3>2. best_allow = NoMatch \/ best_allow <= d.len
      BY <1>2, <2>4, Zenon
    <3> QED
      BY <1>2, <1>3, <3>1, <3>2 DEF NoMatch
  <2> QED
    BY <2>2, <2>3, <2>4, Zenon
<1> QED
  BY <1>4, <1>5, Zenon

\* The rules of an accepted configuration are rules.
LEMMA AcceptedRules ==
  ASSUME LoadHolds, at = "checked"
  PROVE  /\ config.allow \in SUBSET Rule /\ config.deny \in SUBSET Rule
         /\ config.default_action \in {"allow", "deny"}
         /\ {"allow", "deny", "default_action"} \subseteq DOMAIN config
<1>1. AccessIsValid(config)
  BY Zenon DEF LoadHolds, IsValid
<1>2. /\ config.allow \subseteq Rule \cup {Unusable} /\ config.deny \subseteq Rule \cup {Unusable}
      /\ {"allow", "deny", "default_action"} \subseteq DOMAIN config
  BY DefaultKeys, Zenon DEF LoadHolds, LayerIsTyped
<1> QED
  BY <1>1, <1>2, Zenon DEF AccessIsValid

\* The table of an accepted configuration refuses whom its documentation says it refuses,
\* for addresses of any width.
THEOREM TableHasPrecedence == StSpec => []Precedence
<1>1. LoadHolds => Precedence
  <2> SUFFICES ASSUME LoadHolds, at = "checked", NEW ip \in IpAddr
               PROVE  DeniedBy(config, ip) <=>
                        \/ \E d \in Matching(config.deny, Canonical(ip)) :
                             \A a \in Matching(config.allow, Canonical(ip)) : a.len <= d.len
                        \/ /\ Matching(config.allow, Canonical(ip))
                                \cup Matching(config.deny, Canonical(ip)) = {}
                           /\ config.default_action = "deny"
    BY Zenon DEF Precedence, Matching
  <2> DEFINE default_allow == config.default_action = "allow"
  <2>1. ~default_allow <=> config.default_action = "deny"
    BY AcceptedRules, Zenon
  <2>2. DeniedBy(config, ip) <=> Denied(config.allow, config.deny, default_allow, ip)
    BY Zenon DEF DeniedBy
  <2>3. default_allow \in BOOLEAN
    BY Zenon
  <2> HIDE DEF default_allow
  <2>4. Denied(config.allow, config.deny, default_allow, ip) <=>
          \/ \E d \in Matching(config.deny, Canonical(ip)) :
               \A a \in Matching(config.allow, Canonical(ip)) : a.len <= d.len
          \/ /\ Matching(config.allow, Canonical(ip)) = {}
             /\ Matching(config.deny, Canonical(ip)) = {}
             /\ ~default_allow
    BY <2>3, AcceptedRules, DeniedIs
  <2> QED
    BY <2>1, <2>2, <2>4, Zenon
<1> QED
  BY <1>1, LoadInvariance, PTL

\* Fewer rules match fewer addresses.
LEMMA MatchingIsMonotone ==
  ASSUME NEW rules, NEW fewer \in SUBSET rules, NEW ip
  PROVE  Matching(fewer, ip) \subseteq Matching(rules, ip)
BY Zenon DEF Matching, Nets

\* A rule more in a table of any size and any address width moves nobody the wrong way.
THEOREM RulesMoveOneWay == StSpec => []RulesAreMonotone
<1>1. LoadHolds => RulesAreMonotone
  <2> SUFFICES ASSUME LoadHolds, at = "checked", NEW ip \in IpAddr,
                      NEW r \in config.allow \cup config.deny
               PROVE  /\ DeniedBy([config EXCEPT !.deny = @ \ {r}], ip) => DeniedBy(config, ip)
                      /\ DeniedBy(config, ip) => DeniedBy([config EXCEPT !.allow = @ \ {r}], ip)
    BY Zenon DEF RulesAreMonotone
  <2> DEFINE default_allow == config.default_action = "allow"
             allow == config.allow
             deny == config.deny
             fewer_deny == config.deny \ {r}
             fewer_allow == config.allow \ {r}
             A == Matching(allow, Canonical(ip))
             D == Matching(deny, Canonical(ip))
             FA == Matching(fewer_allow, Canonical(ip))
             FD == Matching(fewer_deny, Canonical(ip))
  <2>1. /\ allow \in SUBSET Rule /\ deny \in SUBSET Rule
        /\ fewer_allow \in SUBSET allow /\ fewer_deny \in SUBSET deny
        /\ default_allow \in BOOLEAN
    BY AcceptedRules, Zenon
  <2>2. FA \subseteq A /\ FD \subseteq D
    BY <2>1, MatchingIsMonotone, Zenon
  <2>3. DeniedBy([config EXCEPT !.deny = @ \ {r}], ip) <=> Denied(allow, fewer_deny, default_allow, ip)
    BY AcceptedRules, Zenon DEF DeniedBy
  <2>4. DeniedBy([config EXCEPT !.allow = @ \ {r}], ip) <=> Denied(fewer_allow, deny, default_allow, ip)
    BY AcceptedRules, Zenon DEF DeniedBy
  <2>5. DeniedBy(config, ip) <=> Denied(allow, deny, default_allow, ip)
    BY Zenon DEF DeniedBy
  <2> HIDE DEF default_allow, allow, deny, fewer_allow, fewer_deny
  <2>6. Denied(allow, deny, default_allow, ip) <=>
          (\E d \in D : \A a \in A : a.len <= d.len) \/ (A = {} /\ D = {} /\ ~default_allow)
    <3>1. allow \in SUBSET Rule /\ deny \in SUBSET Rule /\ default_allow \in BOOLEAN
      BY <2>1, Zenon
    <3> QED
      BY <3>1, DeniedIs
  <2>7. Denied(allow, fewer_deny, default_allow, ip) <=>
          (\E d \in FD : \A a \in A : a.len <= d.len) \/ (A = {} /\ FD = {} /\ ~default_allow)
    <3>1. fewer_deny \in SUBSET Rule
      BY <2>1, Zenon
    <3> QED
      BY <2>1, <3>1, DeniedIs
  <2>8. Denied(fewer_allow, deny, default_allow, ip) <=>
          (\E d \in D : \A a \in FA : a.len <= d.len) \/ (FA = {} /\ D = {} /\ ~default_allow)
    <3>1. fewer_allow \in SUBSET Rule
      BY <2>1, Zenon
    <3> QED
      BY <2>1, <3>1, DeniedIs
  <2> HIDE DEF A, D, FA, FD
  <2>9. Denied(allow, fewer_deny, default_allow, ip) => Denied(allow, deny, default_allow, ip)
    BY <2>2, <2>6, <2>7, Zenon
  <2>10. Denied(allow, deny, default_allow, ip) => Denied(fewer_allow, deny, default_allow, ip)
    BY <2>2, <2>6, <2>8, Zenon
  <2> QED
    BY <2>3, <2>4, <2>5, <2>9, <2>10, Zenon
<1> QED
  BY <1>1, LoadInvariance, PTL
=============================================================================
