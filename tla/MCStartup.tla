----------------------------- MODULE MCStartup ------------------------------
(***************************************************************************)
(* Families of inputs: what matters to the order of the start-up, in every *)
(* combination; the layers that can consent to a public bind, and those of *)
(* other settings; files that are missing or unusable; values at the edges *)
(* of validate, two at a time; and tables of access rules over narrow      *)
(* addresses.                                                              *)
(***************************************************************************)
EXTENDS Startup, TLC

CONSTANTS Uids, Gids  \* what the configured user and group may resolve to

MCWidth == [v4 |-> 2, v6 |-> 4]
MCDefaultAllow == {[family |-> "v4", bits |-> 2, len |-> 1], [family |-> "v6", bits |-> 1, len |-> 4]}

AnyHost == [uid |-> 7, primary_gid |-> 8, gid |-> 9, keeps_capabilities |-> FALSE,
            net_bind |-> FALSE]
Input(command, path_given, file, env, args, host) ==
  [command |-> command, path_given |-> path_given, file |-> file, env |-> env, args |-> args,
   host |-> host]

\* One key of a layer that may be absent.
Perhaps(key, values) == {<<>>} \cup {key :> v : v \in values}
Join(f, g) == {a @@ b : a \in f, b \in g}

Loopback(port) == Address("loopback", port)
Public(port) == Address("other", port)

-----------------------------------------------------------------------------
Hosts ==
  [uid : Uids, primary_gid : Gids, gid : Gids, keeps_capabilities : BOOLEAN, net_bind : BOOLEAN]

StartFiles ==
  [bind : {<<Loopback(123), Address("private", 11123)>>, <<Loopback(11123), Public(123)>>,
           <<Address("link_local", 0)>>},
   strict_public_bind : BOOLEAN, public_bind_acknowledged : {TRUE},
   drop_privileges : BOOLEAN, user : {"named", "numeric"}, group : {"", "named"},
   chroot_dir : {"", "/jail"},
   metrics_enabled : BOOLEAN, metrics_bind : {Loopback(0), Loopback(80)}]

StartInputs == {Input("serve", FALSE, f, <<>>, <<>>, h) : f \in StartFiles, h \in Hosts}

-----------------------------------------------------------------------------
Binds == {<<Loopback(11123)>>, <<Public(11123)>>}

ConsentInputs ==
  {Input("serve", TRUE, ("drop_privileges" :> FALSE) @@ f, e, a, AnyHost) :
     f \in Join(Perhaps("bind", Binds),
                Join(Perhaps("public_bind_acknowledged", BOOLEAN),
                     Perhaps("strict_public_bind", {FALSE}))),
     e \in Join(Perhaps("bind", Binds \cup {Unusable}),
                Perhaps("public_bind_acknowledged", BOOLEAN \cup {Unusable})),
     a \in Join(Perhaps("bind", Binds), Perhaps("public_bind_acknowledged", {TRUE}))}

OtherLayersInputs ==
  {Input("serve", FALSE, f, e, ("bind" :> <<Loopback(11123)>>) @@ a, AnyHost) :
     f \in Join(Perhaps("stratum", {1, 3}), Perhaps("reference_id", {"GPS", "HLER"})),
     e \in Join(Perhaps("stratum", {1, Unusable}), Perhaps("reference_id", {"GPS", "HLER", Unusable})),
     a \in Perhaps("stratum", {1, 2})}
  \cup
  {Input("serve", FALSE, ("bind" :> <<Loopback(11123)>>) @@ f, e, a, AnyHost) :
     f \in Join(Perhaps("metrics_enabled", {TRUE}), Perhaps("level", {Unusable})),
     e \in Join(Perhaps("metrics_enabled", BOOLEAN), Perhaps("metrics_bind", {Loopback(9181)})),
     a \in Join(Perhaps("metrics_enabled", {TRUE}),
                Join(Perhaps("metrics_bind", {Loopback(9182)}), Perhaps("level", {"debug"})))}

FileInputs ==
  {Input(c, p, f, <<>>, <<>>, AnyHost) :
     c \in {"serve", "check-config"}, p \in BOOLEAN, f \in {NoFile, Unusable, <<>>}}

-----------------------------------------------------------------------------
Edges ==
  [bind |-> {<<>>}, workers |-> {0, 2},
   max_packet_size |-> {PACKET_SIZE - 1, MAX_PACKET_SIZE, MAX_PACKET_SIZE + 1},
   versions |-> {{}, {4}, {3, 5}}, stratum |-> {0, 1, 15, 16}, reference_id |-> {"GPS", Unusable},
   poll |-> {-1, 0, 17, 18}, precision |-> {-31, -30, 0, 1},
   root_delay_ms |-> {-12, -10, 9, 10, 63}, root_dispersion_ms |-> {-1, 19, 20, 64},
   leap_indicator |-> {3, 4}, source |-> {Unusable},
   max_backward_jump_ms |-> {0}, max_forward_jump_ms |-> {0},
   allow |-> {{}, {Unusable}}, deny |-> {{Unusable}}, default_action |-> {"allow", Unusable},
   rate_limit_enabled |-> {FALSE}, requests_per_second |-> {0, 1}, burst |-> {0, 1},
   global_requests_per_second |-> {0, 1}, global_burst |-> {0, 1},
   client_entry_ttl_seconds |-> {0}, max_client_entries |-> {0},
   format |-> {"json", "compact", Unusable}, level |-> {Unusable}, user |-> {""}]

EdgeFiles == UNION {{key :> v : v \in Edges[key]} : key \in DOMAIN Edges}

EdgeInputs ==
  {Input(c, TRUE, f @@ g, <<>>, <<>>, AnyHost) :
     c \in {"serve", "check-config"}, f \in EdgeFiles, g \in EdgeFiles}

-----------------------------------------------------------------------------
\* All prefixes of IPv4, some with host bits set, one bare address of each family, and
\* IPv6 prefixes that hold all, the mapped half, or one address, mapped or not.
Rules ==
  {r \in Rule : r.family = "v4" /\ "len" \in DOMAIN r /\ (r.bits % 2 = 0 \/ r.len = 2)}
  \cup {[family |-> "v4", bits |-> 1], [family |-> "v6", bits |-> 6]}
  \cup {[family |-> "v6", bits |-> 0, len |-> 0], [family |-> "v6", bits |-> 4, len |-> 2],
        [family |-> "v6", bits |-> 5, len |-> 4], [family |-> "v6", bits |-> 9, len |-> 4]}

Prefixes == {r \in Rules : r.family = "v4" /\ "len" \in DOMAIN r}

Tables == {<<{}, {}>>} \cup {<<{r}, {}>> : r \in Rules} \cup {<<{}, {r}>> : r \in Rules}
          \cup {<<{r, s}, {}>> : r \in Rules, s \in Rules}
          \cup {<<{r}, {s}>> : r \in Rules, s \in Rules}
          \cup {<<{}, {r, s}>> : r \in Rules, s \in Rules}
          \cup {<<{q}, {r, s}>> : q \in Prefixes, r \in Prefixes, s \in Prefixes}
          \cup {<<{q, r}, {s}>> : q \in Prefixes, r \in Prefixes, s \in Prefixes}

AccessInputs ==
  {Input("check-config", TRUE, [allow |-> t[1], deny |-> t[2], default_action |-> d], <<>>, <<>>,
         AnyHost) : t \in Tables, d \in {"allow", "deny"}}

MCInputs ==
  StartInputs \cup ConsentInputs \cup OtherLayersInputs \cup FileInputs \cup EdgeInputs
  \cup AccessInputs
=============================================================================
