------------------------------- MODULE Access -------------------------------
(***************************************************************************)
(* crates/heeler-server/src/access.rs: the table of allow and deny         *)
(* prefixes and its evaluation.  An address is its family and its bits as  *)
(* a number; the widths are constants.                                     *)
(***************************************************************************)
EXTENDS Integers, FiniteSets, FiniteSetsExt

CONSTANTS
  Width,         \* the bits of an address per family: 32 and 128 in the code
  MappedPrefix   \* the bits of ::ffff:0:0/96 above those of an IPv4 address

ASSUME AccessAssumption ==
  /\ Width \in [{"v4", "v6"} -> Nat]
  /\ Width["v4"] < Width["v6"]
  /\ MappedPrefix \in 0 .. 2 ^ (Width["v6"] - Width["v4"]) - 1

Family == {"v4", "v6"}
IpAddr == UNION {[family : {f}, bits : 0 .. 2 ^ Width[f] - 1] : f \in Family}

\* A rule of the configuration is a prefix, or an address alone.
Prefix == UNION {[family : {f}, bits : 0 .. 2 ^ Width[f] - 1, len : 0 .. Width[f]] : f \in Family}
Rule == Prefix \cup IpAddr

\* parse_rules
Net(rule) ==
  IF "len" \in DOMAIN rule
  THEN rule
  ELSE [family |-> rule.family, bits |-> rule.bits, len |-> Width[rule.family]]
Nets(rules) == {Net(r) : r \in rules}

\* canonicalise
Canonical(ip) ==
  IF ip.family = "v6" /\ ip.bits \div 2 ^ Width["v4"] = MappedPrefix
  THEN [family |-> "v4", bits |-> ip.bits % 2 ^ Width["v4"]]
  ELSE ip

\* IpNet::contains: host bits of the rule do not matter.
Contains(net, ip) ==
  /\ net.family = ip.family
  /\ LET host == 2 ^ (Width[net.family] - net.len)
     IN  net.bits \div host = ip.bits \div host

\* longest_match; NoMatch is shorter than every prefix.
NoMatch == -1
\* Mutated form: the shortest match.
ShortestMatch(nets, ip) ==
  LET lens == {net.len : net \in {n \in nets : Contains(n, ip)}}
  IN  IF lens = {} THEN NoMatch ELSE Min(lens)

LongestMatch(nets, ip) ==
  Max({NoMatch} \cup {net.len : net \in {n \in nets : Contains(n, ip)}})

\* Mutated form: allow wins a tie.
DeniedUnlessTie(allow, deny, default_allow, ip) ==
  LET best_allow == LongestMatch(Nets(allow), Canonical(ip))
      best_deny == LongestMatch(Nets(deny), Canonical(ip))
  IN  IF best_allow = NoMatch /\ best_deny = NoMatch
      THEN ~default_allow
      ELSE best_deny > best_allow

\* AccessControl::evaluate
Denied(allow, deny, default_allow, ip) ==
  LET best_allow == LongestMatch(Nets(allow), Canonical(ip))
      best_deny == LongestMatch(Nets(deny), Canonical(ip))
  IN  IF best_allow = NoMatch /\ best_deny = NoMatch
      THEN ~default_allow
      ELSE best_deny >= best_allow
=============================================================================
