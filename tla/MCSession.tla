----------------------------- MODULE MCSession -----------------------------
(* Configs for Session.  Those tried twice are TCP with compression, and both *)
(* protocols over TCP; QUIC, and the choice between QUIC and TCP, get one      *)
(* attempt each, which may find any entry in the cache.                        *)
EXTENDS Session

ConfigOf(proto, transport, compress) ==
  [Proto |-> proto, Transport |-> transport, Compress |-> compress]

MCRetried == {ConfigOf("tcp", "tcp", TRUE), ConfigOf("both", "tcp", FALSE)}

MCConfigs ==
  MCRetried \cup {ConfigOf("both", "auto", FALSE), ConfigOf("udp", "quic", TRUE)}
=============================================================================
