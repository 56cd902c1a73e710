----------------------------- MODULE MCSettings -----------------------------
(* Command lines for Settings: plain flags; a protocol and a password from   *)
(* the environment, with a flag that is overruled; and a line of mistyped    *)
(* values without a password; and variants of each that are refused.          *)
EXTENDS Settings

MCGood ==
  {[host |-> "ipv4", ports |-> {"-p"}, target |-> "web",
    flag |-> [password |-> "pw", identity |-> "id", delay |-> 7, lifetime |-> DefaultLifetime,
              proto |-> "both", transport |-> "quic", compress |-> TRUE],
    env |-> NoEnv],
   [host |-> "domain", ports |-> {}, target |-> "dns",
    flag |-> [password |-> "", identity |-> "", delay |-> 0, lifetime |-> 0,
              proto |-> "tcp", transport |-> "tcp", compress |-> TRUE],
    env |-> [NoEnv EXCEPT !.proto = "udp", !.password = "secret", !.delay = 9]],
   [host |-> "domain", ports |-> {"host:port"}, target |-> "web",
    flag |-> [password |-> "", identity |-> "id", delay |-> DefaultDelay, lifetime |-> 60,
              proto |-> "uudp", transport |-> "quick", compress |-> FALSE],
    env |-> NoEnv]}

MCLines ==
  MCGood \cup {[line EXCEPT !.host = "label"] : line \in MCGood}
         \cup {[line EXCEPT !.ports = {"-p", "host:port"}] : line \in MCGood}
=============================================================================
