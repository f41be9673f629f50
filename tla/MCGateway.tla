----------------------------- MODULE MCGateway -----------------------------
(* Instances of Gateway for TLC: one start per protocol, and starts that fail. *)
EXTENDS Gateway

Endpoint(protocol, modules) == [protocol |-> protocol, modules |-> modules]

Config(binary, paths, endpoints) ==
    [help |-> FALSE, arguments |-> TRUE, file |-> TRUE, logPath |-> TRUE, names |-> TRUE,
     binary |-> binary, modulePaths |-> paths, endpoints |-> endpoints]

QuicConfig == Config("none", {1}, <<Endpoint("QUIC", {1})>>)

MCConfigs == {
    QuicConfig,
    Config("none", {1}, <<Endpoint("INVALID", {2}), Endpoint("MQTT", {1})>>),
    Config("exists", {1, 2}, <<Endpoint("DUMMY", {1, 2})>>),
    Config("exists", {1, 2}, <<>>),
    Config("exists", {1}, <<Endpoint("DUMMY", {1, 2})>>),
    Config("missing", {1}, <<Endpoint("DUMMY", {1})>>),
    [QuicConfig EXCEPT !.help = TRUE],
    [QuicConfig EXCEPT !.arguments = FALSE],
    [QuicConfig EXCEPT !.file = FALSE],
    [QuicConfig EXCEPT !.names = FALSE]}

QuicConfigs == {QuicConfig}

=============================================================================
