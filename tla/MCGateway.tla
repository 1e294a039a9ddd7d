------------------------------ MODULE MCGateway ------------------------------
(***************************************************************************)
(* Small configurations for Gateway.                                       *)
(***************************************************************************)
EXTENDS Gateway, TLC

CONSTANTS d1, d2

Str(x) == [go |-> "string", v |-> x]
Int(x) == [go |-> "int", v |-> x]
Float(halves) == [go |-> "float64", v |-> halves]

\* DeviceMeta always gives an ip and an int port, which are "" and 0 by default.
Meta(ip) == [ip |-> Str(ip), port |-> Int(0)]

Tcp(ip, port, points) ==
  [protocol |-> "tcpclient", config |-> [port |-> port], meta |-> Meta(ip),
   params |-> [request_hex |-> Str("q")], points |-> points, table |-> <<>>]

Slmp(ip, points) ==
  [protocol |-> "slmp", config |-> [port |-> Str(1)], meta |-> Meta(ip),
   params |-> [port |-> Str(9)], points |-> points, table |-> <<>>]

\* The port is only in protocols.yaml, behind the one DeviceMeta injects.
Hidden(ip, points) == [Slmp(ip, points) EXCEPT !.config = [slot |-> Int(1)]]

S7(ip, port, points) ==
  [protocol |-> "s7", config |-> [port |-> port], meta |-> Meta(ip),
   params |-> [rack |-> Int(0)], points |-> points, table |-> <<>>]

Snmp(ip, points) ==
  [protocol |-> "snmp", config |-> [port |-> Float(322)], meta |-> Meta(ip),
   params |-> [community |-> Str("c"), oid |-> Str("o")], points |-> points, table |-> <<>>]

Http(points) ==
  [protocol |-> "http", config |-> [url |-> Str("u"), method |-> Str("GET")],
   meta |-> Meta(""), params |-> [mock |-> Int(0)], points |-> points, table |-> <<>>]

\* config["points"] gives the client its table; without it the table is empty.
Bacnet(ip, port, points, table) ==
  [protocol |-> "bacnet", config |-> [port |-> port], meta |-> Meta(ip),
   params |-> [object_device |-> Int(1)], points |-> points, table |-> table]

\* An ip that is not a string, which only http does not assert.
OddIp(points) ==
  [Http(points) EXCEPT !.config = [url |-> Str("u"), method |-> Str("GET"), ip |-> Int(1)]]

P(name, addr) == [name |-> name, addr |-> addr]

One == <<P("a", "1")>>
Two == <<P("a", "1"), P("b", "2")>>
\* The second point's address is the first one's name; the third is apart.
Crossed == <<P("a", "1"), P("b", "a"), P("c", "3")>>

On(type) == [type |-> type, enable |-> TRUE]
Off(type) == [type |-> type, enable |-> FALSE]

Both(x, y, chans) ==
  [linked |-> {"bacnet", "tcpclient", "slmp", "s7", "snmp", "http"},
   device |-> d1 :> x @@ d2 :> y, channels |-> chans]

\* The program as the repository builds it.
Built(x, y, chans) == [Both(x, y, chans) EXCEPT !.linked = {"bacnet"}]

MCSettings ==
  { \* the build as it is: a driver that is not linked, a fraction of a port, and
    \* two devices with one client, whose points are the first one's
    Built(S7("h", Int(102), One), Bacnet("", Int(0), Two, "1" :> "a"), <<On("mqtt")>>),
    Built(Bacnet("h", Float(95617), Crossed, "1" :> "a" @@ "3" :> "c"),
          Bacnet("h", Int(47808), Two, "1" :> "b" @@ "2" :> "b"), <<On("http")>>),
    \* string ports: two endpoints of one ip, one client
    Both(Tcp("h", Str(1), Two), Tcp("h", Str(2), One), <<On("http")>>),
    \* clients of their own, and no uplink
    Both(Tcp("h", Str(1), One), Tcp("i", Str(1), One), <<>>),
    \* the injected port hides the one of protocols.yaml
    Both(Hidden("h", One), Snmp("h", Two), <<On("nats")>>),
    \* the same port on two ips, and on one
    Both(S7("h", Int(102), Crossed), S7("i", Int(102), Two), <<On("mqtt"), On("http"), On("kafka")>>),
    Both(S7("h", Int(102), One), S7("h", Float(204), Two), <<On("file"), On("http"), On("redis")>>),
    Both(Http(One), Slmp("h", Two), <<Off("kafka"), On("mqtt")>>),
    \* an ip that counts as "", and a device without points
    Both(Http(One), OddIp(Two), <<On("http")>>),
    Both(OddIp(One), S7("h", Int(102), <<>>), <<On("mqtt")>>) }
=============================================================================
