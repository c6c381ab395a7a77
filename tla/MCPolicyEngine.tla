----------------------------- MODULE MCPolicyEngine -----------------------------
EXTENDS PolicyEngine

(* The library: two keys, each locked or not at each of the four layers, every
   order of writes. *)
MCNoKey == ""
MCKey == {MCNoKey, "k"}
MCValueOf == [k \in MCKey |-> {"v", "w"}]

(* The command line: up to three options, in any order, and stray words. *)
MCSplitOnce == [w \in {"user=v", "user=w", "enterprise=v", "nobody=v"} |->
  CASE w = "user=v" -> [layer |-> "user", value |-> "v"]
    [] w = "user=w" -> [layer |-> "user", value |-> "w"]
    [] w = "enterprise=v" -> [layer |-> "enterprise", value |-> "v"]
    [] OTHER -> [layer |-> "nobody", value |-> "v"]]
Options == {<<"--key", "k">>, <<"--set", "bogus">>, <<"--lock", "user">>, <<"--lock", "enterprise">>,
            <<"--lock">>}
           \cup {<<"--set", w>> : w \in DOMAIN MCSplitOnce}
MCCommandLine == {<<>>, <<"--key">>} \cup Options \cup {a \o <<"--key">> : a \in Options}
                 \cup {a \o b \o <<"--set">> : a, b \in Options}
                 \cup {a \o b : a, b \in Options} \cup {a \o b \o c : a, b, c \in Options}

(* Bundles of up to three signatures, genuine or not. *)
Signature == [alg : {"Ed25519", "MlDsa65"}, genuine : BOOLEAN]
MCBundle == UNION {[1 .. n -> Signature] : n \in 0 .. 3}

(* A refusal with up to two inputs, and the simulator's line. *)
MCDecision == {[decision |-> "deny", source |-> 1]}
MCResidency == [k |-> 1, v |-> 2]
MCInput == {MCResidency, [k |-> 2, v |-> 1]}

(* The bridge: a user and an enterprise that write. *)
MCWriters == {1, 3}

ASSUME LineAssumption ==
  \A d \in MCDecision, inputs \in SUBSET [k : {1, 2}, v : {1, 2}] :
    LineIsReproducible(d, inputs)
===============================================================================
