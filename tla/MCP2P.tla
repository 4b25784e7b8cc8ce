------------------------------- MODULE MCP2P ---------------------------------
(* Two nodes with NodeInfos that each trip one check of Validate or       *)
(* CompatibleWith, next to one that passes them all; our node dials.      *)
EXTENDS P2P

CONSTANTS nA, nB

Good == [version |-> << "1", "0", "0" >>, network |-> "main", channels |-> << 1, 2 >>,
         moniker |-> "text", others |-> << "text" >>, listen |-> "addr", big |-> FALSE]

MCInfos ==
  { Good,
    [Good EXCEPT !.channels = << 1, 1 >>],                   \* duplicate channel
    [Good EXCEPT !.channels = [i \in 1 .. 17 |-> i]],        \* too many channels
    [Good EXCEPT !.channels = << >>, !.listen = ""],         \* no channels
    [Good EXCEPT !.channels = << 3 >>],                      \* no common channel
    [Good EXCEPT !.version = << "1", "0" >>],                \* malformed version
    [Good EXCEPT !.version = << "2", "0", "0" >>],           \* other major
    [Good EXCEPT !.network = "test"],                        \* other network
    [Good EXCEPT !.others = << "text", "bad" >>],            \* bad Other entry
    [Good EXCEPT !.moniker = "bad", !.listen = "bad"],       \* bad Moniker
    [Good EXCEPT !.listen = "bad"],                          \* bad ListenAddr
    [Good EXCEPT !.big = TRUE] }                             \* over MaxNodeInfoSize
====
