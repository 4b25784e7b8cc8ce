------------------------------- MODULE Bootcli -------------------------------
(***************************************************************************)
(* The boot client of src/bootcli/bootcli.go: GetSeeds asks a boot server  *)
(* (an http(s) URL) or reads a file for the seed nodes and this node's     *)
(* type, and publishes the type in LocalNodeType under nodeTypeLocker.     *)
(*                                                                         *)
(* The server side (HttpPost, the JSON decoder, ReadFile, hexutil.Decode,  *)
(* net.ParseIP, the signer) is outside src/: each is a nondeterministic    *)
(* outcome.  A response is [ok, code, type, seeds]: ok is FALSE when       *)
(* json.Unmarshal fails.  A seed is [pub, ips, ports] as in Rnode and its  *)
(* Endpoint: ports maps a protocol name to the int in the JSON.            *)
(***************************************************************************)
EXTENDS Naturals, Sequences, SequencesExt, FiniteSets, FiniteSetsExt

CONSTANTS
  BadPubKeys,  \* pubkey strings hexutil.Decode rejects
  BadIPs,      \* endpoint strings net.ParseIP rejects (it returns nil)
  SeedLists,   \* seed lists a response or a seed file may carry
  NodeTypes,   \* values of resp.Type
  Codes        \* values of resp.Code

Succ == 0
UDP == "udp"
TCP == "tcp"
RetryLimit == 3     \* `if retry > 3 { return }`
SleepUnit == 3      \* time.Sleep(time.Second * time.Duration(3*retry))
NoIP == "<nil>"     \* a Node whose IP is nil
Sources == {"http", "file", ""}   \* bootSouce: a URL, a file path, empty

Responses ==
  {[ok |-> FALSE, code |-> Succ, type |-> 0, seeds |-> << >>]}
    \cup [ok : {TRUE}, code : Codes, type : NodeTypes, seeds : SeedLists]

VARIABLES
  pc,            \* "start" | "read" | "sign" | "post" | "set" | "done"
  retry,         \* the retry counter of the HttpPost loop
  posts,         \* HttpPost calls made so far
  slept,         \* seconds slept between posts
  input,         \* the seed list handed to RapNodes
  nodes,         \* the named result nodes
  nodeType,      \* the named result localNodeType
  errKind,       \* which error the named result err holds ("none" if nil)
  LocalNodeType  \* the package variable

vars == << pc, retry, posts, slept, input, nodes, nodeType, errKind, LocalNodeType >>

(* crypto.Keccak256Hash of the decoded pubkey: injective on its inputs.     *)
NodeID(pub) == << "keccak256", pub >>

(* uint16(v) of a Go int: the low 16 bits.                                 *)
Uint16(v) == v % 65536

ParseIP(s) == IF s \in BadIPs THEN NoIP ELSE s

(* The switch over seeds[i].Endpoint.Port: the last write of a key wins,   *)
(* and a map has each key once.                                            *)
PortOf(seed, proto) ==
  IF proto \in DOMAIN seed.ports THEN Uint16(seed.ports[proto]) ELSE 0

(* Variant: a seed whose pubkey does not decode ends the loop.             *)
RapNodesBreak(seeds) ==
  LET SeedNodes(s) ==
        IF Len(s.ips) = 0
        THEN << [id |-> NodeID(s.pub), ip |-> NoIP, udp |-> 0, tcp |-> 0] >>
        ELSE [j \in 1 .. Len(s.ips) |->
                [id |-> NodeID(s.pub), ip |-> ParseIP(s.ips[j]),
                 udp |-> PortOf(s, UDP), tcp |-> PortOf(s, TCP)]]
      Step(acc, s) ==
        IF acc.stop \/ s.pub \in BadPubKeys THEN [acc EXCEPT !.stop = TRUE]
        ELSE [acc EXCEPT !.out = @ \o SeedNodes(s)]
  IN FoldLeft(Step, [out |-> << >>, stop |-> FALSE], seeds).out

(* RapNodes: one Node without an address for a seed with no IP, otherwise  *)
(* one Node per IP string; a pubkey that does not decode skips the seed.   *)
RapNodes(seeds) ==
  LET SeedNodes(s) ==
        IF Len(s.ips) = 0
        THEN << [id |-> NodeID(s.pub), ip |-> NoIP, udp |-> 0, tcp |-> 0] >>
        ELSE [j \in 1 .. Len(s.ips) |->
                [id |-> NodeID(s.pub), ip |-> ParseIP(s.ips[j]),
                 udp |-> PortOf(s, UDP), tcp |-> PortOf(s, TCP)]]
      Step(acc, s) ==
        IF s.pub \in BadPubKeys THEN acc ELSE acc \o SeedNodes(s)
  IN FoldLeft(Step, << >>, seeds)

(* What GetSeedsFromBootSvr and parseAccounts do with a decoded response;  *)
(* parseAccounts does not look at Code.                                    *)
Decoded(r, checkCode) ==
  CASE ~r.ok                        -> [err |-> "json", n |-> << >>, t |-> 0, in |-> << >>]
    [] checkCode /\ r.code /= Succ  -> [err |-> "code", n |-> << >>, t |-> 0, in |-> << >>]
    [] OTHER -> [err |-> "none", n |-> RapNodes(r.seeds), t |-> r.type, in |-> r.seeds]

Return(d) ==
  /\ errKind' = d.err
  /\ nodes' = d.n
  /\ nodeType' = d.t
  /\ input' = d.in

Init ==
  /\ pc = "start"
  /\ retry = 0
  /\ posts = 0
  /\ slept = 0
  /\ input = << >>
  /\ nodes = << >>
  /\ nodeType = 0
  /\ errKind = "none"
  /\ LocalNodeType = 0

(* GetSeeds: an http(s) source goes to GetSeedsFromBootSvr, anything else  *)
(* to getSeedsFromFile, which rejects an empty name at once.               *)
GetSeeds(src) ==
  /\ pc = "start"
  /\ pc' = CASE src = "http" -> "sign" [] src = "" -> "set" [] OTHER -> "read"
  /\ errKind' = IF src = "" THEN "empty" ELSE errKind
  /\ UNCHANGED << retry, posts, slept, input, nodes, nodeType, LocalNodeType >>

(* getSeedsFromFile: ReadFile fails, or parseAccounts decodes the file.    *)
ReadSeedFile(readOk, r) ==
  /\ pc = "read"
  /\ pc' = "set"
  /\ IF readOk THEN Return(Decoded(r, FALSE))
     ELSE Return([err |-> "read", n |-> << >>, t |-> 0, in |-> << >>])
  /\ UNCHANGED << retry, posts, slept, LocalNodeType >>

(* priv.Sign of the md5 of the time string; an error returns at once.      *)
Sign(signOk) ==
  /\ pc = "sign"
  /\ pc' = IF signOk THEN "post" ELSE "set"
  /\ errKind' = IF signOk THEN errKind ELSE "sign"
  /\ UNCHANGED << retry, posts, slept, input, nodes, nodeType, LocalNodeType >>

(* Variant: the loop gives up one post early.                              *)
HttpPostFailEarly ==
  /\ pc = "post"
  /\ posts' = posts + 1
  /\ retry' = retry + 1
  /\ IF retry + 1 >= RetryLimit
     THEN pc' = "set" /\ errKind' = "post" /\ UNCHANGED slept
     ELSE slept' = slept + SleepUnit * (retry + 1) /\ UNCHANGED << pc, errKind >>
  /\ UNCHANGED << input, nodes, nodeType, LocalNodeType >>

(* HttpPost fails: retry++, give up after the fourth failure, else sleep   *)
(* 3*retry seconds and post again.                                         *)
HttpPostFail ==
  /\ pc = "post"
  /\ posts' = posts + 1
  /\ retry' = retry + 1
  /\ IF retry + 1 > RetryLimit
     THEN pc' = "set" /\ errKind' = "post" /\ UNCHANGED slept
     ELSE slept' = slept + SleepUnit * (retry + 1) /\ UNCHANGED << pc, errKind >>
  /\ UNCHANGED << input, nodes, nodeType, LocalNodeType >>

(* HttpPost answers r: Unmarshal, the Code check, RapNodes.                *)
HttpPostOk(r) ==
  /\ pc = "post"
  /\ pc' = "set"
  /\ posts' = posts + 1
  /\ Return(Decoded(r, TRUE))
  /\ UNCHANGED << retry, slept, LocalNodeType >>

(* GetSeeds, whatever the outcome: LocalNodeType = localNodeType.          *)
SetLocalNodeType ==
  /\ pc = "set"
  /\ pc' = "done"
  /\ LocalNodeType' = nodeType
  /\ UNCHANGED << retry, posts, slept, input, nodes, nodeType, errKind >>

Next ==
  \/ \E src \in Sources : GetSeeds(src)
  \/ \E ok \in BOOLEAN, r \in Responses : ReadSeedFile(ok, r)
  \/ \E ok \in BOOLEAN : Sign(ok)
  \/ HttpPostFail
  \/ \E r \in Responses : HttpPostOk(r)
  \/ SetLocalNodeType

Spec == Init /\ [][Next]_vars

-----------------------------------------------------------------------------
NodeRec == [id : {NodeID(p) : p \in UNION {{s[i].pub : i \in DOMAIN s} : s \in SeedLists}},
            ip : UNION {UNION {{ParseIP(s[i].ips[j]) : j \in DOMAIN s[i].ips} : i \in DOMAIN s} : s \in SeedLists} \cup {NoIP},
            udp : 0 .. 65535, tcp : 0 .. 65535]

TypeOK ==
  /\ pc \in {"start", "read", "sign", "post", "set", "done"}
  /\ retry \in 0 .. RetryLimit + 1
  /\ posts \in Nat /\ slept \in Nat
  /\ input \in SeedLists
  /\ nodes \in Seq(NodeRec)
  /\ nodeType \in NodeTypes \cup {0} /\ LocalNodeType \in NodeTypes \cup {0}
  /\ errKind \in {"none", "empty", "read", "json", "sign", "post", "code"}

(* Reference for RapNodes: the good seeds in order, each contributing      *)
(* max(1, number of IPs) nodes; the k-th node of a seed carries its k-th   *)
(* IP, parsed, and the truncated ports of the seed.                        *)
Width(s) == IF Len(s.ips) = 0 THEN 1 ELSE Len(s.ips)
Offset(seeds, i) ==
  MapThenSumSet(LAMBDA k : Width(seeds[k]),
                {k \in 1 .. i - 1 : seeds[k].pub \notin BadPubKeys})
ExpectedNode(s, k) ==
  [id |-> NodeID(s.pub),
   ip |-> IF Len(s.ips) = 0 THEN NoIP ELSE ParseIP(s.ips[k]),
   udp |-> IF Len(s.ips) = 0 THEN 0 ELSE PortOf(s, UDP),
   tcp |-> IF Len(s.ips) = 0 THEN 0 ELSE PortOf(s, TCP)]
NodesMatch(ns, seeds) ==
  /\ Len(ns) = Offset(seeds, Len(seeds) + 1)
  /\ \A i \in DOMAIN seeds : seeds[i].pub \notin BadPubKeys =>
       \A k \in 1 .. Width(seeds[i]) :
         ns[Offset(seeds, i) + k] = ExpectedNode(seeds[i], k)

(* When GetSeeds succeeds, the nodes it returns are exactly those of the   *)
(* seeds the server (or file) listed, in order, a seed with a bad pubkey   *)
(* skipped and not ending the list (RapNodes' continue).                   *)
RapNodesMatchesSeeds ==
  pc \in {"set", "done"} /\ errKind = "none" => NodesMatch(nodes, input)

(* The HttpPost loop makes at most four posts; it reports a post error     *)
(* only after four failed posts, having slept 3, 6 and 9 seconds between   *)
(* them (GetSeedsFromBootSvr's retry > 3 and 3*retry).                     *)
BoundedRetries ==
  /\ posts <= RetryLimit + 1
  /\ errKind = "post" =>
       /\ posts = RetryLimit + 1
       /\ slept = (SleepUnit * RetryLimit * (RetryLimit + 1)) \div 2

=============================================================================
