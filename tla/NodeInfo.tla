------------------------------- MODULE NodeInfo -------------------------------
(***************************************************************************)
(* The P2P handshake of src/libs/p2p: peerConn.HandshakeTimeout (peer.go)  *)
(* sets a deadline on the connection, writes our NodeInfo and reads the    *)
(* peer's in parallel (cmn.Parallel), then removes the deadline; the       *)
(* received NodeInfo is then judged with NodeInfo.Validate and             *)
(* NodeInfo.CompatibleWith (node_info.go).                                 *)
(*                                                                         *)
(* Two nodes run the handshake against each other over one connection.    *)
(* A NodeInfo is a record [version, network, channels, moniker, others,    *)
(* listen, big]: version is the result of strings.Split(Version, "."),     *)
(* channels the Channels bytes in order, moniker and each of others one of *)
(* "text" (valid non-empty ASCII) or "bad", listen one of "" / "addr" /    *)
(* "bad" (NewNetAddressString fails), big that the encoding exceeds        *)
(* MaxNodeInfoSize.  The deadline firing is an action Timeout.             *)
(***************************************************************************)
EXTENDS Naturals, Sequences, SequencesExt, FiniteSets

CONSTANTS
  Nodes,    \* the two ends of the connection
  Infos,    \* the NodeInfos a node may have
  NoInfo    \* the zero peerNodeInfo, before a decode

maxNumChannels == 16
None == "none"

Peer(n) == CHOOSE m \in Nodes : m /= n

(* splitVersion: exactly three dot-separated parts.                        *)
splitVersion(v) == Len(v) = 3

(* Variant: Validate without the duplicate-channel loop.                   *)
ValidateNoDup(info) ==
  CASE Len(info.channels) > maxNumChannels           -> "toomany"
    [] info.moniker /= "text"                        -> "moniker"
    [] \E i \in DOMAIN info.others : info.others[i] /= "text" -> "other"
    [] info.listen = "bad"                           -> "addr"
    [] OTHER                                         -> "ok"

(* Validate: too many channels, a bad Moniker, a bad Other entry, a        *)
(* duplicate channel (the map of seen ids), then the ListenAddr.           *)
Validate(info) ==
  LET Seen(acc, ch) ==
        [seen |-> acc.seen \cup {ch}, dup |-> acc.dup \/ ch \in acc.seen]
      dup == FoldLeft(Seen, [seen |-> {}, dup |-> FALSE], info.channels).dup
  IN CASE Len(info.channels) > maxNumChannels           -> "toomany"
       [] info.moniker /= "text"                        -> "moniker"
       [] \E i \in DOMAIN info.others : info.others[i] /= "text" -> "other"
       [] dup                                           -> "dup"
       [] info.listen = ""                              -> "ok"
       [] info.listen = "bad"                           -> "addr"
       [] OTHER                                         -> "ok"

(* Variant: CompatibleWith without the network check.                      *)
CompatibleAnyNet(info, other) ==
  CASE ~splitVersion(info.version)                   -> "iversion"
    [] ~splitVersion(other.version)                  -> "oversion"
    [] info.version[1] /= other.version[1]           -> "major"
    [] Len(info.channels) = 0                        -> "ok"
    [] \E j \in DOMAIN info.channels, k \in DOMAIN other.channels :
          info.channels[j] = other.channels[k]       -> "ok"
    [] OTHER                                         -> "nochannel"

(* CompatibleWith: our version, theirs, the major version, the network;    *)
(* no channels of ours accepts anyone, else OUTER_LOOP looks for a common  *)
(* channel.                                                                *)
CompatibleWith(info, other) ==
  CASE ~splitVersion(info.version)                   -> "iversion"
    [] ~splitVersion(other.version)                  -> "oversion"
    [] info.version[1] /= other.version[1]           -> "major"
    [] info.network /= other.network                 -> "network"
    [] Len(info.channels) = 0                        -> "ok"
    [] \E j \in DOMAIN info.channels, k \in DOMAIN other.channels :
          info.channels[j] = other.channels[k]       -> "ok"
    [] OTHER                                         -> "nochannel"

VARIABLES
  info,      \* info[n]: n's own NodeInfo
  hs,        \* "start" | "io" | "clear" | "ok" | "err": where HandshakeTimeout is
  deadline,  \* a deadline is set on n's side of the connection
  wr,        \* n's EncodeWriterWithType: None | "ok" | "err"
  rd,        \* n's DecodeReaderWithType: None | "ok" | "err"
  got,       \* the peerNodeInfo n decoded, or NoInfo
  decided    \* None | "accepted" | "rejected": what the caller made of it

vars == << info, hs, deadline, wr, rd, got, decided >>

Init ==
  /\ info \in [Nodes -> Infos]
  /\ hs = [n \in Nodes |-> "start"]
  /\ deadline = [n \in Nodes |-> FALSE]
  /\ wr = [n \in Nodes |-> None]
  /\ rd = [n \in Nodes |-> None]
  /\ got = [n \in Nodes |-> NoInfo]
  /\ decided = [n \in Nodes |-> None]

(* Variant: SetDeadline succeeds but sets no deadline.                     *)
SetDeadlineNone(n, ok) ==
  /\ hs[n] = "start"
  /\ hs' = [hs EXCEPT ![n] = IF ok THEN "io" ELSE "err"]
  /\ UNCHANGED << info, deadline, wr, rd, got, decided >>

(* conn.SetDeadline(now + timeout); its error returns at once.             *)
SetDeadline(n, ok) ==
  /\ hs[n] = "start"
  /\ hs' = [hs EXCEPT ![n] = IF ok THEN "io" ELSE "err"]
  /\ deadline' = [deadline EXCEPT ![n] = ok]
  /\ UNCHANGED << info, wr, rd, got, decided >>

(* The writer task: the encoding goes into the connection, or fails.       *)
Write(n, ok) ==
  /\ hs[n] = "io" /\ wr[n] = None
  /\ wr' = [wr EXCEPT ![n] = IF ok THEN "ok" ELSE "err"]
  /\ UNCHANGED << info, hs, deadline, rd, got, decided >>

(* The reader task: once the peer's bytes are there it decodes them; an    *)
(* encoding over MaxNodeInfoSize is refused.                               *)
Read(n) ==
  /\ hs[n] = "io" /\ rd[n] = None /\ wr[Peer(n)] = "ok"
  /\ IF info[Peer(n)].big
     THEN rd' = [rd EXCEPT ![n] = "err"] /\ UNCHANGED got
     ELSE rd' = [rd EXCEPT ![n] = "ok"] /\ got' = [got EXCEPT ![n] = info[Peer(n)]]
  /\ UNCHANGED << info, hs, deadline, wr, decided >>

(* The deadline passes while a task still blocks: its call fails.          *)
Timeout(n) ==
  /\ hs[n] = "io" /\ deadline[n]
  /\ \/ rd[n] = None /\ rd' = [rd EXCEPT ![n] = "err"] /\ UNCHANGED wr
     \/ wr[n] = None /\ wr' = [wr EXCEPT ![n] = "err"] /\ UNCHANGED rd
  /\ UNCHANGED << info, hs, deadline, got, decided >>

(* cmn.Parallel returns when both tasks have; trs.FirstError.              *)
IoDone(n) ==
  /\ hs[n] = "io" /\ wr[n] /= None /\ rd[n] /= None
  /\ hs' = [hs EXCEPT ![n] = IF wr[n] = "ok" /\ rd[n] = "ok" THEN "clear" ELSE "err"]
  /\ UNCHANGED << info, deadline, wr, rd, got, decided >>

(* conn.SetDeadline(time.Time{}) removes the deadline, or fails.           *)
ClearDeadline(n, ok) ==
  /\ hs[n] = "clear"
  /\ hs' = [hs EXCEPT ![n] = IF ok THEN "ok" ELSE "err"]
  /\ deadline' = [deadline EXCEPT ![n] = IF ok THEN FALSE ELSE @]
  /\ UNCHANGED << info, wr, rd, got, decided >>

(* The caller keeps the peer only when the handshake returned no error     *)
(* and the peer's NodeInfo validates and is compatible with ours.          *)
Decide(n) ==
  /\ hs[n] \in {"ok", "err"} /\ decided[n] = None
  /\ decided' = [decided EXCEPT ![n] =
       IF hs[n] = "ok" /\ Validate(got[n]) = "ok" /\ CompatibleWith(info[n], got[n]) = "ok"
       THEN "accepted" ELSE "rejected"]
  /\ UNCHANGED << info, hs, deadline, wr, rd, got >>

Step(n) ==
  \/ \E ok \in BOOLEAN : SetDeadline(n, ok)
  \/ \E ok \in BOOLEAN : Write(n, ok)
  \/ Read(n)
  \/ Timeout(n)
  \/ IoDone(n)
  \/ \E ok \in BOOLEAN : ClearDeadline(n, ok)
  \/ Decide(n)

Next == \E n \in Nodes : Step(n)

(* Each side is its own goroutine and the deadline is wall-clock time.     *)
Spec == Init /\ [][Next]_vars /\ \A n \in Nodes : WF_vars(Step(n))

-----------------------------------------------------------------------------
TypeOK ==
  /\ info \in [Nodes -> Infos]
  /\ hs \in [Nodes -> {"start", "io", "clear", "ok", "err"}]
  /\ deadline \in [Nodes -> BOOLEAN]
  /\ wr \in [Nodes -> {None, "ok", "err"}]
  /\ rd \in [Nodes -> {None, "ok", "err"}]
  /\ got \in [Nodes -> Infos \cup {NoInfo}]
  /\ decided \in [Nodes -> {None, "accepted", "rejected"}]

(* What Validate's doc comment promises, stated over the whole record:     *)
(* at most 16 channels, no channel twice, ASCII text fields, a well-formed *)
(* ListenAddr.                                                             *)
SafeInfo(i) ==
  /\ Len(i.channels) <= maxNumChannels
  /\ Cardinality(ToSet(i.channels)) = Len(i.channels)
  /\ i.moniker = "text"
  /\ \A k \in DOMAIN i.others : i.others[k] = "text"
  /\ i.listen /= "bad"

(* A peer the caller keeps sent exactly its own NodeInfo, and that info is *)
(* safe, well formed and on our network and major version, whatever order  *)
(* the two sides' reads, writes, timeouts and deadline calls ran in.       *)
AcceptedPeerOk ==
  \A n \in Nodes : decided[n] = "accepted" =>
     /\ got[n] = info[Peer(n)]
     /\ SafeInfo(got[n])
     /\ splitVersion(got[n].version) /\ splitVersion(info[n].version)
     /\ got[n].version[1] = info[n].version[1]
     /\ got[n].network = info[n].network

(* Each side's HandshakeTimeout returns, even when the other side fails    *)
(* before writing: the deadline bounds the blocking read.                  *)
EventuallyDecided == \A n \in Nodes : <>(decided[n] /= None)

=============================================================================
