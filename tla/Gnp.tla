-------------------------------- MODULE Gnp --------------------------------
(***************************************************************************)
(* One GNP connection from its first byte to the relay: the handshake of   *)
(* core/crypto.py, the client's opening in client/pool.py or               *)
(* client/connector.py, and the header parsing and dispatch of             *)
(* inbound/handler.py.                                                     *)
(*                                                                         *)
(* A drain sends one frame, and a frame is the sequence of items written   *)
(* since the last drain: EncryptedWriter seals its whole buffer as one     *)
(* AES-GCM frame and EncryptedReader.read returns one frame at most.       *)
(***************************************************************************)
EXTENDS Naturals, Sequences

CONSTANTS
    Modes,       \* ways the client opens: "pool" and "direct"
    BaseLens,    \* possible lengths of the JSON of the fixed settings
    UserAgents,  \* possible lengths of the inbound's user_agent
    MaxPayload,  \* bound: payload items a client sends
    MaxToggles   \* bound: changes of the client's enabled flag

ASSUME ModesAssumption == Modes \subseteq {"pool", "direct"}
ASSUME LensAssumption == BaseLens \subseteq Nat /\ UserAgents \subseteq Nat
ASSUME BoundsAssumption == MaxPayload \in Nat /\ MaxToggles \in Nat

VARIABLES
    mode,     \* what the client opens: a pool session or one connection
    base, ua, \* lengths of the settings' JSON and of the user agent
    enabled,  \* the client's row
    toggles,  \* changes of it so far
    cpc,      \* the client
    sent,     \* payload items it has sent
    spc,      \* the server's handler
    raw,      \* what its last read(512) returned
    out,      \* payload the handler passed on: to the target, or to MuxSession
    c2s, s2c, \* frames under way
    cut       \* the transport is lost

client == <<cpc, sent>>
server == <<spc, raw, out>>
config == <<mode, base, ua>>
vars == <<mode, base, ua, enabled, toggles, cpc, sent, spc, raw, out, c2s, s2c, cut>>

Headers == {"CFG", "TCP", "MUX"}

\* A frame that is one message or some headers, and one of payload items.
Plain(kinds) == [i \in 1 .. Len(kinds) |-> [kind |-> kinds[i], n |-> 0]]
Chunk(from, to) == [i \in 1 .. to - from + 1 |-> [kind |-> "DATA", n |-> from + i - 1]]

ClientPC == {"hello", "pubkey", "key", "cfg", "open", "failed"}
ServerPC == {"hello", "auth", "row", "pubkey", "cfg", "read", "parse", "check",
             "dial", "tcp", "mux", "closed", "refused"}

\* The handler has closed its writer.
HungUp == spc \in {"closed", "refused"}

TypeOK ==
    /\ mode \in {"pool", "direct"}
    /\ base \in BaseLens /\ ua \in UserAgents
    /\ enabled \in BOOLEAN /\ toggles \in 0 .. MaxToggles
    /\ cpc \in ClientPC /\ sent \in 0 .. MaxPayload
    /\ spc \in ServerPC
    /\ cut \in BOOLEAN
    /\ spc \in {"parse", "check", "dial"} => raw # <<>>

Init ==
    /\ mode \in Modes /\ base \in BaseLens /\ ua \in UserAgents
    /\ enabled \in BOOLEAN /\ toggles = 0
    /\ cpc = "hello" /\ sent = 0
    /\ spc = "hello" /\ raw = <<>> /\ out = <<>>
    /\ c2s = <<>> /\ s2c = <<>>
    /\ cut = FALSE
-----------------------------------------------------------------------------
(* Length of the JSON handed to the client in the CFG header.  Adding the   *)
(* ten characters of `, "ua": ""` and the user agent to the fixed settings, *)
(* or, where that is 255 or more, a truncated user agent.                   *)

WithUserAgent(b, u) == b + 10 + u
Available(b) == IF b + 8 <= 254 THEN 254 - b - 8 ELSE 0
Shorter(x, y) == IF x < y THEN x ELSE y

CfgLength(b, u) ==
    IF WithUserAgent(b, u) < 255
    THEN WithUserAgent(b, u)
    ELSE WithUserAgent(b, Shorter(u, Available(b)))

\* encode_header writes the length of a domain into one byte.
Encodable(n) == n <= 255
-----------------------------------------------------------------------------
(* Client *)

\* The next frame is one message of the handshake.
Awaits(chan, msg) == chan # <<>> /\ Head(chan) = Plain(<<msg>>)

ClientAuth ==
    /\ cpc = "hello" /\ ~cut
    /\ Awaits(s2c, "PUBKEY")
    /\ s2c' = Tail(s2c)
    /\ c2s' = Append(c2s, Plain(<<"AUTH">>))
    /\ cpc' = "pubkey"
    /\ UNCHANGED <<config, enabled, toggles, sent, server, cut>>

ClientPubkey ==
    /\ cpc = "pubkey" /\ ~cut
    /\ c2s' = Append(c2s, Plain(<<"PUBKEY">>))
    /\ cpc' = "key"
    /\ UNCHANGED <<config, enabled, toggles, sent, server, s2c, cut>>

ClientKey ==
    /\ cpc = "key"
    /\ Awaits(s2c, "KEY")
    /\ s2c' = Tail(s2c)
    /\ cpc' = "cfg"
    /\ UNCHANGED <<config, enabled, toggles, sent, server, c2s, cut>>

\* An end of file inside the handshake raises.
ClientFail ==
    /\ cpc \in {"hello", "pubkey", "key"}
    /\ s2c = <<>> /\ (cut \/ HungUp)
    /\ cpc' = "failed"
    /\ UNCHANGED <<config, enabled, toggles, sent, server, c2s, s2c, cut>>

\* Reads the server's CFG (or nothing, at end of file: it goes on all the
\* same), then drains its own headers once: a pool session writes CFG and MUX,
\* a single connection TCP.
ClientOpen ==
    /\ cpc = "cfg"
    /\ \/ s2c # <<>> /\ s2c' = Tail(s2c)
       \/ s2c = <<>> /\ (cut \/ HungUp) /\ UNCHANGED s2c
    /\ c2s' = IF cut \/ HungUp THEN c2s
              ELSE Append(c2s, Plain(IF mode = "pool" THEN <<"CFG", "MUX">> ELSE <<"TCP">>))
    /\ cpc' = "open"
    /\ UNCHANGED <<config, enabled, toggles, sent, server, cut>>

\* Payload: the frames of MuxSession, or what the SOCKS client writes.  A
\* drain may seal one item or two.
ClientSend(n) ==
    /\ cpc = "open" /\ ~cut /\ ~HungUp
    /\ sent + n <= MaxPayload
    /\ sent' = sent + n
    /\ c2s' = Append(c2s, Chunk(sent + 1, sent + n))
    /\ UNCHANGED <<config, enabled, toggles, cpc, server, s2c, cut>>
-----------------------------------------------------------------------------
(* Server: server_handshake, then handle_connection *)

Close ==
    /\ spc' = "closed"
    /\ raw' = <<>>
    /\ UNCHANGED out

\* Mutant: waits for the client's message before it sends its public key.
ServerHelloLate ==
    /\ spc = "hello" /\ ~cut
    /\ c2s # <<>>
    /\ s2c' = Append(s2c, Plain(<<"PUBKEY">>))
    /\ spc' = "auth"
    /\ UNCHANGED <<config, enabled, toggles, client, raw, out, c2s, cut>>

ServerHello ==
    /\ spc = "hello" /\ ~cut
    /\ s2c' = Append(s2c, Plain(<<"PUBKEY">>))
    /\ spc' = "auth"
    /\ UNCHANGED <<config, enabled, toggles, client, raw, out, c2s, cut>>

ServerAuth ==
    /\ spc = "auth"
    /\ Awaits(c2s, "AUTH")
    /\ c2s' = Tail(c2s)
    /\ spc' = "row"
    /\ UNCHANGED <<config, enabled, toggles, client, raw, out, s2c, cut>>

\* get_client_by_nanoid: a missing or disabled client is rejected.
ServerRow ==
    /\ spc = "row"
    /\ \/ enabled /\ spc' = "pubkey" /\ UNCHANGED <<raw, out>>
       \/ ~enabled /\ Close
    /\ UNCHANGED <<config, enabled, toggles, client, c2s, s2c, cut>>

ServerKey ==
    /\ spc = "pubkey" /\ ~cut
    /\ Awaits(c2s, "PUBKEY")
    /\ c2s' = Tail(c2s)
    /\ s2c' = Append(s2c, Plain(<<"KEY">>))
    /\ spc' = "cfg"
    /\ UNCHANGED <<config, enabled, toggles, client, raw, out, cut>>

\* The settings; encode_header raises where they do not fit its length byte.
ServerCfg ==
    /\ spc = "cfg" /\ ~cut
    /\ \/ /\ Encodable(CfgLength(base, ua))
          /\ s2c' = Append(s2c, Plain(<<"CFG">>))
          /\ spc' = "read"
          /\ UNCHANGED <<raw, out>>
       \/ /\ ~Encodable(CfgLength(base, ua))
          /\ Close
          /\ UNCHANGED s2c
    /\ UNCHANGED <<config, enabled, toggles, client, c2s, cut>>

\* Mutant: takes the end of file for data.
ServerReadEof ==
    /\ spc = "read"
    /\ \/ c2s # <<>> /\ raw' = Head(c2s) /\ c2s' = Tail(c2s)
       \/ c2s = <<>> /\ cut /\ raw' = <<>> /\ UNCHANGED c2s
    /\ spc' = "parse"
    /\ UNCHANGED <<config, enabled, toggles, client, out, s2c, cut>>

\* raw=await reader.read(512): headers and mux frames are shorter than that, so
\* this is the next frame.
ServerRead ==
    /\ spc = "read"
    /\ c2s # <<>>
    /\ raw' = Head(c2s)
    /\ c2s' = Tail(c2s)
    /\ spc' = "parse"
    /\ UNCHANGED <<config, enabled, toggles, client, out, s2c, cut>>

\* decode_header looks at the first item.  After CFG the loop reads again, and
\* what followed the CFG in raw is not looked at.
ServerParse ==
    /\ spc = "parse"
    /\ \/ Head(raw).kind \notin Headers /\ Close
       \/ Head(raw).kind = "CFG" /\ spc' = "read" /\ raw' = <<>> /\ UNCHANGED out
       \/ Head(raw).kind \in Headers \ {"CFG"} /\ spc' = "check" /\ UNCHANGED <<raw, out>>
    /\ UNCHANGED <<config, enabled, toggles, client, c2s, s2c, cut>>

\* check_client; a MUX header starts the session, anything else is dialled.
ServerCheck ==
    /\ spc = "check"
    /\ \/ ~enabled /\ Close
       \/ /\ enabled
          /\ spc' = IF Head(raw).kind = "MUX" THEN "mux" ELSE "dial"
          /\ out' = IF Head(raw).kind = "MUX" THEN Tail(raw) ELSE out
          /\ UNCHANGED raw
    /\ UNCHANGED <<config, enabled, toggles, client, c2s, s2c, cut>>

\* Mutant: passes the header on with the leftover.
ServerDialRaw ==
    /\ spc = "dial"
    /\ \/ spc' = "tcp" /\ out' = raw /\ UNCHANGED raw
       \/ spc' = "refused" /\ raw' = <<>> /\ UNCHANGED out
    /\ UNCHANGED <<config, enabled, toggles, client, c2s, s2c, cut>>

\* connect succeeds and the leftover goes to the target, or it fails and the
\* handler closes.
ServerDial ==
    /\ spc = "dial"
    /\ \/ spc' = "tcp" /\ out' = Tail(raw) /\ UNCHANGED raw
       \/ spc' = "refused" /\ raw' = <<>> /\ UNCHANGED out
    /\ UNCHANGED <<config, enabled, toggles, client, c2s, s2c, cut>>

\* The relay, or MuxSession.run over _PrefixReader, takes frame after frame.
ServerForward ==
    /\ spc \in {"tcp", "mux"}
    /\ c2s # <<>>
    /\ out' = out \o Head(c2s)
    /\ c2s' = Tail(c2s)
    /\ UNCHANGED <<config, enabled, toggles, client, spc, raw, s2c, cut>>

\* End of file or a failing write: readexactly raises, read returns nothing.
ServerEof ==
    /\ spc \notin {"closed", "refused", "row", "parse", "check", "dial"}
    /\ cut /\ c2s = <<>>
    /\ Close
    /\ UNCHANGED <<config, enabled, toggles, client, c2s, s2c, cut>>
-----------------------------------------------------------------------------
Toggle ==
    /\ toggles < MaxToggles
    /\ toggles' = toggles + 1
    /\ enabled' = ~enabled
    /\ UNCHANGED <<config, client, server, c2s, s2c, cut>>

\* The transport is lost with a suffix of what was under way.
Cut ==
    /\ ~cut
    /\ cut' = TRUE
    /\ \E i \in 0 .. Len(c2s), j \in 0 .. Len(s2c) :
          /\ c2s' = SubSeq(c2s, 1, i)
          /\ s2c' = SubSeq(s2c, 1, j)
    /\ UNCHANGED <<config, enabled, toggles, client, server>>

ClientStep ==
    \/ ClientAuth \/ ClientPubkey \/ ClientKey \/ ClientFail \/ ClientOpen
    \/ \E n \in 1 .. 2 : ClientSend(n)

ServerStep ==
    \/ ServerHello \/ ServerAuth \/ ServerRow \/ ServerKey \/ ServerCfg
    \/ ServerRead \/ ServerParse \/ ServerCheck \/ ServerDial \/ ServerForward
    \/ ServerEof

Next == ClientStep \/ ServerStep \/ Toggle \/ Cut

Spec == Init /\ [][Next]_vars

\* Both ends are asyncio tasks that resume when their read is ready.
FairSpec == Spec /\ WF_vars(ClientStep) /\ WF_vars(ServerStep)
-----------------------------------------------------------------------------
(* Properties *)

\* What follows the header or the message that a frame begins with.
Payload(s) == IF s # <<>> /\ Head(s).kind # "DATA" THEN Tail(s) ELSE s
Unread == IF spc = "tcp" THEN <<>> ELSE Payload(raw)

\* What a single connection sends after its header is, at every moment, what
\* the target got, then what the header's read left over, then what is under
\* way, frame after frame from the item at[0] on: the parsing of headers neither
\* loses, repeats nor reorders payload (handler.py 107-161).
PayloadIntact ==
    mode = "direct" /\ ~cut /\ ~HungUp =>
        \E at \in [0 .. Len(c2s) -> 0 .. sent] :
            /\ out \o Unread = Chunk(1, at[0]) /\ at[Len(c2s)] = sent
            /\ \A i \in 1 .. Len(c2s) :
                  at[i - 1] <= at[i] /\ Payload(c2s[i]) = Chunk(at[i - 1] + 1, at[i])

\* An enabled client's single connection is served, unless the transport is
\* lost, the panel disables the client or the target cannot be reached; for
\* settings that fit their header (handler.py 105-165, crypto.py 67-126).
DirectIsServed ==
    (mode = "direct" /\ enabled /\ spc = "hello" /\ Encodable(CfgLength(base, ua))) ~>
        (spc \in {"tcp", "refused"} \/ cut \/ ~enabled)

\* README.md 11: pool sessions carry multiplexed streams.  The server does not
\* hang up on an enabled client's pool session that it can hear.
PoolIsServed ==
    mode = "pool" /\ enabled /\ toggles = 0 /\ ~cut /\ cpc = "open" => ~HungUp
=============================================================================
