----------------------------- MODULE MCChannel -----------------------------
(***************************************************************************)
(* Instances of Channel for TLC: an excerpt of the protocol, and what      *)
(* client and compositors say in a few conversations.                      *)
(***************************************************************************)
EXTENDS Channel

MCSignature ==
  [ request |-> << <<>>, <<"object", "int", "int">>, <<"str", "fd">>, <<"new_id", "fd", "int">>,
                   <<"uint">>, <<"new_id">>, <<"new_id">>, <<"new_id">>, <<"object", "uint">> >>,
    event   |-> << <<"uint", "object">>, <<"uint", "fd">>, <<"str", "fd">>, <<"uint">>,
                   <<"int", "int">>, <<"uint">>, <<>> >> ]

Commit == 1
Attach == 2
Receive == 3
CreatePool == 4
AckConfigure == 5
GetRegistry == 6
SyncRequest == 7
GetObject == 8         \* get_keyboard, get_toplevel
SetSelection == 9

Enter == 1
Keymap == 2
SendSource == 3
DoneEvent == 4
ToplevelConfigure == 5
Configure == 6
CancelledEvent == 7

MCOpcode ==
  [ send |-> SendSource, cancelled |-> CancelledEvent, serials |-> {Enter}, done |-> DoneEvent,
    toplevel_configure |-> ToplevelConfigure, configure |-> Configure, ack_configure |-> AckConfigure ]

\* Guest ids, and numbers for the proxy's own objects.
Surface == 2
XdgSurface == 3
Toplevel == 4
Keyboard == 5
Offer == 6
Shm == 7
Source == 8
Pool == 9
RegistryOwn == 20
SyncOwn == 21
SourceOwn == 22

MCProxyId == [sync |-> SyncOwn, toplevel |-> Toplevel, surface |-> XdgSurface, source |-> SourceOwn]

Plain == 30            \* a mime type that is cached, and one that is not
Uris == 31
MCCacheable == {Plain}
Fd(n) == Value("fd", n)
Uint(n) == Value("uint", n)
Integer(n) == Value("int", n)
Object(g) == Value("object", g)
NewId(g) == Value("new_id", g)

Msg(on, opcode, values, after) ==
  [on |-> on, opcode |-> opcode, values |-> values, after |-> after, id |-> 0]
Known == {1, Surface, XdgSurface, Toplevel, Keyboard, Offer, Shm, Source}

\* What the proxy asks for itself.
Makes(opcode, g) == Msg(1, opcode, <<NewId(g)>>, {})
Replays(g) == [Makes(GetObject, g) EXCEPT !.id = g]
Fetches == <<Makes(GetRegistry, RegistryOwn), Makes(SyncRequest, SyncOwn)>>
Commits == <<Msg(Surface, Commit, <<>>, {})>>
Splices1 == <<[Msg(1, SetSelection, <<Object(SourceOwn), Uint(1)>>, {}) EXCEPT !.id = SourceOwn]>>

Conversation(client, hosts, replayed) ==
  [ client |-> client, hosts |-> hosts, known |-> Known, fetch |-> Fetches,
    replay |-> [i \in DOMAIN replayed |-> Replays(replayed[i])] \o Commits, splice |-> Splices1 ]

\* What they say.
Receives(n) == Msg(Offer, Receive, <<Text(Uris, 3), Fd(n)>>, {})
Attaches == Msg(Surface, Attach, <<Object(0), Integer(0), Integer(0)>>, {})
CreatesPool(n, after) == Msg(Shm, CreatePool, <<NewId(Pool), Fd(n), Integer(8)>>, after)
Acks == Msg(XdgSurface, AckConfigure, <<Uint(1)>>, {Configure})
Sends(on, mime, n, after) == Msg(on, SendSource, <<Text(mime, 3), Fd(n)>>, after)
Keymaps(n, after) == Msg(Keyboard, Keymap, <<Uint(n), Fd(n)>>, after)
Enters == Msg(Keyboard, Enter, <<Uint(1), Object(Surface)>>, {})
AnswersSync == Msg(SyncOwn, DoneEvent, <<Uint(0)>>, {SyncRequest})
Configures ==
  << Msg(Toplevel, ToplevelConfigure, <<Integer(0), Integer(0)>>, {Commit}),
     Msg(XdgSurface, Configure, <<Uint(1)>>, {}) >>
Cancels == Msg(SourceOwn, CancelledEvent, <<>>, {})

\* No crash: requests and events with and without fds.
Steady ==
  Conversation(<<Receives(1), Attaches, CreatesPool(2, {})>>,
               << <<Sends(Source, Plain, 11, {}), Keymaps(12, {})>> >>, <<>>)

\* A request on an object that is not recreated, before the crash or after it.
Stale ==
  Conversation(<<Receives(1), CreatesPool(2, {})>>,
               << <<>>, <<AnswersSync>> >>, <<Shm>>)

\* A client that acknowledges and goes on in one flush.
Acknowledging ==
  Conversation(<<Acks, CreatesPool(2, {})>>,
               << <<>>, <<AnswersSync>> \o Configures >>, <<XdgSurface, Toplevel>>)

\* A keymap that comes while recovery waits, and one that comes after it.
Keymapping ==
  Conversation(<<Acks>>,
               << <<>>, <<AnswersSync, Keymaps(11, {GetObject})>> \o Configures \o <<Keymaps(12, {})>> >>,
               <<Keyboard, Toplevel>>)

\* The clipboard is reclaimed, asked for, and lost again.
Reclaiming ==
  Conversation(<<Acks>>,
               << <<>>, <<AnswersSync>> \o Configures \o
                        <<Enters, Sends(SourceOwn, Uris, 11, {SetSelection}), Keymaps(12, {}), Cancels>> >>,
               <<Surface, Keyboard, XdgSurface, Toplevel>>)

\* A second compositor dies in recovery.
Dying == Conversation(<<CreatesPool(1, {})>>, << <<>>, <<AnswersSync>>, <<AnswersSync>> >>, <<Shm>>)

Conversations ==
  [ steady |-> Steady, stale |-> Stale, acknowledging |-> Acknowledging,
    keymapping |-> Keymapping, reclaiming |-> Reclaiming, dying |-> Dying ]

SmallValues ==
  { Value("int", 8), Object(5), NewId(9), Fd(1), Text(Plain, 3), Text(Uris, 4), Text(Uris, 0),
    Array(6, 0), Array(6, 4), Array(6, 5) }

(***************************************************************************)
(* The two ends of the format agree, though they are separate code: what   *)
(* encode_arguments pads, walk_signature skips, for all short messages.    *)
(* Otherwise every id behind a text would be rewritten at a wrong offset.  *)
(* (Looked at before a conversation begins, since it is about no state.)   *)
(***************************************************************************)
EncodedIsWalked == sent = Both(0) => \A values \in SeqOf(SmallValues, 3) : WalkedBack(values)
=============================================================================
