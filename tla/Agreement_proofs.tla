-------------------------- MODULE Agreement_proofs --------------------------
(***************************************************************************)
(* Theorems about what client and compositor agree on across a crash.      *)
(***************************************************************************)
EXTENDS Refinement_proofs

------------------------------------------------------------------------------
\* What the client's objects say, and what changes it.

\* What an id without an object, and an object just made, say.
Clean(o) == o.att = 0 /\ ~o.busy /\ ~o.spent /\ o.focus = 0 /\ o.pressed = {}
Nothing(o) == Clean(o) /\ o.attr = NoAttr /\ o.parent = 0 /\ o.arg = 0

\* A reference to an id in S is given up.
Zeroed(x, S) == IF x \in S THEN 0 ELSE x

LEMMA BlankSays ==
  ASSUME NEW st
  PROVE  Nothing(Blank(st))
BY DEF Blank, Nothing, Clean

LEMMA ClientObjectSays ==
  ASSUME NEW i, NEW p, NEW a, NEW at0
  PROVE  LET o == ClientObject(i, p, a, at0)
         IN Clean(o) /\ o.attr = at0 /\ o.parent = p /\ o.arg = a
BY DEF ClientObject, Blank, Clean

\* Ids given back say nothing, the others no longer refer to them.
FreedFrom(o, w, S) ==
  /\ w.attr = o.attr /\ w.att = o.att /\ w.busy = o.busy /\ w.spent = o.spent
  /\ w.focus = o.focus /\ w.pressed = o.pressed
  /\ w.parent = Zeroed(o.parent, S) /\ w.arg = Zeroed(o.arg, S)

LEMMA FreedSays ==
  ASSUME NEW c, ClientShape(c), NEW S, NEW x \in GuestId
  PROVE  IF x \in S THEN Nothing(Freed(c, S)[x]) ELSE FreedFrom(c[x], Freed(c, S)[x], S)
<1>1. CASE x \in S
  <2>1. Freed(c, S)[x] = Blank("free")
    BY <1>1 DEF Freed, ClientShape
  <2>. QED BY <1>1, <2>1, BlankSays
<1>2. CASE x \notin S
  <2>1. Freed(c, S)[x] = [c[x] EXCEPT !.parent = IF @ \in S THEN 0 ELSE @, !.arg = IF @ \in S THEN 0 ELSE @]
    BY <1>2 DEF Freed, ClientShape
  <2>2. DOMAIN c[x] = ClientField
    BY DEF ClientShape
  <2>. QED BY <1>2, <2>1, <2>2 DEF FreedFrom, Zeroed, ClientField
<1>. QED BY <1>1, <1>2

\* Nothing attaches or enters a destroyed object.
UnrefFrom(o, w, s) ==
  /\ w.attr = o.attr /\ w.busy = o.busy /\ w.spent = o.spent /\ w.pressed = o.pressed
  /\ w.att = Zeroed(o.att, {s}) /\ w.focus = Zeroed(o.focus, {s})

LEMMA DestroyedSays ==
  ASSUME NEW c, ClientShape(c), NEW s \in GuestId, NEW x \in GuestId
  PROVE  LET w == Destroyed(c, s, ServerGuestId)[x]
             freed == s \in ServerGuestId \/ c[s].gone
         IN IF x # s
            THEN /\ UnrefFrom(c[x], w, s)
                 /\ w.parent = IF freed THEN Zeroed(c[x].parent, {s}) ELSE c[x].parent
                 /\ w.arg = IF freed THEN Zeroed(c[x].arg, {s}) ELSE c[x].arg
            ELSE IF freed THEN Nothing(w)
            ELSE /\ w.att = 0 /\ ~w.busy /\ w.focus = 0 /\ w.pressed = {}
                 /\ w.attr = c[x].attr /\ w.parent = c[x].parent /\ w.arg = c[x].arg
<1> DEFINE unref == [y \in DOMAIN c |-> [c[y] EXCEPT !.focus = IF @ = s THEN 0 ELSE @,
                                                     !.att = IF @ = s THEN 0 ELSE @]]
           freed == s \in ServerGuestId \/ c[s].gone
<1>1. /\ ClientShape(unref)
      /\ UnrefFrom(c[x], unref[x], s) /\ unref[x].parent = c[x].parent /\ unref[x].arg = c[x].arg
  <2>1. ClientShape(unref)
    BY DEF ClientShape, ClientField
  <2>2. unref[x] = [c[x] EXCEPT !.focus = IF @ = s THEN 0 ELSE @, !.att = IF @ = s THEN 0 ELSE @]
        /\ DOMAIN c[x] = ClientField
    BY DEF ClientShape
  <2>. QED BY <2>1, <2>2 DEF UnrefFrom, Zeroed, ClientField
<1>2. CASE freed
  <2>1. Destroyed(c, s, ServerGuestId) = Freed(unref, {s})
    BY <1>2 DEF Destroyed
  <2> HIDE DEF unref
  <2>2. IF x \in {s} THEN Nothing(Freed(unref, {s})[x]) ELSE FreedFrom(unref[x], Freed(unref, {s})[x], {s})
    BY <1>1, FreedSays
  <2>. QED BY <1>1, <1>2, <2>1, <2>2 DEF FreedFrom, UnrefFrom
<1>3. CASE ~freed
  <2>1. Destroyed(c, s, ServerGuestId) =
          [unref EXCEPT ![s] = [@ EXCEPT !.st = "dead", !.busy = FALSE, !.focus = 0,
                                         !.pressed = {}, !.att = 0]]
    BY <1>3 DEF Destroyed
  <2> HIDE DEF unref
  <2>2. DOMAIN unref = GuestId /\ DOMAIN unref[x] = ClientField
    BY <1>1 DEF ClientShape
  <2>3. CASE x # s
    BY <1>1, <1>3, <2>1, <2>2, <2>3
  <2>4. CASE x = s
    <3>1. Destroyed(c, s, ServerGuestId)[x] =
            [unref[x] EXCEPT !.st = "dead", !.busy = FALSE, !.focus = 0, !.pressed = {}, !.att = 0]
      BY <2>1, <2>2, <2>4
    <3>2. unref[x].attr = c[x].attr
      BY <1>1 DEF UnrefFrom
    <3>. QED BY <1>1, <1>3, <2>2, <2>4, <3>1, <3>2 DEF ClientField
  <2>. QED BY <2>3, <2>4
<1>. QED BY <1>2, <1>3

LEMMA IdsDeletedSays ==
  ASSUME NEW c, ClientShape(c), NEW S, NEW x \in GuestId
  PROVE  LET w == IdsDeleted(c, S)[x]
             freed == {g \in S : c[g].st = "dead"}
         IN IF x \in freed THEN Nothing(w) ELSE FreedFrom(c[x], w, freed)
<1> DEFINE told == [g \in DOMAIN c |-> IF g \in S /\ Live(c, g) THEN [c[g] EXCEPT !.gone = TRUE] ELSE c[g]]
           freed == {g \in S : c[g].st = "dead"}
<1>1. ClientShape(told)
  BY DEF ClientShape, ClientField
<1>2. /\ told[x].attr = c[x].attr /\ told[x].att = c[x].att /\ told[x].busy = c[x].busy
      /\ told[x].spent = c[x].spent /\ told[x].focus = c[x].focus /\ told[x].pressed = c[x].pressed
      /\ told[x].parent = c[x].parent /\ told[x].arg = c[x].arg
  <2>1. told[x] = [c[x] EXCEPT !.gone = TRUE] \/ told[x] = c[x]
    BY DEF ClientShape
  <2>2. DOMAIN c[x] = ClientField
    BY DEF ClientShape
  <2>. QED BY <2>1, <2>2 DEF ClientField
<1>3. IdsDeleted(c, S) = Freed(told, freed)
  BY DEF IdsDeleted
<1> HIDE DEF told, freed
<1>4. IF x \in freed THEN Nothing(Freed(told, freed)[x]) ELSE FreedFrom(told[x], Freed(told, freed)[x], freed)
  BY <1>1, FreedSays
<1>5. IF x \in freed THEN Nothing(IdsDeleted(c, S)[x]) ELSE FreedFrom(c[x], IdsDeleted(c, S)[x], freed)
  BY <1>2, <1>3, <1>4 DEF FreedFrom
<1>. QED BY <1>5 DEF freed

\* done says nothing of what an object says.
LEMMA CallbackDoneSays ==
  ASSUME NEW c, ClientShape(c), NEW s \in GuestId, ~c[s].gone, NEW x \in GuestId
  PROVE  FreedFrom(c[x], CallbackDone(c, s)[x], {})
<1>1. CallbackDone(c, s) = c \/ CallbackDone(c, s) = [c EXCEPT ![s].st = "dead"]
  BY DEF CallbackDone
<1>2. DOMAIN c = GuestId /\ DOMAIN c[x] = ClientField
  BY DEF ClientShape
<1>3. CallbackDone(c, s)[x] = c[x] \/ CallbackDone(c, s)[x] = [c[x] EXCEPT !.st = "dead"]
  BY <1>1, <1>2
<1>. QED BY <1>2, <1>3 DEF FreedFrom, Zeroed, ClientField

\* release says no more than that a buffer is free.
LEMMA BuffersReleasedSays ==
  ASSUME NEW c, ClientShape(c), NEW S, NEW x \in GuestId
  PROVE  LET w == BuffersReleased(c, S)[x]
         IN /\ w.attr = c[x].attr /\ w.att = c[x].att /\ w.spent = c[x].spent
            /\ w.focus = c[x].focus /\ w.pressed = c[x].pressed
            /\ w.parent = c[x].parent /\ w.arg = c[x].arg
            /\ w.busy = IF x \in S THEN FALSE ELSE c[x].busy
<1>1. BuffersReleased(c, S)[x] = IF x \in S THEN [c[x] EXCEPT !.busy = FALSE] ELSE c[x]
  BY DEF BuffersReleased, ClientShape
<1>2. DOMAIN c[x] = ClientField
  BY DEF ClientShape
<1>. QED BY <1>1, <1>2 DEF ClientField

\* The synthesized leave and release events are about focus and buttons.
LEMMA GrabsReleasedSays ==
  ASSUME NEW c, ClientShape(c), NEW x \in GuestId
  PROVE  LET w == GrabsReleased(c)[x]
         IN /\ w.attr = c[x].attr /\ w.att = c[x].att /\ w.spent = c[x].spent /\ w.busy = c[x].busy
            /\ w.parent = c[x].parent /\ w.arg = c[x].arg
<1> DEFINE Changed(f, p) == [c[x] EXCEPT !.focus = f, !.pressed = p]
<1>1. \E f, p : GrabsReleased(c)[x] = Changed(f, p)
  BY DEF GrabsReleased
<1>2. DOMAIN c[x] = ClientField
  BY DEF ClientShape
<1>3. ASSUME NEW f, NEW p
      PROVE  LET w == Changed(f, p)
             IN /\ w.attr = c[x].attr /\ w.att = c[x].att /\ w.spent = c[x].spent /\ w.busy = c[x].busy
                /\ w.parent = c[x].parent /\ w.arg = c[x].arg
  BY <1>2 DEF ClientField
<1> HIDE DEF Changed
<1>. QED BY <1>1, <1>3

\* The callbacks that are answered where recovery ends are gone, and nothing else changes.
LEMMA AnsweredSays ==
  ASSUME NEW c, ClientShape(c), NEW x \in GuestId,
         \A g \in GuestId : ~c[g].gone, Answerable \subseteq GuestId,
         \A g \in Answerable :
           objects.interfaces[g] = "wl_callback" /\ c[g].st = "live" /\ c[g].iface = "wl_callback"
  PROVE  IF x \in Answerable THEN Nothing(Answered(c)[x]) ELSE FreedFrom(c[x], Answered(c)[x], Answerable)
<1> DEFINE told == [g \in GuestId |-> IF g \in Answerable THEN CallbackDone(c, g)[g] ELSE c[g]]
<1>1. {g \in Answerable : "done" \in EventsOf(objects.interfaces[g])} = Answerable
  BY DEF EventsOf
<1>2. Answered(c) = IdsDeleted(told, Answerable)
  BY <1>1 DEF Answered
<1>3. ASSUME NEW g \in GuestId
      PROVE  DOMAIN CallbackDone(c, g)[g] = ClientField
  BY CallbackDoneIs DEF ClientShape
<1>4. ClientShape(told)
  BY <1>3 DEF ClientShape
<1>5. ASSUME NEW g \in Answerable
      PROVE  told[g].st = "dead"
  <2>1. g \in GuestId /\ told[g] = CallbackDone(c, g)[g]
    OBVIOUS
  <2>2. CallbackDone(c, g)[g].st = "dead"
    BY <2>1, CallbackDoneIs
  <2>. QED BY <2>1, <2>2
<1>6. FreedFrom(c[x], told[x], {})
  <2>1. FreedFrom(c[x], c[x], {})
    BY DEF FreedFrom, Zeroed
  <2>. QED BY <2>1, CallbackDoneSays
<1> HIDE DEF told
<1> DEFINE dead == {g \in Answerable : told[g].st = "dead"}
<1>7. dead = Answerable
  BY <1>5
<1>9. IF x \in dead THEN Nothing(IdsDeleted(told, Answerable)[x])
      ELSE FreedFrom(told[x], IdsDeleted(told, Answerable)[x], dead)
  BY <1>4, IdsDeletedSays
<1> HIDE DEF dead
<1>8. IF x \in Answerable THEN Nothing(IdsDeleted(told, Answerable)[x])
      ELSE FreedFrom(told[x], IdsDeleted(told, Answerable)[x], Answerable)
  BY <1>7, <1>9
<1>. QED BY <1>2, <1>6, <1>8 DEF FreedFrom, Zeroed

\* What the protocol says of a request that can be sent.
LEMMA SendableProtocol ==
  ASSUME Control, NEW r, NEW s, NEW a, NEW v, NEW g, Sendable(r, s, a, v, g)
  PROVE  /\ SetsAttr(r) # "none" \/ r.name \in {"attach", "commit"} => r.child = "none" /\ ~r.dtor
         /\ SetsAttr(r) \in {"title", "app_id"} => r.on = "xdg_toplevel"
         /\ SetsAttr(r) = "size" => r.on = "wl_shm_pool"
         /\ SetsAttr(r) = "destination" => r.on = "wp_viewport"
         /\ SetsAttr(r) = "planes" => r.on = "zwp_linux_buffer_params_v1"
         /\ r.child = "xdg_toplevel" <=> r.name = "get_toplevel"
         /\ r.child = "wl_shm_pool" <=> r.name = "create_pool"
         /\ r.child = "wp_viewport" <=> r.name = "get_viewport"
         /\ r.child = "zwp_linux_buffer_params_v1" <=> r.name = "create_params"
         /\ r.name = "create_immed" => r.on = "zwp_linux_buffer_params_v1" /\ r.child = "wl_buffer"
         /\ r.child # "none" => r.on # "wl_data_offer"
         /\ r.dtor => r.arg = "none"
BY ProtocolAssumption DEF Control, Sendable

\* What the objects of the client say after a request: the child what it was
\* made with, and the rest that what a destructor ends is gone,
DestroyedFrom(o, w, x, s, freed) ==
  IF x # s
  THEN /\ UnrefFrom(o, w, s)
       /\ w.parent = IF freed THEN Zeroed(o.parent, {s}) ELSE o.parent
       /\ w.arg = IF freed THEN Zeroed(o.arg, {s}) ELSE o.arg
  ELSE IF freed THEN Nothing(w)
  ELSE /\ w.att = 0 /\ ~w.busy /\ w.focus = 0 /\ w.pressed = {}
       /\ w.attr = o.attr /\ w.parent = o.parent /\ w.arg = o.arg

\* or what the request sets, attaches or commits.
ToldFrom(o, w, x, r, s, a, v) ==
  /\ w.parent = o.parent /\ w.arg = o.arg /\ w.focus = o.focus /\ w.pressed = o.pressed
  /\ w.attr = IF x = s THEN AttrAfter(r, o.attr, v) ELSE o.attr
  /\ w.att = IF x # s THEN o.att
             ELSE IF r.name = "attach" THEN a ELSE IF r.name = "commit" THEN 0 ELSE o.att
  /\ w.busy <=> o.busy \/ (r.name = "commit" /\ cl[s].att # 0 /\ x = cl[s].att)
  /\ w.spent <=> o.spent \/ (r.name = "create_immed" /\ x = s)

\* Two objects that say the same.
Alike(o, w) ==
  /\ w.attr = o.attr /\ w.parent = o.parent /\ w.arg = o.arg /\ w.att = o.att /\ w.busy = o.busy
  /\ w.spent = o.spent /\ w.focus = o.focus /\ w.pressed = o.pressed

MadeFrom(w, r, s, a, v) ==
  Clean(w) /\ w.attr = FirstAttr(r, cl[s].attr, v) /\ w.parent = s /\ w.arg = a

LEMMA SentSays ==
  ASSUME RInv, NEW r, NEW s, NEW a, NEW v, NEW g, Sendable(r, s, a, v, g), NEW x \in GuestId
  PROVE  LET w == Sent(r, s, a, v, g)[x]
         IN IF r.child # "none" /\ x = g THEN MadeFrom(w, r, s, a, v)
            ELSE IF r.dtor THEN DestroyedFrom(cl[x], w, x, s, s \in ServerGuestId)
            ELSE ToldFrom(cl[x], w, x, r, s, a, v)
<1>1. Control /\ ClientShape(cl) /\ Alive(cl)
  BY RInvIs
<1>2. s \in GuestId /\ ~cl[s].gone /\ DOMAIN cl = GuestId /\ DOMAIN cl[x] = ClientField
  BY <1>1 DEF Sendable, Alive, ClientShape
<1>3. /\ r.child # "none" => g \in GuestId /\ g # s
      /\ r.dtor => r.child = "none" /\ r.name \notin {"attach", "commit", "create_immed"} /\ SetsAttr(r) = "none"
      /\ r.name \in {"attach", "commit"} \/ SetsAttr(r) # "none" => r.child = "none"
  <2>1. r.child # "none" => g \in GuestId /\ g # s
    BY SentGives DEF Sendable
  <2>2. r.dtor => r.child = "none"
    BY <1>1, SendableRequest
  <2>. QED BY <1>1, <2>1, <2>2, SendableProtocol
<1> DEFINE gone == IF r.dtor THEN Destroyed(cl, s, ServerGuestId) ELSE cl
           object == ClientObject(r.child, s, a, FirstAttr(r, cl[s].attr, v))
           made == IF r.child = "none" THEN gone ELSE [gone EXCEPT ![g] = object]
           told == [made EXCEPT ![s].attr = AttrAfter(r, @, v)]
           u == Sent(r, s, a, v, g)
<1>4. u = CASE r.name = "attach" -> [told EXCEPT ![s].att = a]
            [] r.name = "commit" /\ cl[s].att # 0 -> [told EXCEPT ![s].att = 0, ![cl[s].att].busy = TRUE]
            [] r.name = "create_immed" -> [told EXCEPT ![s].spent = TRUE]
            [] OTHER -> told
  BY DEF Sent, told, made, object, gone
<1> HIDE DEF u
<1>8. ASSUME SetsAttr(r) = "none", ClientShape(made)
      PROVE  Alike(made[x], told[x]) /\ DOMAIN told = GuestId /\ DOMAIN told[x] = ClientField
  <2> HIDE DEF made
  <2>1. AttrAfter(r, made[s].attr, v) = made[s].attr
    BY <1>8 DEF AttrAfter
  <2>2. told[x] = (IF x = s THEN [made[x] EXCEPT !.attr = AttrAfter(r, made[s].attr, v)] ELSE made[x])
        /\ DOMAIN told = GuestId /\ DOMAIN made[x] = ClientField
    BY <1>2, <1>8 DEF ClientShape, ClientField
  <2>. QED BY <2>1, <2>2 DEF Alike, ClientField
<1>5. CASE r.dtor
  <2>1. SetsAttr(r) = "none" /\ r.child = "none" /\ u = told /\ made = Destroyed(cl, s, ServerGuestId)
    BY <1>3, <1>4, <1>5
  <2> DEFINE freed == s \in ServerGuestId \/ cl[s].gone
  <2>2. freed <=> s \in ServerGuestId
    BY <1>2
  <2>7. ClientShape(made)
    <3> HIDE DEF freed
    <3>. QED BY <1>1, <1>2, <2>1, DestroyedIs
  <2>8. DestroyedFrom(cl[x], Destroyed(cl, s, ServerGuestId)[x], x, s, freed)
    BY <1>1, <1>2, DestroyedSays, ZenonT(60) DEF DestroyedFrom
  <2>3. DestroyedFrom(cl[x], made[x], x, s, freed) /\ ClientShape(made)
    <3> HIDE DEF freed, made
    <3>. QED BY <2>1, <2>7, <2>8
  <2> HIDE DEF made, freed
  <2>4. DestroyedFrom(cl[x], made[x], x, s, s \in ServerGuestId)
    BY <2>2, <2>3 DEF DestroyedFrom
  <2>5. Alike(made[x], told[x])
    BY <1>8, <2>1, <2>3
  <2>6. DestroyedFrom(cl[x], told[x], x, s, s \in ServerGuestId)
    BY <2>4, <2>5 DEF Alike, DestroyedFrom, UnrefFrom, Nothing, Clean
  <2>. QED BY <1>5, <2>1, <2>6 DEF u
<1>6. CASE ~r.dtor /\ r.child = "none"
  <2>1. made = cl
    BY <1>6
  <2>2. told = [cl EXCEPT ![s].attr = AttrAfter(r, @, v)]
    BY <2>1
  <2> HIDE DEF made, told
  <2>3. /\ DOMAIN told = GuestId /\ DOMAIN told[x] = ClientField
        /\ told[x] = IF x = s THEN [cl[x] EXCEPT !.attr = AttrAfter(r, @, v)] ELSE cl[x]
    BY <1>1, <1>2, <2>2 DEF ClientShape, ClientField
  <2>4. u[x] = CASE r.name = "attach" /\ x = s -> [told[x] EXCEPT !.att = a]
                 [] r.name = "commit" /\ cl[s].att # 0 /\ x = s /\ x # cl[s].att -> [told[x] EXCEPT !.att = 0]
                 [] r.name = "commit" /\ cl[s].att # 0 /\ x = s /\ x = cl[s].att ->
                      [told[x] EXCEPT !.att = 0, !.busy = TRUE]
                 [] r.name = "commit" /\ cl[s].att # 0 /\ x # s /\ x = cl[s].att -> [told[x] EXCEPT !.busy = TRUE]
                 [] r.name = "create_immed" /\ x = s -> [told[x] EXCEPT !.spent = TRUE]
                 [] OTHER -> told[x]
    BY <1>2, <1>4, <2>3
  <2>. QED BY <1>2, <1>3, <1>6, <2>3, <2>4 DEF u, ToldFrom, ClientField
<1>7. CASE ~r.dtor /\ r.child # "none"
  <2>1. SetsAttr(r) = "none" /\ r.name \notin {"attach", "commit"} /\ g \in GuestId /\ g # s
    BY <1>3, <1>7
  <2>2. made = [cl EXCEPT ![g] = object]
    BY <1>7
  <2>3. Clean(object) /\ object.attr = FirstAttr(r, cl[s].attr, v) /\ object.parent = s /\ object.arg = a
    BY ClientObjectSays
  <2> HIDE DEF made, object
  <2>10. DOMAIN object = ClientField
    BY ClientObjectIs DEF object
  <2>4. made[x] = (IF x = g THEN object ELSE cl[x]) /\ ClientShape(made)
    BY <1>1, <2>1, <2>2, <2>10 DEF ClientShape
  <2>5. Alike(made[x], told[x]) /\ DOMAIN told = GuestId /\ DOMAIN told[x] = ClientField
    BY <1>8, <2>1, <2>4
  <2>7. DOMAIN told = GuestId
    BY <2>5
  <2> HIDE DEF told
  <2>8. u[x] = IF r.name = "create_immed" /\ x = s THEN [told[x] EXCEPT !.spent = TRUE] ELSE told[x]
    BY <1>2, <1>4, <2>1, <2>7
  <2>12. CASE x = g
    <3>1. Alike(object, u[x])
      BY <2>1, <2>4, <2>5, <2>8, <2>12
    <3>. QED BY <1>7, <2>3, <2>12, <3>1 DEF u, Alike, MadeFrom, Clean
  <2>11. CASE x # g
    <3>1. u[x] = (IF r.name = "create_immed" /\ x = s THEN [told[x] EXCEPT !.spent = TRUE] ELSE told[x])
          /\ Alike(cl[x], told[x]) /\ DOMAIN told[x] = ClientField
      BY <2>4, <2>5, <2>8, <2>11
    <3>. QED BY <1>7, <2>1, <2>11, <3>1 DEF u, Alike, ToldFrom, AttrAfter, ClientField
  <2>. QED BY <2>11, <2>12
<1>. QED BY <1>3, <1>5, <1>6, <1>7

------------------------------------------------------------------------------
\* Busy buffers.

\* What the client has committed, and attached, is what the tracker has.
Flowing(c, t) ==
  \A g \in GuestId : /\ c[g].busy => g \in t.in_flight
                     /\ c[g].att # 0 => t.pending_attach[g] = c[g].att
BInv == Flowing(cl, buffer_flow)

\* The client claims no more of an object than before.
Claims(o, w) == (w.busy => o.busy) /\ (w.att # 0 => w.att = o.att)

LEMMA FreedClaims ==
  ASSUME NEW o, NEW w, NEW S, Nothing(w) \/ FreedFrom(o, w, S)
  PROVE  Claims(o, w)
BY DEF Nothing, Clean, FreedFrom, Claims

LEMMA DeletedClaims ==
  ASSUME NEW c, ClientShape(c), NEW S, NEW x \in GuestId
  PROVE  Claims(c[x], IdsDeleted(c, S)[x])
<1> DEFINE w == IdsDeleted(c, S)[x]
           freed == {g \in S : c[g].st = "dead"}
<1>1. IF x \in freed THEN Nothing(w) ELSE FreedFrom(c[x], w, freed)
  BY IdsDeletedSays
<1> HIDE DEF w, freed
<1>2. Claims(c[x], w)
  BY <1>1, FreedClaims
<1>. QED BY <1>2 DEF w

LEMMA ReleasedClaims ==
  ASSUME NEW c, ClientShape(c), NEW S, NEW x \in GuestId
  PROVE  /\ Claims(c[x], BuffersReleased(c, S)[x])
         /\ BuffersReleased(c, S)[x].busy => x \notin S
<1>1. BuffersReleased(c, S)[x] = IF x \in S THEN [c[x] EXCEPT !.busy = FALSE] ELSE c[x]
  BY DEF BuffersReleased, ClientShape
<1>2. DOMAIN c[x] = ClientField
  BY DEF ClientShape
<1>3. CASE x \in S
  BY <1>1, <1>2, <1>3 DEF Claims, ClientField
<1>4. CASE x \notin S
  BY <1>1, <1>4 DEF Claims
<1>. QED BY <1>3, <1>4

\* The tracker keeps what it has, and the client claims no more.
LEMMA FlowKept ==
  ASSUME NEW c, NEW t, Flowing(c, t), NEW w, \A x \in GuestId : Claims(c[x], w[x])
  PROVE  Flowing(w, t)
BY DEF Flowing, Claims

\* A step that leaves the tracker alone.
LEMMA FlowQuiet ==
  ASSUME BInv, buffer_flow' = buffer_flow,
         \A x \in GuestId : (cl'[x].busy => cl[x].busy) /\ (cl'[x].att # 0 => cl'[x].att = cl[x].att)
  PROVE  BInv'
BY DEF BInv, Flowing

\* A buffer is attached, or an attached one committed, in a request that the
\* proxy does not get to see, or drops.
BufferUnseen(r, s, a, v, g) ==
  /\ \/ r.name = "attach" /\ a # 0
     \/ r.name = "commit" /\ cl[s].att # 0
  /\ DropRequest(r, s, a, v, g) \/ (pc = "ack" /\ Lost(r, s, a, v, g))
UnseenBuffer == Sends(BufferUnseen)

\* Recovery ends without a release for a buffer that is busy: it forgets the
\* buffers it could not recreate.
LeavesBusy == FinishRecovery /\ \E g \in GuestId : cl[g].busy /\ g \notin Releasable

\* Of what a request does not attach or commit, the client says no more than before.
LEMMA SentClaims ==
  ASSUME RInv, NEW r, NEW s, NEW a, NEW v, NEW g, Sendable(r, s, a, v, g), NEW x \in GuestId
  PROVE  LET w == Sent(r, s, a, v, g)[x]
         IN /\ w.busy => cl[x].busy \/ (r.name = "commit" /\ cl[s].att # 0 /\ x = cl[s].att)
            /\ w.att # 0 => w.att = IF r.name = "attach" /\ x = s THEN a ELSE cl[x].att
            /\ r.name = "commit" /\ x = s => w.att = 0
<1>1. Control
  BY RInvIs
<1>2. r.name \in {"attach", "commit"} => r.child = "none" /\ ~r.dtor
  BY <1>1, SendableProtocol
<1> DEFINE w == Sent(r, s, a, v, g)[x]
<1>3. IF r.child # "none" /\ x = g THEN MadeFrom(w, r, s, a, v)
      ELSE IF r.dtor THEN DestroyedFrom(cl[x], w, x, s, s \in ServerGuestId)
      ELSE ToldFrom(cl[x], w, x, r, s, a, v)
  BY SentSays
<1> HIDE DEF w
<1>4. CASE r.child # "none" /\ x = g
  BY <1>2, <1>3, <1>4 DEF w, MadeFrom, Clean
<1>5. CASE ~(r.child # "none" /\ x = g) /\ r.dtor
  BY <1>2, <1>3, <1>5 DEF w, DestroyedFrom, UnrefFrom, Zeroed, Nothing, Clean
<1>6. CASE ~(r.child # "none" /\ x = g) /\ ~r.dtor
  BY <1>2, <1>3, <1>6 DEF w, ToldFrom
<1>. QED BY <1>4, <1>5, <1>6

\* A request that goes no further, and is about no buffer.
LEMMA FlowAlone ==
  ASSUME RInv, BInv, NEW r, NEW s, NEW a, NEW v, NEW g, Sendable(r, s, a, v, g),
         ~(r.name = "attach" /\ a # 0), ~(r.name = "commit" /\ cl[s].att # 0),
         buffer_flow' = buffer_flow, cl' = Sent(r, s, a, v, g)
  PROVE  BInv'
<1>1. ASSUME NEW x \in GuestId
      PROVE  (cl'[x].busy => cl[x].busy) /\ (cl'[x].att # 0 => cl'[x].att = cl[x].att)
  BY SentClaims
<1>. QED BY <1>1, FlowQuiet

\* A request the proxy observes.
LEMMA FlowSent ==
  ASSUME RInv, BInv, NEW r, NEW s, NEW a, NEW v, NEW g, Sendable(r, s, a, v, g), ObserveBuffers(r, s, a)
  PROVE  Flowing(Sent(r, s, a, v, g), buffer_flow')
<1>1. s \in GuestId /\ buffer_flow \in [pending_attach : [GuestId -> GuestId \cup {0}], in_flight : SUBSET GuestId]
  BY RInvIs DEF Trackers, Sendable
<1> DEFINE u == Sent(r, s, a, v, g)
<1>2. ASSUME NEW x \in GuestId
      PROVE  /\ u[x].busy => cl[x].busy \/ (r.name = "commit" /\ cl[s].att # 0 /\ x = cl[s].att)
             /\ u[x].att # 0 => u[x].att = IF r.name = "attach" /\ x = s THEN a ELSE cl[x].att
  BY SentClaims
<1> HIDE DEF u
<1>3. CASE r.name = "attach"
  <2>1. /\ buffer_flow'.in_flight = buffer_flow.in_flight
        /\ \A x \in GuestId : buffer_flow'.pending_attach[x] = IF x = s THEN a ELSE buffer_flow.pending_attach[x]
    BY <1>1, <1>3 DEF ObserveBuffers, on_attach
  <2>. QED BY <1>2, <1>3, <2>1 DEF BInv, Flowing, u
<1>4. CASE r.name = "commit"
  <2>1. /\ buffer_flow'.in_flight = buffer_flow.in_flight \cup ({buffer_flow.pending_attach[s]} \ {0})
        /\ buffer_flow'.pending_attach = buffer_flow.pending_attach
    BY <1>1, <1>4 DEF ObserveBuffers, on_commit
  <2>2. cl[s].att # 0 => buffer_flow.pending_attach[s] = cl[s].att
    BY <1>1 DEF BInv, Flowing
  <2>. QED BY <1>2, <1>4, <2>1, <2>2 DEF BInv, Flowing, u
<1>5. CASE r.name \notin {"attach", "commit"}
  <2>1. buffer_flow' = buffer_flow
    BY <1>5 DEF ObserveBuffers
  <2>. QED BY <1>2, <1>5, <2>1 DEF BInv, Flowing, u
<1>. QED BY <1>3, <1>4, <1>5

\* Whatever the client sends.
LEMMA FlowRequest ==
  ASSUME RInv, BInv, Request, ~RefusesFrame, ~UnseenBuffer
  PROVE  BInv'
<1>1. Control
  BY RInvIs
<1>2. PICK r \in IF boot < Len(Played.startup) THEN {Played.startup[boot + 1]} ELSE Played.requests :
        \E s \in Senders(r), a \in ArgsFor(r), v \in ValuesFor(r) :
          \E g \in NewIdsFor(r, s, a) : Relayed(r, s, a, v, g) /\ Booted
  BY DEF Request, Sends
<1>3. PICK s \in Senders(r), a \in ArgsFor(r), v \in ValuesFor(r) :
          \E g \in NewIdsFor(r, s, a) : Relayed(r, s, a, v, g) /\ Booted
  BY <1>2
<1>4. PICK g \in NewIdsFor(r, s, a) : Relayed(r, s, a, v, g) /\ Booted
  BY <1>3
<1>5. Sendable(r, s, a, v, g)
  BY <1>1, <1>4, SendableIs
<1>6. CASE DropRequest(r, s, a, v, g)
  <2>1. ~(r.name = "attach" /\ a # 0) /\ ~(r.name = "commit" /\ cl[s].att # 0)
    BY <1>2, <1>3, <1>4, <1>6 DEF UnseenBuffer, Sends, BufferUnseen
  <2>. QED BY <1>5, <1>6, <2>1, FlowAlone DEF DropRequest, proxyVars
<1>7. CASE RefuseRequest(r, s, a, v, g)
  <2>1. r.name # "frame"
    BY <1>2, <1>3, <1>4, <1>7 DEF RefusesFrame, Sends, RefuseFrame
  <2> DEFINE u == Sent(r, s, a, v, g)
  <2>2. Flowing(u, buffer_flow') /\ ClientShape(u)
    BY <1>5, <1>7, FlowSent, SentGives DEF RefuseRequest
  <2>3. cl' = IF r.dtor THEN IdsDeleted(u, {s}) ELSE u
    BY <1>7, <2>1 DEF RefuseRequest
  <2> HIDE DEF u
  <2>4. ASSUME NEW x \in GuestId
        PROVE  Claims(u[x], IdsDeleted(u, {s})[x])
    BY <2>2, DeletedClaims
  <2>5. Flowing(IdsDeleted(u, {s}), buffer_flow')
    BY <2>2, <2>4, FlowKept
  <2>6. Flowing(cl', buffer_flow')
    BY <2>2, <2>3, <2>5
  <2>. QED BY <2>6 DEF BInv
<1>8. CASE PassRequest(r, s, a, v, g)
  <2>1. Flowing(cl', buffer_flow')
    BY <1>5, <1>8, FlowSent DEF PassRequest
  <2>. QED BY <2>1 DEF BInv
<1>. QED BY <1>4, <1>6, <1>7, <1>8 DEF Relayed

\* Only focus and buttons change.
LEMMA FocusClaims ==
  ASSUME RInv, NEW g, NEW f, NEW p
  PROVE  \A x \in GuestId : /\ ClientFocused(g, f)[x].busy = cl[x].busy /\ ClientFocused(g, f)[x].att = cl[x].att
                            /\ ClientPressed(g, p)[x].busy = cl[x].busy /\ ClientPressed(g, p)[x].att = cl[x].att
<1>1. ClientShape(cl)
  BY RInvIs
<1>. QED BY <1>1 DEF ClientFocused, ClientPressed, ClientShape, ClientField

\* Whatever the compositor sends: only release ends the claim on a buffer.
LEMMA FlowEvent ==
  ASSUME RInv, BInv, Event
  PROVE  BInv'
<1>1. ClientShape(cl) /\ Alive(cl) /\ objects \in ShadowTableType /\ TInv
      /\ buffer_flow \in [pending_attach : [GuestId -> GuestId \cup {0}], in_flight : SUBSET GuestId]
  BY RInvIs DEF TableInv, RInv, Trackers
<1>2. ASSUME NEW h \in HostId, HostDone(h) PROVE BInv'
  <2>1. PICK g \in Hears(h) : cl' = CallbackDone(cl, g)
    BY <1>2 DEF HostDone
  <2>2. g \in GuestId
    BY <1>1, HearsIs
  <2>3. ASSUME NEW x \in GuestId PROVE FreedFrom(cl[x], CallbackDone(cl, g)[x], {})
    BY <1>1, <2>2, CallbackDoneSays DEF Alive
  <2>. QED BY <1>2, <2>1, <2>3, FlowQuiet DEF HostDone, FreedFrom
<1>3. ASSUME NEW h \in HostId, HostDeletesId(h) PROVE BInv'
  <2>1. cl' = cl \/ \E g : cl' = IdsDeleted(cl, {g})
    BY <1>3 DEF HostDeletesId
  <2>2. ASSUME NEW x \in GuestId, NEW g PROVE Claims(cl[x], IdsDeleted(cl, {g})[x])
    BY <1>1, DeletedClaims
  <2>3. \A x \in GuestId : Claims(cl[x], cl'[x])
    BY <2>1, <2>2 DEF Claims
  <2>. QED BY <1>3, <2>3, FlowQuiet DEF HostDeletesId, Claims
<1>4. ASSUME NEW h \in HostId, HostReleases(h) PROVE BInv'
  <2>1. PICK g : buffer_flow' = on_release(buffer_flow, g) /\ cl' = BuffersReleased(cl, {g})
    BY <1>4 DEF HostReleases
  <2>2. ASSUME NEW x \in GuestId
        PROVE  Claims(cl[x], cl'[x]) /\ (cl'[x].busy => x \notin {g})
    BY <1>1, <2>1, ReleasedClaims
  <2>3. buffer_flow'.in_flight = buffer_flow.in_flight \ {g} /\ buffer_flow'.pending_attach = buffer_flow.pending_attach
    BY <1>1, <2>1 DEF on_release
  <2>. QED BY <2>2, <2>3 DEF BInv, Flowing, Claims
<1>5. ASSUME NEW h \in HostId, HostForgets(h) \/ HostCancelsSource PROVE BInv'
  BY <1>5, FlowQuiet DEF HostForgets, HostCancelsSource, proxyVars
<1>6. ASSUME NEW h \in HostId, HostKeyOrTouch(h) PROVE BInv'
  BY <1>6, FlowQuiet DEF HostKeyOrTouch
<1>7. ASSUME NEW h \in HostId, NEW s \in HostId, HostLeaves(h) \/ HostEnters(h, s) PROVE BInv'
  <2>1. \E g, t : cl' = ClientFocused(g, t)
    BY <1>7 DEF HostLeaves, HostEnters, ClientFocused
  <2>2. buffer_flow' = buffer_flow
    BY <1>7 DEF HostLeaves, HostEnters
  <2>. QED BY <2>1, <2>2, FocusClaims, FlowQuiet
<1>8. ASSUME NEW h \in HostId, NEW b \in Buttons, HostButton(h, b) PROVE BInv'
  <2>1. \E g, p : cl' = ClientPressed(g, p)
    BY <1>8 DEF HostButton, ClientPressed
  <2>2. buffer_flow' = buffer_flow
    BY <1>8 DEF HostButton
  <2>. QED BY <2>1, <2>2, FocusClaims, FlowQuiet
<1>9. ASSUME NEW h \in HostId, NEW n \in HostId, HostOffers(h, n) PROVE BInv'
  <2> DEFINE g == objects.next_guest_server_id
  <2>1. PICK d : cl' = [cl EXCEPT ![g] = ClientObject("wl_data_offer", d, 0, NoAttr)]
    BY <1>9 DEF HostOffers
  <2>2. Clean(ClientObject("wl_data_offer", d, 0, NoAttr)) /\ buffer_flow' = buffer_flow
    BY <1>9, ClientObjectSays DEF HostOffers
  <2>3. \A x \in GuestId : cl'[x] = cl[x] \/ Clean(cl'[x])
    BY <1>1, <2>1, <2>2 DEF ClientShape
  <2>. QED BY <2>2, <2>3, FlowQuiet DEF Clean
<1>. QED BY <1>2, <1>3, <1>4, <1>5, <1>6, <1>7, <1>8, <1>9, IdRanges DEF Event

\* Where recovery ends, every busy buffer is released.
LEMMA FlowFinish ==
  ASSUME RInv, BInv, FinishRecovery, ~LeavesBusy
  PROVE  BInv'
<1>1. /\ ClientShape(cl) /\ Alive(cl) /\ Waiting(pending_frames, cl) /\ Named(objects, cl)
      /\ pending_frames \subseteq ClientGuestId
      /\ buffer_flow \in [pending_attach : [GuestId -> GuestId \cup {0}], in_flight : SUBSET GuestId]
  BY RInvIs DEF Trackers
<1> DEFINE b == BuffersReleased(cl, Releasable)
           u == Answered(b)
<1>2. cl' = GrabsReleased(u)
  BY DEF FinishRecovery, synthesize_grab_releases
<1>3. /\ ClientShape(b)
      /\ \A x \in GuestId : b[x].st = cl[x].st /\ b[x].iface = cl[x].iface /\ ~b[x].gone
  BY <1>1, BuffersReleasedIs DEF Alive
<1>4. ASSUME NEW x \in GuestId
      PROVE  ~b[x].busy /\ (b[x].att # 0 => b[x].att = cl[x].att)
  <2>1. Claims(cl[x], b[x]) /\ (b[x].busy => x \notin Releasable)
    BY <1>1, ReleasedClaims
  <2>2. x \notin Releasable => ~cl[x].busy
    BY DEF LeavesBusy
  <2>. QED BY <2>1, <2>2 DEF Claims
<1> HIDE DEF b
<1>5. Answerable \subseteq GuestId
  BY <1>1 DEF Answerable, GuestId
<1>6. \A g \in Answerable : objects.interfaces[g] = "wl_callback" /\ b[g].st = "live" /\ b[g].iface = "wl_callback"
  BY <1>1, <1>3, <1>5 DEF Answerable, Waiting, Named, NoInterface
<1>7. ASSUME NEW x \in GuestId
      PROVE  ~u[x].busy /\ (u[x].att # 0 => u[x].att = cl[x].att)
  <2>1. IF x \in Answerable THEN Nothing(u[x]) ELSE FreedFrom(b[x], u[x], Answerable)
    BY <1>3, <1>5, <1>6, AnsweredSays
  <2>. QED BY <1>4, <2>1 DEF Nothing, Clean, FreedFrom
<1>8. ClientShape(u)
  BY <1>3, AnsweredIs
<1> HIDE DEF u
<1>9. ASSUME NEW x \in GuestId
      PROVE  ~cl'[x].busy /\ (cl'[x].att # 0 => cl'[x].att = cl[x].att)
  BY <1>2, <1>7, <1>8, GrabsReleasedSays
<1>10. buffer_flow'.pending_attach = buffer_flow.pending_attach
  BY <1>1 DEF FinishRecovery, drain_in_flight
<1>. QED BY <1>9, <1>10 DEF BInv, Flowing

\* Recovery attaches and commits nothing for the client.
LEMMA FlowRecover ==
  ASSUME RInv, BInv, Recover, ~UnseenBuffer, ~LeavesBusy
  PROVE  BInv'
<1>1. ClientShape(cl) /\ Control
  BY RInvIs
<1>2. ASSUME UNCHANGED <<buffer_flow, cl>> PROVE BInv'
  BY <1>2, FlowQuiet
<1>3. CASE SeeEof \/ ReplaySkips \/ HostConfigures \/ ConfigureFails \/ ClientAcks \/ AckTimesOut \/ LoseEvent
  BY <1>2, <1>3 DEF SeeEof, ReplaySkips, HostConfigures, ConfigureFails, ClientAcks, AckTimesOut, LoseEvent,
                    Waits, proxyVars
<1>4. CASE Reconnect \/ FetchRegistry \/ FetchFails \/ ReplayFails \/ ReplayMaps
  BY <1>2, <1>4 DEF Reconnect, FetchRegistry, FetchFails, ReplayFails, ReplayMaps, trackers
<1>5. CASE RecoverNothing
  <2>1. cl' = GrabsReleased(cl) /\ buffer_flow' = buffer_flow
    BY <1>5 DEF RecoverNothing, synthesize_grab_releases
  <2>2. ASSUME NEW x \in GuestId PROVE cl'[x].busy = cl[x].busy /\ cl'[x].att = cl[x].att
    BY <1>1, <2>1, GrabsReleasedSays
  <2>. QED BY <2>1, <2>2, FlowQuiet
<1>6. CASE LoseRequest
  <2>1. PICK r \in IF boot < Len(Played.startup) THEN {Played.startup[boot + 1]} ELSE Played.requests :
          \E s \in Senders(r), a \in ArgsFor(r), v \in ValuesFor(r) :
            \E g \in NewIdsFor(r, s, a) : Lost(r, s, a, v, g) /\ Booted
    BY <1>6 DEF LoseRequest, Sends
  <2>2. PICK s \in Senders(r), a \in ArgsFor(r), v \in ValuesFor(r) :
            \E g \in NewIdsFor(r, s, a) : Lost(r, s, a, v, g) /\ Booted
    BY <2>1
  <2>3. PICK g \in NewIdsFor(r, s, a) : Lost(r, s, a, v, g) /\ Booted
    BY <2>2
  <2>4. Sendable(r, s, a, v, g)
    BY <1>1, <2>3, SendableIs
  <2>5. pc = "ack" /\ buffer_flow' = buffer_flow
    BY <1>6 DEF LoseRequest, proxyVars
  <2>6. ~(r.name = "attach" /\ a # 0) /\ ~(r.name = "commit" /\ cl[s].att # 0)
    BY <2>1, <2>2, <2>3, <2>5 DEF UnseenBuffer, Sends, BufferUnseen
  <2>. QED BY <2>3, <2>4, <2>5, <2>6, FlowAlone DEF Lost
<1>. QED BY <1>3, <1>4, <1>5, <1>6, FlowFinish DEF Recover

\* Every step keeps the tracker and the client together.
LEMMA FlowStep ==
  ASSUME RInv, BInv, [Next]_vars, [~RefusesFrame]_vars, [~UnseenBuffer]_vars, [~LeavesBusy]_vars
  PROVE  BInv'
<1>1. CASE UNCHANGED vars
  BY <1>1, FlowQuiet DEF vars, proxyVars
<1>2. CASE HostDies
  BY <1>2, FlowQuiet DEF HostDies, proxyVars
<1>3. CASE (Request \/ Event \/ Recover) /\ ~UNCHANGED vars
  BY <1>3, FlowRequest, FlowEvent, FlowRecover
<1>. QED BY <1>1, <1>2, <1>3 DEF Next

\* At first nothing is attached.
LEMMA FlowInit ==
  ASSUME Init
  PROVE  BInv
<1>1. \A g \in GuestId : cl[g] = IF g = 1 THEN ClientObject("wl_display", 0, 0, NoAttr) ELSE Blank("new")
  BY DEF Init
<1>2. \A g \in GuestId : Clean(cl[g])
  BY <1>1, BlankSays, ClientObjectSays DEF Nothing
<1>. QED BY <1>2 DEF BInv, Flowing, Clean

\* The executions in which the proxy sees every buffer that is attached and
\* committed, and recovery recreates the busy ones.
NoLostBuffer == NoRefusedFrame /\ [][~UnseenBuffer]_vars /\ [][~LeavesBusy]_vars

(***************************************************************************)
(* Every buffer the client believes busy is on the list recovery releases  *)
(* from (BufferFlowTracker), across crashes, commits while frozen, partial *)
(* recoveries and reused ids: only release, from the compositor or in its  *)
(* place, takes it off.                                                    *)
(***************************************************************************)
THEOREM BusyStaysTracked == NoLostBuffer => []BusyTracked
<1>1. RInv /\ BInv /\ [Next]_vars /\ [~RefusesFrame]_vars /\ [~UnseenBuffer]_vars /\ [~LeavesBusy]_vars => BInv'
  BY FlowStep
<1>2. Init => BInv
  BY FlowInit
<1>3. BInv => BusyTracked
  BY DEF BInv, Flowing, BusyTracked
<1>. QED BY <1>1, <1>2, <1>3, RInvHolds, PTL DEF NoLostBuffer, NoRefusedFrame, Spec

------------------------------------------------------------------------------
\* Focus and held buttons.

\* A live id that is mapped has the client's interface in the table.
InTable(t, c) ==
  \A x \in GuestId, h \in HostId : Maps(t, x, h) /\ c[x].st = "live" => t.interfaces[x] = c[x].iface

GrabTypes(gr) ==
  gr \in [ pointers : [GuestId -> [entered_surface : GuestId \cup {0}, pressed_buttons : SUBSET Buttons]],
           keyboards : [GuestId -> [entered_surface : GuestId \cup {0}]] ]

\* The tracker has every surface and every button a client's device has, and
\* the table knows the device.
Noted(c, t, gr) ==
  \A x \in GuestId : c[x].st = "live" =>
    /\ c[x].focus # 0 => /\ t.interfaces[x] = c[x].iface
                         /\ \/ c[x].iface = "wl_pointer" /\ gr.pointers[x].entered_surface # 0
                            \/ c[x].iface = "wl_keyboard" /\ gr.keyboards[x].entered_surface # 0
    /\ c[x].pressed # {} => /\ t.interfaces[x] = c[x].iface /\ c[x].iface = "wl_pointer"
                            /\ c[x].pressed \subseteq gr.pointers[x].pressed_buttons

\* The compositor's focus is on surfaces that exist.
Focused(k) ==
  \A h \in HostId : k[h].focus # 0 =>
    k[h].focus \in HostId /\ k[k[h].focus].iface = "wl_surface" /\ ~k[k[h].focus].dead

\* A new compositor has no focus yet.
Idle(k) == \A h \in HostId : k[h].focus = 0 /\ k[h].pressed = {}

\* What the compositor's surface f is to the client.
Sight(t, f, x) == IF f = 0 THEN x = 0 ELSE x \in GuestId /\ Maps(t, x, f)

\* Compositor and client have the same surface in focus and the same buttons
\* held, for every object that both have.
Seeing(t, c, k) ==
  \A x \in GuestId : c[x].st = "live" =>
    /\ \A h \in HostId : Maps(t, x, h) => Sight(t, k[h].focus, c[x].focus) /\ k[h].pressed = c[x].pressed
    /\ (\A h \in HostId : ~Maps(t, x, h)) => c[x].focus = 0 /\ c[x].pressed = {}

GInv ==
  /\ InTable(objects, cl) /\ GrabTypes(grabs) /\ Noted(cl, objects, grabs) /\ Focused(host)
  /\ pc \notin {"run", "frozen"} => Idle(host)
  /\ pc = "run" /\ up => Seeing(objects, cl, host)

\* What an object of the compositor shows.
Shows(o, w) == w.focus = o.focus /\ w.pressed = o.pressed
Dark(w) == w.focus = 0 /\ w.pressed = {}

\* Where there is no object there is no focus.
LEMMA NoObjectShows == Dark(NoObject)
BY DEF Dark, NoObject

\* A new object has no focus.
LEMMA HostObjectShows ==
  ASSUME NEW i, NEW o, NEW p, NEW a, NEW at0
  PROVE  Dark(HostObject(i, o, p, a, at0))
BY DEF Dark, HostObject, NoObject

\* Objects that lose their owners show what they did.
LEMMA SettledShows ==
  ASSUME NEW k, HostShape(k), NEW h \in HostId
  PROVE  Shows(k[h], Settled(k)[h])
<1>1. Settled(k)[h] = k[h] \/ Settled(k)[h] = [k[h] EXCEPT !.owner = Orphan]
  BY DEF Settled, Orphaned, HostShape
<1>2. DOMAIN k[h] = HostField
  BY DEF HostShape
<1>. QED BY <1>1, <1>2 DEF Shows, HostField

\* A destructor takes the focus off its object and changes no other.
LEMMA HostDestroyedShows ==
  ASSUME NEW k, HostShape(k), NEW s, NEW h \in HostId
  PROVE  LET w == HostDestroyed(k, s)[h]
         IN w.pressed = k[h].pressed /\ w.focus = Zeroed(k[h].focus, {s})
<1>1. DOMAIN k[h] = HostField /\ DOMAIN k = HostId
  BY DEF HostShape
<1>. QED BY <1>1 DEF HostDestroyed, Zeroed, HostField

\* A commit is not about focus.
LEMMA HostCommittedShows ==
  ASSUME NEW k, HostShape(k), NEW s, NEW h \in HostId
  PROVE  Shows(k[h], HostCommitted(k, s)[h])
<1>1. DOMAIN k[h] = HostField /\ DOMAIN k = HostId
  BY DEF HostShape
<1>. QED BY <1>1 DEF HostCommitted, Shows, HostField

\* What the compositor shows after a request it has processed.
ShownAfter(r, hs, h, w) ==
  IF r.child # "none" /\ h = objects.next_host_id THEN Dark(w)
  ELSE /\ w.pressed = host[h].pressed
       /\ w.focus = IF r.dtor THEN Zeroed(host[h].focus, {hs}) ELSE host[h].focus

\* A compositor that processes a destructor loses the focus on the object.
LEMMA ProcessedShows ==
  ASSUME HostShape(host), NEW r, NEW hs \in HostId, NEW ha, NEW v, NEW g, NEW h \in HostId,
         r.dtor => r.child = "none" /\ r.name \notin {"attach", "commit"}
  PROVE  ShownAfter(r, hs, h, Processed(r, hs, ha, v, g)[h])
<1> DEFINE n == objects.next_host_id
           object == HostObject(r.child, g, hs, ha, FirstAttr(r, host[hs].attr, v))
           made == IF r.child = "none" THEN host ELSE [host EXCEPT ![n] = object]
           told == [made EXCEPT ![hs].attr = AttrAfter(r, @, v)]
           u == Processed(r, hs, ha, v, g)
<1>1. DOMAIN object = HostField /\ Dark(object)
  BY HostObjectIs, HostObjectShows
<1> HIDE DEF object
<1>2. HostShape(made) /\ IF r.child # "none" /\ h = n THEN Dark(made[h]) ELSE made[h] = host[h]
  BY <1>1 DEF HostShape
<1>3. u = CASE r.name = "attach" -> [told EXCEPT ![hs].att = ha]
            [] r.name = "commit" -> HostCommitted(told, hs)
            [] r.dtor -> HostDestroyed(told, hs)
            [] OTHER -> told
  BY DEF Processed, told, made, object
<1> HIDE DEF made
<1>4. HostShape(told) /\ Shows(made[h], told[h])
  BY <1>2 DEF HostShape, HostField, Shows
<1> HIDE DEF told, u
<1>5. CASE u = HostDestroyed(told, hs) /\ r.dtor
  <2>1. u[h].pressed = told[h].pressed /\ u[h].focus = Zeroed(told[h].focus, {hs})
    BY <1>4, <1>5, HostDestroyedShows
  <2>. QED BY <1>2, <1>4, <1>5, <2>1 DEF u, Shows, ShownAfter
<1>6. CASE ~r.dtor
  <2>1. Shows(told[h], u[h])
    <3>1. CASE u = [told EXCEPT ![hs].att = ha]
      BY <1>4, <3>1 DEF HostShape, HostField, Shows
    <3>2. CASE u = HostCommitted(told, hs)
      BY <1>4, <3>2, HostCommittedShows
    <3>3. CASE u = told
      BY <3>3 DEF Shows
    <3>. QED BY <1>3, <1>6, <3>1, <3>2, <3>3
  <2>. QED BY <1>2, <1>4, <1>6, <2>1 DEF u, Shows, Dark, ShownAfter
<1>. QED BY <1>3, <1>5, <1>6

\* What has to be shown of a step, as conditions on the primed variables.
LEMMA GrabsWhen ==
  ASSUME InTable(objects', cl'), GrabTypes(grabs'), Noted(cl', objects', grabs'), Focused(host'),
         pc' \notin {"run", "frozen"} => Idle(host'),
         pc' = "run" /\ up' => Seeing(objects', cl', host')
  PROVE  GInv'
<1>1. /\ InTable(objects, cl)' <=> InTable(objects', cl')
      /\ Seeing(objects, cl, host)' <=> Seeing(objects', cl', host')
  BY DEF InTable, Seeing, Sight, Maps
<1>2. /\ GrabTypes(grabs)' <=> GrabTypes(grabs')
      /\ Noted(cl, objects, grabs)' <=> Noted(cl', objects', grabs')
      /\ Focused(host)' <=> Focused(host')
      /\ Idle(host)' <=> Idle(host')
  BY DEF GrabTypes, Noted, Focused, Idle
<1>. QED BY <1>1, <1>2 DEF GInv

\* A live object is as before, up to a focus that is lost, or has no grab yet.
Milder(o, w, i, j) ==
  \/ Dark(w)
  \/ /\ o.st = "live" /\ w.iface = o.iface /\ j \in {i, o.iface}
     /\ w.focus \in {0, o.focus} /\ w.pressed = o.pressed

\* The tracker keeps what it needs when focus is lost on the side of the client.
LEMMA NotedFrom ==
  ASSUME NEW c, NEW t, NEW gr, Noted(c, t, gr), NEW d, NEW u,
         \A x \in GuestId : d[x].st = "live" => Milder(c[x], d[x], t.interfaces[x], u.interfaces[x])
  PROVE  Noted(d, u, gr)
BY DEF Noted, Milder, Dark

\* A live id is mapped as before, is recorded anew, or is not mapped.
Rewritten(c, t, d, u, x) ==
  \/ u.interfaces[x] = d[x].iface
  \/ /\ c[x].st = "live" /\ d[x].iface = c[x].iface /\ u.interfaces[x] = t.interfaces[x]
     /\ \A h \in HostId : Maps(u, x, h) => Maps(t, x, h)
  \/ \A h \in HostId : ~Maps(u, x, h)

\* The table keeps the interfaces of what is mapped.
LEMMA InTableFrom ==
  ASSUME NEW c, NEW t, InTable(t, c), NEW d, NEW u,
         \A x \in GuestId : d[x].st = "live" => Rewritten(c, t, d, u, x)
  PROVE  InTable(u, d)
BY DEF InTable, Rewritten

\* Focus is only lost, and what is in focus remains.
LEMMA FocusedFrom ==
  ASSUME NEW k, Focused(k), NEW m, \A h \in HostId : m[h].focus \in {0, k[h].focus},
         \A h, z \in HostId : k[h].iface = "wl_surface" /\ ~k[h].dead /\ m[z].focus = h =>
           m[h].iface = "wl_surface" /\ ~m[h].dead
  PROVE  Focused(m)
BY DEF Focused

\* A live object is new, or client and compositor keep, or both lose, its focus.
Newly(u, d, m, x) == Dark(d[x]) /\ \A h \in HostId : Maps(u, x, h) => Dark(m[h])

Still(t, c, k, u, d, m, x) ==
  /\ c[x].st = "live" /\ d[x].pressed = c[x].pressed /\ d[x].focus \in {0, c[x].focus}
  /\ \A h \in HostId : Maps(u, x, h) <=> Maps(t, x, h)
  /\ \A h \in HostId : Maps(t, x, h) =>
       /\ m[h].pressed = k[h].pressed
       /\ \/ d[x].focus = 0 /\ m[h].focus = 0
          \/ /\ d[x].focus = c[x].focus /\ m[h].focus = k[h].focus
             /\ k[h].focus # 0 /\ Maps(t, c[x].focus, k[h].focus) => Maps(u, c[x].focus, k[h].focus)

\* Client and compositor keep seeing the same.
LEMMA SeeingFrom ==
  ASSUME NEW t, NEW c, NEW k, Seeing(t, c, k), NEW u, NEW d, NEW m,
         \A x \in GuestId : d[x].st = "live" => Newly(u, d, m, x) \/ Still(t, c, k, u, d, m, x)
  PROVE  Seeing(u, d, m)
<1> SUFFICES ASSUME NEW x \in GuestId, d[x].st = "live"
             PROVE  /\ \A h \in HostId : Maps(u, x, h) => Sight(u, m[h].focus, d[x].focus) /\ m[h].pressed = d[x].pressed
                    /\ (\A h \in HostId : ~Maps(u, x, h)) => d[x].focus = 0 /\ d[x].pressed = {}
  BY DEF Seeing
<1>1. CASE Newly(u, d, m, x)
  BY <1>1 DEF Newly, Dark, Sight
<1>2. CASE Still(t, c, k, u, d, m, x)
  <2>1. /\ \A h \in HostId : Maps(t, x, h) => Sight(t, k[h].focus, c[x].focus) /\ k[h].pressed = c[x].pressed
        /\ (\A h \in HostId : ~Maps(t, x, h)) => c[x].focus = 0 /\ c[x].pressed = {}
    BY <1>2 DEF Seeing, Still
  <2>2. ASSUME NEW h \in HostId, Maps(u, x, h)
        PROVE  Sight(u, m[h].focus, d[x].focus) /\ m[h].pressed = d[x].pressed
    <3>1. Maps(t, x, h) /\ Sight(t, k[h].focus, c[x].focus) /\ k[h].pressed = c[x].pressed
      BY <1>2, <2>1, <2>2 DEF Still
    <3>2. m[h].pressed = d[x].pressed
      BY <1>2, <3>1 DEF Still
    <3>. QED BY <1>2, <3>1, <3>2 DEF Still, Sight
  <2>3. (\A h \in HostId : ~Maps(u, x, h)) => d[x].focus = 0 /\ d[x].pressed = {}
    BY <1>2, <2>1 DEF Still
  <2>. QED BY <2>2, <2>3
<1>. QED BY <1>1, <1>2

\* What lies at an id that was not handed out yet, or where there is no object, is in nobody's focus.
LEMMA NoSightThere ==
  ASSUME RInv, GInv, up, NEW n, n = objects.next_host_id \/ (n \in HostId /\ host[n].iface = "none")
  PROVE  /\ \A x \in GuestId : cl[x].st = "live" /\ n \in HostId /\ Maps(objects, x, n) => Dark(cl[x])
         /\ n \in HostId => host[n].iface # "wl_surface"
         /\ \A h \in HostId : host[h].focus # n \/ n \notin HostId
<1>1. /\ Ranges(objects, host) /\ Promises /\ Agree(objects, cl, host) /\ Ahead(objects, host)
      /\ TableInv(objects) /\ objects.next_host_id \in Nat /\ ClientShape(cl)
      /\ Noted(cl, objects, grabs) /\ Focused(host)
  BY RInvIs DEF GInv
<1>2. n \in HostId => host[n].iface \in {"none", "wl_data_offer"}
  <2>1. n \in ClientHostId => host[n].iface = "none"
    BY <1>1 DEF Ahead
  <2>. QED BY <1>1, <2>1 DEF Ranges, HostId
<1>3. ASSUME NEW x \in GuestId, cl[x].st = "live", n \in HostId, Maps(objects, x, n)
      PROVE  Dark(cl[x])
  <2>1. n \in Nat \ {NoId} /\ x # 0
    BY <1>3, IdRanges DEF NoId
  <2>2. x \in Holds(cl)
    BY <1>1, <1>3, HoldsIs
  <2>3. Own[n] = x
    BY <1>1, <1>3, <2>1, <2>2 DEF Promises
  <2>4. host[n].iface = "wl_data_offer"
    BY <1>2, <1>3, <2>1, <2>3 DEF Own
  <2>5. cl[x].iface = "wl_data_offer"
    BY <1>1, <1>3, <2>4 DEF Agree
  <2>. QED BY <1>1, <1>3, <2>5 DEF Noted, Dark
<1>4. \A h \in HostId : host[h].focus # n \/ n \notin HostId
  BY <1>1, <1>2, IdRanges DEF Focused
<1>. QED BY <1>2, <1>3, <1>4

\* One id is mapped to one id at most, and one id to it.
LEMMA MapsOnce ==
  ASSUME NEW t, TableInv(t), NEW x \in GuestId, NEW h \in HostId, Maps(t, x, h)
  PROVE  /\ \A y \in GuestId : Maps(t, y, h) => y = x
         /\ \A f : Maps(t, x, f) => f = h
BY IdRanges DEF TableInv, Maps, NoId

------------------------------------------------------------------------------
\* Requests.

\* What a request leaves of the client's grabs.
ShownFrom(r, s, g, x, w) ==
  IF r.child # "none" /\ x = g
  THEN Dark(w) /\ w.iface = r.child /\ \A h \in HostId : ~Maps(objects, x, h)
  ELSE /\ cl[x].st = "live" /\ w.iface = cl[x].iface /\ w.pressed = cl[x].pressed
       /\ r.dtor => x # s /\ w.focus = Zeroed(cl[x].focus, {s})
       /\ ~r.dtor => w.focus = cl[x].focus

\* A request of the client leaves focus and buttons but for a destroyed surface.
LEMMA SentShows ==
  ASSUME RInv, NEW r, NEW s, NEW a, NEW v, NEW g, Sendable(r, s, a, v, g), NEW x \in GuestId
  PROVE  Sent(r, s, a, v, g)[x].st = "live" => ShownFrom(r, s, g, x, Sent(r, s, a, v, g)[x])
<1> SUFFICES ASSUME Sent(r, s, a, v, g)[x].st = "live"
             PROVE  ShownFrom(r, s, g, x, Sent(r, s, a, v, g)[x])
  OBVIOUS
<1> DEFINE w == Sent(r, s, a, v, g)[x]
<1>1. /\ w.st = IF r.child # "none" /\ x = g THEN "live"
                ELSE IF r.dtor /\ x = s THEN IF s \in ServerGuestId THEN "free" ELSE "dead"
                ELSE cl[x].st
      /\ w.iface = IF r.child # "none" /\ x = g THEN r.child
                   ELSE IF r.dtor /\ x = s /\ s \in ServerGuestId THEN "none" ELSE cl[x].iface
      /\ r.child # "none" => g \in ClientGuestId /\ cl[g].st \in {"new", "free"}
  BY SentGives
<1>2. IF r.child # "none" /\ x = g THEN MadeFrom(w, r, s, a, v)
      ELSE IF r.dtor THEN DestroyedFrom(cl[x], w, x, s, s \in ServerGuestId)
      ELSE ToldFrom(cl[x], w, x, r, s, a, v)
  BY SentSays
<1>3. w.st = "live"
  OBVIOUS
<1> HIDE DEF w
<1>4. CASE r.child # "none" /\ x = g
  <2>1. \A h \in HostId : ~Maps(objects, x, h)
    <3>1. g \in ClientGuestId /\ g \in GuestId /\ cl[g].st \in {"new", "free"} /\ ClientShape(cl) /\ Promises
      BY <1>1, <1>4, RInvIs
    <3>2. g \notin Holds(cl)
      BY <3>1, HoldsIs
    <3>. QED BY <1>4, <3>1, <3>2, IdRanges DEF Promises, NoId
  <2>. QED BY <1>1, <1>2, <1>4, <2>1 DEF w, MadeFrom, Clean, Dark, ShownFrom
<1>5. CASE ~(r.child # "none" /\ x = g) /\ r.dtor
  BY <1>1, <1>2, <1>3, <1>5 DEF w, DestroyedFrom, UnrefFrom, ShownFrom
<1>6. CASE ~(r.child # "none" /\ x = g) /\ ~r.dtor
  BY <1>1, <1>2, <1>3, <1>6 DEF w, ToldFrom, ShownFrom
<1>. QED BY <1>4, <1>5, <1>6

\* The tracker, the records and the tracker's notes after a request, whatever the proxy does with it.
LEMMA SentNoted ==
  ASSUME RInv, GInv, NEW r, NEW s, NEW a, NEW v, NEW g, Sendable(r, s, a, v, g), NEW d, NEW u,
         \A x \in GuestId : d[x].st = "live" =>
           LET w == Sent(r, s, a, v, g)[x]
           IN w.st = "live" /\ d[x].iface = w.iface /\ d[x].focus = w.focus /\ d[x].pressed = w.pressed,
         \A x \in GuestId : (r.child # "none" /\ x = g) \/ d[x].st # "live" \/ u.interfaces[x] = objects.interfaces[x],
         \A x \in GuestId, h \in HostId :
           d[x].st = "live" /\ Maps(u, x, h) =>
             IF r.child # "none" /\ x = g THEN u.interfaces[x] = r.child ELSE Maps(objects, x, h)
  PROVE  InTable(u, d) /\ Noted(d, u, grabs)
<1>1. ASSUME NEW x \in GuestId, d[x].st = "live"
      PROVE  Milder(cl[x], d[x], objects.interfaces[x], u.interfaces[x]) /\ Rewritten(cl, objects, d, u, x)
  <2> DEFINE w == Sent(r, s, a, v, g)[x]
  <2>1. w.st = "live" /\ d[x].iface = w.iface /\ d[x].focus = w.focus /\ d[x].pressed = w.pressed
    BY <1>1
  <2>2. ShownFrom(r, s, g, x, w)
    BY <2>1, SentShows
  <2> HIDE DEF w
  <2>. QED BY <1>1, <2>1, <2>2 DEF ShownFrom, Milder, Rewritten, Dark, Zeroed
<1>. QED BY <1>1, NotedFrom, InTableFrom DEF GInv

\* Focus does not change where objects only lose their owners.
LEMMA SettledFocused ==
  ASSUME RInv, GInv
  PROVE  /\ Focused(Settled(host)) /\ (Idle(host) => Idle(Settled(host)))
         /\ \A h \in HostId : Shows(host[h], Settled(host)[h])
<1> DEFINE m == Settled(host)
<1>1. HostShape(host) /\ Owned(host) /\ ClientShape(cl) /\ Focused(host)
  BY RInvIs DEF GInv
<1>2. \A h \in HostId : Shows(host[h], m[h])
  BY <1>1, SettledShows
<1>3. \A h \in HostId : m[h].iface = host[h].iface /\ (m[h].dead <=> host[h].dead)
  BY <1>1, SettledIs
<1> HIDE DEF m
<1>4. Focused(m)
  BY <1>1, <1>2, <1>3, FocusedFrom DEF Shows
<1>5. Idle(host) => Idle(m)
  BY <1>2 DEF Idle, Shows
<1>. QED BY <1>2, <1>4, <1>5 DEF m

\* The focus a client loses with a surface the compositor does not know is none.
LEMMA UnmappedUnseen ==
  ASSUME RInv, Seeing(objects, cl, host), NEW s \in GuestId, \A h \in HostId : ~Maps(objects, s, h), GInv,
         NEW x \in GuestId, cl[x].st = "live"
  PROVE  cl[x].focus # s
<1>1. Focused(host) /\ s # 0
  BY IdRanges DEF GInv
<1>2. CASE \E h \in HostId : Maps(objects, x, h)
  <2>1. PICK h \in HostId : Maps(objects, x, h)
    BY <1>2
  <2>2. Sight(objects, host[h].focus, cl[x].focus)
    BY <2>1 DEF Seeing
  <2>. QED BY <1>1, <2>2 DEF Sight, Focused
<1>3. CASE \A h \in HostId : ~Maps(objects, x, h)
  BY <1>1, <1>3 DEF Seeing
<1>. QED BY <1>2, <1>3

\* A request that the compositor does not get, and that leaves every mapping
\* but the one rolled back.
LEMMA GrabsUnsent ==
  ASSUME RInv, GInv, NEW r, NEW s, NEW a, NEW v, NEW g, Sendable(r, s, a, v, g), NEW d, NEW u,
         up, pc = "run", r.dtor => \A h \in HostId : ~Maps(objects, s, h),
         \A x \in GuestId : d[x].st = "live" =>
           LET w == Sent(r, s, a, v, g)[x]
           IN w.st = "live" /\ d[x].focus = w.focus /\ d[x].pressed = w.pressed,
         NEW n, n = objects.next_host_id,
         \A x \in GuestId, y \in Nat \ {NoId} : d[x].st = "live" =>
            /\ Maps(objects, x, y) /\ y # n => Maps(u, x, y)
            /\ Maps(u, x, y) => Maps(objects, x, y),
         \A x \in GuestId, y \in Nat \ {NoId} : Maps(objects, x, y) /\ y # n /\ ~(r.dtor /\ x = s) => Maps(u, x, y)
  PROVE  Seeing(u, d, Settled(host))
<1>1. Seeing(objects, cl, host) /\ HostShape(host)
  BY RInvIs DEF GInv
<1> DEFINE m == Settled(host)
<1>2. \A h \in HostId : Shows(host[h], m[h])
  BY SettledFocused
<1> HIDE DEF m
<1>3. /\ \A x \in GuestId : cl[x].st = "live" /\ n \in HostId /\ Maps(objects, x, n) => Dark(cl[x])
      /\ \A h \in HostId : host[h].focus # n \/ n \notin HostId
  BY NoSightThere
<1>4. ASSUME NEW x \in GuestId, d[x].st = "live"
      PROVE  Newly(u, d, m, x) \/ Still(objects, cl, host, u, d, m, x)
  <2> DEFINE w == Sent(r, s, a, v, g)[x]
  <2>1. w.st = "live" /\ d[x].focus = w.focus /\ d[x].pressed = w.pressed
    BY <1>4
  <2>2. ShownFrom(r, s, g, x, w)
    BY <2>1, SentShows
  <2> HIDE DEF w
  <2>3. \A h \in HostId : h \in Nat \ {NoId}
    BY IdRanges DEF NoId
  <2>4. CASE r.child # "none" /\ x = g
    BY <1>4, <2>1, <2>2, <2>3, <2>4 DEF ShownFrom, Newly, Dark
  <2>5. CASE ~(r.child # "none" /\ x = g)
    <3>1. s \in GuestId
      BY DEF Sendable
    <3>2. r.dtor => cl[x].focus # s
      BY <1>1, <2>2, <2>5, <3>1, UnmappedUnseen DEF ShownFrom
    <3>3. cl[x].st = "live" /\ d[x].focus = cl[x].focus /\ d[x].pressed = cl[x].pressed
      BY <2>1, <2>2, <2>5, <3>2 DEF ShownFrom, Zeroed
    <3>4. CASE n \in HostId /\ Maps(objects, x, n)
      <4>1. Dark(cl[x])
        BY <1>3, <3>3, <3>4
      <4>2. ASSUME NEW h \in HostId, Maps(u, x, h)
            PROVE  Dark(m[h])
        <5>1. Maps(objects, x, h)
          BY <1>4, <2>3, <4>2
        <5>2. Sight(objects, host[h].focus, 0) /\ host[h].pressed = {}
          BY <1>1, <3>3, <4>1, <5>1 DEF Seeing, Dark
        <5>. QED BY <1>2, <5>2, IdRanges DEF Sight, Shows, Dark
      <4>. QED BY <3>3, <4>1, <4>2 DEF Newly, Dark
    <3>5. CASE ~(n \in HostId /\ Maps(objects, x, n))
      <4>1. \A h \in HostId : Maps(u, x, h) <=> Maps(objects, x, h)
        BY <1>4, <2>3, <3>5
      <4>2. ASSUME NEW h \in HostId, host[h].focus # 0, Maps(objects, cl[x].focus, host[h].focus), Maps(objects, x, h)
            PROVE  Maps(u, cl[x].focus, host[h].focus)
        <5>1. Sight(objects, host[h].focus, cl[x].focus)
          BY <1>1, <3>3, <4>2 DEF Seeing
        <5>2. cl[x].focus \in GuestId /\ host[h].focus \in HostId /\ host[h].focus # n
          BY <1>3, <4>2, <5>1 DEF Sight, Focused, GInv
        <5>. QED BY <2>3, <3>2, <4>2, <5>2
      <4>. QED BY <1>2, <3>3, <4>1, <4>2 DEF Still, Shows
    <3>. QED BY <3>4, <3>5
  <2>. QED BY <2>4, <2>5
<1>. QED BY <1>1, <1>4, SeeingFrom DEF m

\* A request that is dropped, or read and thrown away.
LEMMA GrabsAlone ==
  ASSUME RInv, GInv, NEW r, NEW s, NEW a, NEW v, NEW g, Sendable(r, s, a, v, g),
         UNCHANGED <<pc, up, objects, grabs>>, cl' = Sent(r, s, a, v, g), host' = Settled(host),
         pc = "run" /\ r.dtor => \A h \in HostId : ~Maps(objects, s, h)
  PROVE  GInv'
<1>1. InTable(objects', cl') /\ Noted(cl', objects', grabs)
  <2>2. \A x \in GuestId : cl'[x].st = "live" => ShownFrom(r, s, g, x, cl'[x])
    BY SentShows
  <2>1. \A x \in GuestId, h \in HostId : cl'[x].st = "live" /\ r.child # "none" /\ x = g => ~Maps(objects, x, h)
    BY <2>2 DEF ShownFrom
  <2>. QED BY <2>1, SentNoted
<1>2. Focused(host') /\ (pc' \notin {"run", "frozen"} => Idle(host'))
  BY SettledFocused DEF GInv
<1>3. CASE pc' = "run" /\ up'
  <2>1. PICK n : n = objects.next_host_id
    OBVIOUS
  <2>2. Seeing(objects', cl', Settled(host))
    BY <1>3, <2>1, GrabsUnsent
  <2>. QED BY <1>1, <1>2, <2>2, GrabsWhen DEF GInv
<1>. QED BY <1>1, <1>2, <1>3, GrabsWhen DEF GInv

\* A request for an id nobody knows is dropped: a destroyed surface was in nobody's focus.
LEMMA GrabsDropped ==
  ASSUME RInv, GInv, NEW r, NEW s, NEW a, NEW v, NEW g, Sendable(r, s, a, v, g), DropRequest(r, s, a, v, g),
         UNCHANGED <<pc, up>>
  PROVE  GInv'
<1>1. ASSUME r.dtor, NEW h \in HostId, Maps(objects, s, h)
      PROVE  FALSE
  <2>1. Control /\ s \in GuestId /\ cl[s].st = "live" /\ cl[s].iface = r.on
    BY RInvIs DEF Sendable
  <2>2. r.arg = "none" /\ r.child = "none"
    BY <1>1, <2>1, SendableProtocol, SendableRequest
  <2>3. objects.interfaces[s] = r.on
    BY <1>1, <2>1 DEF GInv, InTable
  <2>. QED BY <2>2, <2>3 DEF DropRequest, Understood, Unresolvable
<1>. QED BY <1>1, GrabsAlone DEF DropRequest, proxyVars

\* Rolling back leaves every mapping but that of the new_id.
LEMMA RolledBackMaps ==
  ASSUME TableInv(objects), NEW r, NEW g, r.child # "none" => g \in GuestId \ {1} /\ r.child \in Interface,
         NEW x \in GuestId, NEW y \in Nat \ {NoId}, Maps(objects, x, y), y # objects.next_host_id,
         r.child # "none" => x # g
  PROVE  Maps(RolledBack(WithNewId(r, g), r, g), x, y)
<1> DEFINE n == objects.next_host_id
           m == WithNewId(r, g)
           f == unallocate_host_id(m, n)
<1>1. CASE r.child = "none"
  BY <1>1 DEF RolledBack, WithNewId
<1>2. CASE r.child # "none"
  <2>1. /\ TableInv(m) /\ m.next_host_id = n + 1 /\ Maps(m, x, y)
        /\ RolledBack(m, r, g) = remove_guest(f, g)
    BY <1>2, WithNewIdIs DEF RolledBack
  <2>2. n \in Nat
    BY DEF TableInv, ShadowTableType
  <2> HIDE DEF m
  <2>3. /\ f \in ShadowTableType /\ f.generation = m.generation
        /\ f.guest_to_host = m.guest_to_host /\ f.mapped_in_generation = m.mapped_in_generation
    BY <2>1, <2>2 DEF unallocate_host_id, ShadowTableType, TableInv
  <2> HIDE DEF f, n
  <2>4. /\ remove_guest(f, g).generation = f.generation
        /\ remove_guest(f, g).guest_to_host = [f.guest_to_host EXCEPT ![g] = NoId]
        /\ remove_guest(f, g).mapped_in_generation = [f.mapped_in_generation EXCEPT ![g] = NoGeneration]
    BY <1>2, <2>3, RemoveIs
  <2>5. Maps(remove_guest(f, g), x, y)
    BY <1>2, <2>1, <2>3, <2>4 DEF Maps, ShadowTableType
  <2>. QED BY <2>1, <2>5 DEF m
<1>. QED BY <1>1, <1>2

\* A request on an object that is not on this connection.
LEMMA GrabsRefused ==
  ASSUME RInv, GInv, NEW r, NEW s, NEW a, NEW v, NEW g, Sendable(r, s, a, v, g), RefuseRequest(r, s, a, v, g),
         r.name # "frame", UNCHANGED <<pc, up>>
  PROVE  GInv'
<1> DEFINE n == objects.next_host_id
           w == Sent(r, s, a, v, g)
           rolled == RolledBack(WithNewId(r, g), r, g)
<1>1. /\ Control /\ TableInv(objects) /\ Promises /\ ClientShape(cl)
      /\ GrabTypes(grabs) /\ s \in GuestId
  BY RInvIs DEF GInv, Sendable
<1>2. r.child # "none" => r.child \in Interface
  BY <1>1, SendableRequest DEF RefuseRequest, Understood
<1>3. /\ ClientShape(w)
      /\ r.child # "none" => g \in ClientGuestId /\ g \in GuestId \ {1} /\ cl[g].st \in {"new", "free"}
      /\ r.dtor => r.child = "none" /\ s # 1 /\ w[s].st # "live"
  BY <1>1, SentGives
<1>4. /\ host' = Settled(host) /\ grabs' = grabs /\ host_id(WithNewId(r, g), s) = {}
      /\ cl' = (IF r.dtor THEN IdsDeleted(w, {s}) ELSE w)
      /\ objects' = IF r.dtor THEN remove_guest(rolled, s) ELSE rolled
  BY DEF RefuseRequest
<1>5. r.dtor => \A h \in HostId : ~Maps(objects, s, h)
  <2> SUFFICES ASSUME r.dtor, NEW h \in HostId, Maps(objects, s, h)
               PROVE  FALSE
    OBVIOUS
  <2>1. WithNewId(r, g) = objects /\ h # NoId
    BY <1>3, IdRanges DEF WithNewId, NoId
  <2>. QED BY <1>1, <1>4, <2>1, HostIdIs DEF TableInv
<1>6. ASSUME NEW x \in GuestId, cl'[x].st = "live"
      PROVE  w[x].st = "live" /\ cl'[x].iface = w[x].iface /\ cl'[x].focus = w[x].focus /\ cl'[x].pressed = w[x].pressed
             /\ (r.dtor => x # s)
  <2> HIDE DEF w
  <2>1. CASE ~r.dtor
    BY <1>4, <1>6, <2>1
  <2>2. CASE r.dtor
    <3> DEFINE q == IdsDeleted(w, {s})
               freed == {z \in {s} : w[z].st = "dead"}
    <3>1. /\ q[x].st = IF x \in freed THEN "free" ELSE w[x].st
          /\ q[x].iface = IF x \in freed THEN "none" ELSE w[x].iface
      BY <1>3, IdsDeletedIs
    <3>2. IF x \in freed THEN Nothing(q[x]) ELSE FreedFrom(w[x], q[x], freed)
      BY <1>3, IdsDeletedSays
    <3>3. cl' = q
      BY <1>4, <2>2
    <3> HIDE DEF q, freed
    <3>. QED BY <1>3, <1>6, <2>2, <3>1, <3>2, <3>3 DEF FreedFrom
  <2>. QED BY <2>1, <2>2
<1>7. /\ TableInv(rolled)
      /\ rolled.interfaces = IF r.child # "none" THEN [objects.interfaces EXCEPT ![g] = NoInterface]
                             ELSE objects.interfaces
      /\ \A x \in GuestId, y \in Nat \ {NoId} : Maps(rolled, x, y) => Maps(objects, x, y) /\ (r.child # "none" => x # g)
  BY <1>1, <1>2, <1>3, RolledBackIs
<1>8. \A x \in GuestId, y \in Nat \ {NoId} :
        Maps(objects, x, y) /\ y # n /\ (r.child # "none" => x # g) => Maps(rolled, x, y)
  BY <1>1, <1>2, <1>3, RolledBackMaps
<1>9. objects.interfaces \in [GuestId -> Interface \cup {NoInterface}]
  BY <1>1 DEF TableInv, ShadowTableType
<1> HIDE DEF rolled, w
<1>10. /\ \A x \in GuestId : (r.child # "none" /\ x = g) \/ (r.dtor /\ x = s) \/ objects'.interfaces[x] = objects.interfaces[x]
       /\ \A x \in GuestId, y \in Nat \ {NoId} : Maps(objects', x, y) => Maps(objects, x, y) /\ (r.child # "none" => x # g)
       /\ \A x \in GuestId, y \in Nat \ {NoId} :
            Maps(objects, x, y) /\ y # n /\ (r.child # "none" => x # g) /\ ~(r.dtor /\ x = s) => Maps(objects', x, y)
  <2>1. CASE r.dtor
    <3>1. /\ \A x \in GuestId, y \in Nat \ {NoId} : Maps(remove_guest(rolled, s), x, y) <=> x # s /\ Maps(rolled, x, y)
          /\ remove_guest(rolled, s).interfaces = [rolled.interfaces EXCEPT ![s] = NoInterface]
      BY <1>1, <1>3, <1>7, <2>1, RemoveKeeps, RemoveInterfaces DEF TableInv
    <3>2. objects' = remove_guest(rolled, s)
      BY <1>4, <2>1
    <3>. QED BY <1>3, <1>7, <1>8, <1>9, <2>1, <3>1, <3>2
  <2>2. CASE ~r.dtor
    BY <1>4, <1>7, <1>8, <1>9, <2>2
  <2>. QED BY <2>1, <2>2
<1>11. \A h \in HostId : h \in Nat \ {NoId}
  BY IdRanges DEF NoId
<1>12. InTable(objects', cl') /\ Noted(cl', objects', grabs)
  <2>1. \A x \in GuestId : cl'[x].st = "live" =>
          LET z == Sent(r, s, a, v, g)[x]
          IN z.st = "live" /\ cl'[x].iface = z.iface /\ cl'[x].focus = z.focus /\ cl'[x].pressed = z.pressed
    BY <1>6 DEF w
  <2>2. \A x \in GuestId : (r.child # "none" /\ x = g) \/ cl'[x].st # "live" \/ objects'.interfaces[x] = objects.interfaces[x]
    BY <1>6, <1>10
  <2>3. \A x \in GuestId, h \in HostId :
          cl'[x].st = "live" /\ Maps(objects', x, h) =>
            IF r.child # "none" /\ x = g THEN objects'.interfaces[x] = r.child ELSE Maps(objects, x, h)
    BY <1>10, <1>11
  <2>. QED BY <2>1, <2>2, <2>3, SentNoted
<1>13. pc' = "run" /\ up' => Seeing(objects', cl', host')
  <2> SUFFICES ASSUME pc = "run", up
               PROVE  Seeing(objects', cl', Settled(host))
    BY <1>4
  <2>1. \A x \in GuestId : cl'[x].st = "live" =>
          LET z == Sent(r, s, a, v, g)[x]
          IN z.st = "live" /\ cl'[x].focus = z.focus /\ cl'[x].pressed = z.pressed
    BY <1>6 DEF w
  <2>2. \A y \in Nat \ {NoId} : r.child # "none" => ~Maps(objects, g, y)
    <3> SUFFICES ASSUME r.child # "none"
                 PROVE  g \in ClientGuestId \ Holds(cl)
      BY <1>1 DEF Promises
    <3>. QED BY <1>1, <1>3, HoldsIs
  <2>5. \A x \in GuestId, y \in Nat \ {NoId} :
          Maps(objects, x, y) /\ y # n /\ ~(r.dtor /\ x = s) => Maps(objects', x, y)
    BY <1>10, <2>2
  <2>3. \A x \in GuestId, y \in Nat \ {NoId} : cl'[x].st = "live" =>
            /\ Maps(objects, x, y) /\ y # n => Maps(objects', x, y)
            /\ Maps(objects', x, y) => Maps(objects, x, y)
    BY <1>6, <1>10, <2>5
  <2>4. PICK z : z = objects.next_host_id
    OBVIOUS
  <2>. QED BY <1>5, <2>1, <2>3, <2>4, <2>5, GrabsUnsent
<1>14. Focused(host') /\ (pc' \notin {"run", "frozen"} => Idle(host'))
  BY <1>4, SettledFocused DEF GInv
<1>. QED BY <1>1, <1>4, <1>12, <1>13, <1>14, GrabsWhen

\* A request that the compositor processes.
LEMMA GrabsProcessed ==
  ASSUME RInv, GInv, NEW r, NEW s, NEW a, NEW v, NEW g, Sendable(r, s, a, v, g), PassRequest(r, s, a, v, g),
         pc = "run", up
  PROVE  Focused(host') /\ Seeing(objects', cl', host')
<1> DEFINE n == objects.next_host_id
           new == r.child # "none"
           m == WithNewId(r, g)
           w == Sent(r, s, a, v, g)
<1>1. /\ Control /\ TableInv(objects) /\ Promises /\ ClientShape(cl) /\ HostShape(host) /\ Owned(host)
      /\ Ahead(objects, host) /\ Played.hosts \subseteq ClientHostId /\ n \in Nat
      /\ Focused(host) /\ Seeing(objects, cl, host) /\ s \in GuestId /\ cl[s].st = "live"
  BY RInvIs DEF GInv, Sendable
<1>2. /\ new => r.child \in Interface
      /\ r.dtor => ~new /\ r.name \notin {"attach", "commit"}
  BY <1>1, SendableRequest, SendableProtocol DEF PassRequest, Understood
<1>3. new => g \in ClientGuestId /\ g \in GuestId \ {1} /\ cl[g].st \in {"new", "free"} /\ g # s
  BY <1>1, SentGives
<1>4. \A x \in GuestId, y \in Nat \ {NoId} :
        Maps(m, x, y) <=> IF new /\ x = g THEN y = n ELSE Maps(objects, x, y) /\ (new => y # n)
  BY <1>1, <1>2, <1>3, WithNewIdIs
<1>5. objects' = m /\ cl' = w /\ (new => RoomFor(1)) /\ (~new => m = objects)
  BY DEF PassRequest, WithNewId
<1>6. PICK hs \in host_id(m, s), ha \in host_id(m, a) : host' = Settled(Processed(r, hs, ha, ValueSent(r, v), g))
  BY DEF PassRequest
<1>7. Maps(m, s, hs) /\ hs \in Nat \ {NoId}
  <2>1. TableInv(m)
    BY <1>1, <1>2, <1>3, WithNewIdIs
  <2>. QED BY <1>1, <2>1, HostIdIs DEF TableInv, Maps, ShadowTableType
<1>8. Maps(objects, s, hs) /\ hs \in HostId
  <2>1. s \in Holds(cl)
    BY <1>1, HoldsIs
  <2>. QED BY <1>1, <1>3, <1>4, <1>7, <2>1 DEF Promises
<1>9. \A h \in HostId : h \in Nat \ {NoId} /\ h # 0
  BY IdRanges DEF NoId
<1>10. new => n \in ClientHostId /\ n \in HostId /\ host[n].iface = "none"
  BY <1>1, <1>5 DEF RoomFor, HostId, Ahead
<1>11. new => \A y \in Nat \ {NoId} : ~Maps(objects, g, y)
  BY <1>1, <1>3, HoldsIs DEF Promises
<1>12. \A x \in GuestId : cl'[x].st = "live" => ShownFrom(r, s, g, x, cl'[x])
  BY <1>5, SentShows
<1> DEFINE k == Processed(r, hs, ha, ValueSent(r, v), g)
<1>13. \A h \in HostId : ShownAfter(r, hs, h, k[h])
  BY <1>1, <1>2, <1>8, ProcessedShows
<1>14. /\ HostShape(k)
       /\ \A h \in HostId :
            /\ k[h].owner = IF new /\ h = n THEN g ELSE host[h].owner
            /\ k[h].iface = IF new /\ h = n THEN r.child ELSE host[h].iface
            /\ k[h].dead => (host[h].dead /\ ~(new /\ h = n)) \/ (r.dtor /\ h = hs)
  BY <1>1, ProcessedIs
<1> HIDE DEF k
<1>15. Owned(k)
  BY <1>1, <1>3, <1>14 DEF Owned
<1>16. \A h \in HostId : Shows(k[h], Settled(k)[h])
  BY <1>14, SettledShows
<1>17. \A h \in HostId : Settled(k)[h].iface = k[h].iface /\ (Settled(k)[h].dead <=> k[h].dead)
  BY <1>1, <1>14, <1>15, SettledIs
<1>18. host' = Settled(k)
  BY <1>6 DEF k
<1>19. \A h \in HostId : ShownAfter(r, hs, h, host'[h])
  BY <1>13, <1>16, <1>18 DEF ShownAfter, Shows, Dark
<1>20. \A h \in HostId : /\ host'[h].iface = IF new /\ h = n THEN r.child ELSE host[h].iface
                         /\ host'[h].dead => (host[h].dead /\ ~(new /\ h = n)) \/ (r.dtor /\ h = hs)
  BY <1>14, <1>17, <1>18
<1> HIDE DEF m, w, n
<1>21. Focused(host')
  <2>1. \A h \in HostId : host'[h].focus \in {0, host[h].focus}
    BY <1>19 DEF ShownAfter, Dark, Zeroed
  <2>2. ASSUME NEW h \in HostId, NEW z \in HostId, host[h].iface = "wl_surface", ~host[h].dead, host'[z].focus = h
        PROVE  host'[h].iface = "wl_surface" /\ ~host'[h].dead
    <3>1. ~(new /\ h = n)
      BY <1>10, <2>2
    <3>2. ~(r.dtor /\ h = hs)
      BY <1>2, <1>9, <1>19, <2>2 DEF ShownAfter, Zeroed
    <3>. QED BY <1>20, <2>2, <3>1, <3>2
  <2>. QED BY <1>1, <2>1, <2>2, FocusedFrom
<1>22. /\ new => \A x \in GuestId : cl[x].st = "live" /\ Maps(objects, x, n) => Dark(cl[x])
       /\ new => \A h \in HostId : host[h].focus # n
  BY <1>10, NoSightThere DEF n
<1>23. ASSUME NEW x \in GuestId, cl'[x].st = "live"
       PROVE  Newly(objects', cl', host', x) \/ Still(objects, cl, host, objects', cl', host', x)
  <2>1. ShownFrom(r, s, g, x, cl'[x])
    BY <1>12, <1>23
  <2>2. CASE new /\ x = g
    <3>1. \A h \in HostId : Maps(objects', x, h) => h = n
      BY <1>4, <1>5, <1>9, <2>2
    <3>2. Dark(host'[n])
      BY <1>10, <1>19, <2>2 DEF ShownAfter, n
    <3>. QED BY <2>1, <2>2, <3>1, <3>2 DEF Newly, ShownFrom
  <2>3. CASE ~(new /\ x = g)
    <3>1. /\ cl[x].st = "live" /\ cl'[x].pressed = cl[x].pressed
          /\ r.dtor => x # s /\ cl'[x].focus = Zeroed(cl[x].focus, {s})
          /\ ~r.dtor => cl'[x].focus = cl[x].focus
      BY <2>1, <2>3 DEF ShownFrom
    <3>2. \A h \in HostId : Maps(objects', x, h) <=> Maps(objects, x, h) /\ (new => h # n)
      BY <1>4, <1>5, <1>9, <2>3
    <3>3. CASE new /\ Maps(objects, x, n)
      <4>1. Dark(cl[x]) /\ n \in HostId
        BY <1>10, <1>22, <3>1, <3>3
      <4>2. \A h \in HostId : ~Maps(objects', x, h)
        BY <1>1, <3>2, <3>3, <4>1, MapsOnce
      <4>. QED BY <1>2, <3>1, <3>3, <4>1, <4>2 DEF Newly, Dark
    <3>4. CASE ~(new /\ Maps(objects, x, n))
      <4>1. \A h \in HostId : Maps(objects', x, h) <=> Maps(objects, x, h)
        BY <3>2, <3>4
      <4>2. ASSUME NEW h \in HostId, Maps(objects, x, h)
            PROVE  /\ host'[h].pressed = host[h].pressed
                   /\ \/ cl'[x].focus = 0 /\ host'[h].focus = 0
                      \/ /\ cl'[x].focus = cl[x].focus /\ host'[h].focus = host[h].focus
                         /\ host[h].focus # 0 /\ Maps(objects, cl[x].focus, host[h].focus) =>
                              Maps(objects', cl[x].focus, host[h].focus)
        <5>1. ~(new /\ h = n)
          BY <3>4, <4>2
        <5>2. /\ host'[h].pressed = host[h].pressed
              /\ host'[h].focus = IF r.dtor THEN Zeroed(host[h].focus, {hs}) ELSE host[h].focus
          BY <1>19, <5>1 DEF ShownAfter, n
        <5>3. Sight(objects, host[h].focus, cl[x].focus)
          BY <1>1, <3>1, <4>2 DEF Seeing
        <5>4. host[h].focus # 0 => host[h].focus \in HostId
          BY <1>1 DEF Focused
        <5>5. CASE r.dtor
          <6>1. cl[x].focus = s <=> host[h].focus = hs
            <7>1. CASE host[h].focus = 0
              BY <1>9, <1>8, <1>1, <5>3, <7>1, IdRanges DEF Sight
            <7>2. CASE host[h].focus # 0
              <8>1. cl[x].focus \in GuestId /\ Maps(objects, cl[x].focus, host[h].focus) /\ host[h].focus \in HostId
                BY <5>3, <5>4, <7>2 DEF Sight
              <8>2. cl[x].focus = s => host[h].focus = hs
                BY <1>1, <1>8, <8>1, MapsOnce
              <8>3. host[h].focus = hs => cl[x].focus = s
                BY <1>1, <1>8, <8>1, MapsOnce
              <8>. QED BY <8>2, <8>3
            <7>. QED BY <7>1, <7>2
          <6>2. objects' = objects
            BY <1>2, <1>5, <5>5
          <6>. QED BY <3>1, <5>2, <5>5, <6>1, <6>2 DEF Zeroed
        <5>6. CASE ~r.dtor
          <6>1. ASSUME host[h].focus # 0
                PROVE  Maps(objects', cl[x].focus, host[h].focus)
            <7>1. cl[x].focus \in GuestId /\ Maps(objects, cl[x].focus, host[h].focus) /\ host[h].focus \in HostId
              BY <5>3, <5>4, <6>1 DEF Sight
            <7>2. new => host[h].focus # n
              BY <1>22
            <7>. QED BY <1>4, <1>5, <1>9, <1>11, <7>1, <7>2
          <6>. QED BY <3>1, <5>2, <5>6, <6>1
        <5>. QED BY <5>2, <5>5, <5>6
      <4>3. cl'[x].focus \in {0, cl[x].focus}
        BY <3>1 DEF Zeroed
      <4>. QED BY <3>1, <4>1, <4>2, <4>3 DEF Still
    <3>. QED BY <3>3, <3>4
  <2>. QED BY <2>2, <2>3
<1>24. Seeing(objects', cl', host')
  BY <1>1, <1>23, SeeingFrom
<1>. QED BY <1>21, <1>24

\* A request that is passed on, or mapped while frozen.
LEMMA GrabsPassed ==
  ASSUME RInv, GInv, NEW r, NEW s, NEW a, NEW v, NEW g, Sendable(r, s, a, v, g), PassRequest(r, s, a, v, g),
         UNCHANGED <<pc, up>>, pc \in {"run", "frozen"}
  PROVE  GInv'
<1> DEFINE n == objects.next_host_id
           new == r.child # "none"
           m == WithNewId(r, g)
<1>1. Control /\ TableInv(objects)
  BY RInvIs
<1>2. new => r.child \in Interface
  BY <1>1, SendableRequest DEF PassRequest, Understood
<1>3. new => g \in GuestId \ {1}
  BY SentGives
<1>4. /\ m.interfaces = IF new THEN [objects.interfaces EXCEPT ![g] = r.child] ELSE objects.interfaces
      /\ \A x \in GuestId, y \in Nat \ {NoId} :
           Maps(m, x, y) <=> IF new /\ x = g THEN y = n ELSE Maps(objects, x, y) /\ (new => y # n)
  BY <1>1, <1>2, <1>3, WithNewIdIs
<1>5. objects' = m /\ cl' = Sent(r, s, a, v, g) /\ grabs' = grabs
  BY DEF PassRequest
<1>6. objects.interfaces \in [GuestId -> Interface \cup {NoInterface}] /\ \A h \in HostId : h \in Nat \ {NoId}
  BY <1>1, IdRanges DEF TableInv, ShadowTableType, NoId
<1> HIDE DEF m
<1>7. InTable(objects', cl') /\ Noted(cl', objects', grabs)
  <2>1. \A x \in GuestId : (new /\ x = g) \/ objects'.interfaces[x] = objects.interfaces[x]
    BY <1>4, <1>5, <1>6
  <2>2. new => objects'.interfaces[g] = r.child
    BY <1>3, <1>4, <1>5, <1>6
  <2>3. \A x \in GuestId, h \in HostId :
          Maps(objects', x, h) => IF new /\ x = g THEN objects'.interfaces[x] = r.child ELSE Maps(objects, x, h)
    BY <1>4, <1>5, <1>6, <2>2
  <2>. QED BY <1>5, <2>1, <2>3, SentNoted
<1>8. Focused(host')
  <2>1. CASE pc = "run" /\ up
    BY <2>1, GrabsProcessed
  <2>2. CASE ~(pc = "run" /\ up)
    <3>1. host' = Settled(host)
      BY <2>2 DEF PassRequest
    <3>. QED BY <3>1, SettledFocused
  <2>. QED BY <2>1, <2>2
<1>9. pc' = "run" /\ up' => Seeing(objects', cl', host')
  BY GrabsProcessed
<1>10. GrabTypes(grabs')
  BY <1>5 DEF GInv
<1>11. pc' \in {"run", "frozen"}
  OBVIOUS
<1>. QED BY <1>5, <1>7, <1>8, <1>9, <1>10, <1>11, GrabsWhen

\* Every request but a frame that is refused.
LEMMA GrabsRequest ==
  ASSUME RInv, GInv, Request, ~RefusesFrame
  PROVE  GInv'
<1>1. Control /\ pc \in {"run", "frozen"} /\ UNCHANGED <<pc, up>>
  BY RInvIs DEF Request
<1>2. PICK r \in IF boot < Len(Played.startup) THEN {Played.startup[boot + 1]} ELSE Played.requests :
        \E s \in Senders(r), a \in ArgsFor(r), v \in ValuesFor(r) :
          \E g \in NewIdsFor(r, s, a) : Relayed(r, s, a, v, g) /\ Booted
  BY DEF Request, Sends
<1>3. PICK s \in Senders(r), a \in ArgsFor(r), v \in ValuesFor(r) :
          \E g \in NewIdsFor(r, s, a) : Relayed(r, s, a, v, g) /\ Booted
  BY <1>2
<1>4. PICK g \in NewIdsFor(r, s, a) : Relayed(r, s, a, v, g) /\ Booted
  BY <1>3
<1>5. Sendable(r, s, a, v, g)
  BY <1>1, <1>4, SendableIs
<1>6. CASE DropRequest(r, s, a, v, g)
  BY <1>1, <1>5, <1>6, GrabsDropped
<1>7. CASE RefuseRequest(r, s, a, v, g)
  <2>1. r.name # "frame"
    BY <1>2, <1>3, <1>4, <1>7 DEF RefusesFrame, Sends, RefuseFrame
  <2>. QED BY <1>1, <1>5, <1>7, <2>1, GrabsRefused
<1>8. CASE PassRequest(r, s, a, v, g)
  BY <1>1, <1>5, <1>8, GrabsPassed
<1>. QED BY <1>4, <1>6, <1>7, <1>8 DEF Relayed

------------------------------------------------------------------------------
\* Events.

\* A live id in an event that is not about focus or buttons: it is new, or it
\* is as before on both sides, or its mapping goes to a new object.
Steady(x) ==
  \/ /\ Dark(cl'[x]) /\ objects'.interfaces[x] = cl'[x].iface
     /\ \A h \in HostId : Maps(objects', x, h) => Dark(host'[h])
  \/ /\ cl[x].st = "live" /\ cl'[x].iface = cl[x].iface /\ Shows(cl[x], cl'[x])
     /\ objects'.interfaces[x] = objects.interfaces[x]
     /\ \/ \A h \in HostId : /\ Maps(objects', x, h) <=> Maps(objects, x, h)
                             /\ Maps(objects, x, h) => Shows(host[h], host'[h])
        \/ (\A h \in HostId : ~Maps(objects', x, h)) /\ (up => Dark(cl[x]))

\* Such an event keeps the invariant.
LEMMA GrabsSteady ==
  ASSUME RInv, GInv, UNCHANGED <<grabs, pc, up>>, pc \in {"run", "frozen"},
         \A x \in GuestId : cl'[x].st = "live" => Steady(x),
         \A h \in HostId : host'[h].focus \in {0, host[h].focus},
         \A h \in HostId : host[h].iface = "wl_surface" /\ ~host[h].dead =>
           /\ host'[h].iface = "wl_surface"
           /\ \A z \in HostId : host'[z].focus = h => ~host'[h].dead
           /\ \A y \in GuestId : Maps(objects, y, h) => Maps(objects', y, h)
  PROVE  GInv'
<1>1. InTable(objects, cl) /\ GrabTypes(grabs) /\ Noted(cl, objects, grabs) /\ Focused(host)
  BY DEF GInv
<1>2. InTable(objects', cl')
  <2>1. \A x \in GuestId : cl'[x].st = "live" => Rewritten(cl, objects, cl', objects', x)
    BY DEF Steady, Rewritten
  <2>. QED BY <1>1, <2>1, InTableFrom
<1>3. Noted(cl', objects', grabs')
  <2>1. \A x \in GuestId : cl'[x].st = "live" => Milder(cl[x], cl'[x], objects.interfaces[x], objects'.interfaces[x])
    BY DEF Steady, Milder, Shows
  <2>2. Noted(cl', objects', grabs)
    BY <1>1, <2>1, NotedFrom
  <2>. QED BY <2>2
<1>4. Focused(host')
  BY <1>1, FocusedFrom
<1>5. pc' = "run" /\ up' => Seeing(objects', cl', host')
  <2> SUFFICES ASSUME pc = "run", up
               PROVE  Seeing(objects', cl', host')
    OBVIOUS
  <2>1. Seeing(objects, cl, host)
    BY DEF GInv
  <2>2. ASSUME NEW x \in GuestId, cl'[x].st = "live"
        PROVE  Newly(objects', cl', host', x) \/ Still(objects, cl, host, objects', cl', host', x)
    <3>1. CASE /\ Dark(cl'[x]) /\ \A h \in HostId : Maps(objects', x, h) => Dark(host'[h])
      BY <3>1 DEF Newly
    <3>2. CASE cl[x].st = "live" /\ Shows(cl[x], cl'[x]) /\ Dark(cl[x]) /\ \A h \in HostId : ~Maps(objects', x, h)
      BY <3>2 DEF Newly, Shows, Dark
    <3>3. CASE /\ cl[x].st = "live" /\ Shows(cl[x], cl'[x])
               /\ \A h \in HostId : /\ Maps(objects', x, h) <=> Maps(objects, x, h)
                                    /\ Maps(objects, x, h) => Shows(host[h], host'[h])
      <4>1. ASSUME NEW h \in HostId, Maps(objects, x, h), host[h].focus # 0
            PROVE  Maps(objects', cl[x].focus, host[h].focus)
        <5>1. Sight(objects, host[h].focus, cl[x].focus)
          BY <2>1, <3>3, <4>1 DEF Seeing
        <5>. QED BY <1>1, <4>1, <5>1 DEF Sight, Focused
      <4>. QED BY <3>3, <4>1 DEF Still, Shows
    <3>. QED BY <2>2, <3>1, <3>2, <3>3 DEF Steady
  <2>. QED BY <2>1, <2>2, SeeingFrom
<1>. QED BY <1>1, <1>2, <1>3, <1>4, <1>5, GrabsWhen

\* Nothing is mapped to the object of a live id that is dead for the compositor.
LEMMA DeadUnseen ==
  ASSUME RInv, NEW h \in HostId, host[h].dead, NEW x \in GuestId, cl[x].st = "live"
  PROVE  ~Maps(objects, x, h)
<1>1. Agree(objects, cl, host) /\ Objects(host)
  BY RInvIs
<1>. QED BY <1>1 DEF Agree, Objects

\* done: the callback goes on both sides.
LEMMA GrabsDone ==
  ASSUME RInv, GInv, UNCHANGED <<pc, up>>, pc = "run", NEW h \in HostId, HostDone(h)
  PROVE  GInv'
<1>1. ClientShape(cl) /\ HostShape(host) /\ Alive(cl) /\ Focused(host)
  BY RInvIs DEF GInv
<1>2. PICK g \in Hears(h) : cl' = CallbackDone(cl, g)
  BY DEF HostDone
<1>3. g \in GuestId /\ ~cl[g].gone
  BY <1>1, HearsIs DEF RInv, Alive
<1>4. host' = HostDestroyed(host, h) /\ host[h].iface = "wl_callback" /\ UNCHANGED <<objects, grabs>>
  BY DEF HostDone, HostHas
<1>5. \A x \in HostId : /\ host'[x].iface = host[x].iface /\ (host'[x].dead <=> host[x].dead \/ x = h)
                        /\ host'[x].pressed = host[x].pressed /\ host'[x].focus = Zeroed(host[x].focus, {h})
  <2> DEFINE u == HostDestroyed(host, h)
  <2>1. \A x \in HostId : u[x].iface = host[x].iface /\ (u[x].dead <=> host[x].dead \/ x = h)
    BY <1>1, HostDestroyedIs
  <2>2. \A x \in HostId : u[x].pressed = host[x].pressed /\ u[x].focus = Zeroed(host[x].focus, {h})
    BY <1>1, HostDestroyedShows
  <2> HIDE DEF u
  <2>. QED BY <1>4, <2>1, <2>2 DEF u
<1>6. \A x \in HostId : Shows(host[x], host'[x])
  BY <1>1, <1>4, <1>5, IdRanges DEF Shows, Zeroed, Focused
<1>7. ASSUME NEW x \in GuestId, cl'[x].st = "live"
      PROVE  Steady(x)
  <2> DEFINE u == CallbackDone(cl, g)
  <2>1. /\ u[x].st = "live" => cl[x].st = "live"
        /\ u[x].iface = cl[x].iface
    BY <1>1, <1>3, CallbackDoneIs
  <2>2. FreedFrom(cl[x], u[x], {})
    BY <1>1, <1>3, CallbackDoneSays
  <2> HIDE DEF u
  <2>3. cl[x].st = "live" /\ cl'[x].iface = cl[x].iface /\ Shows(cl[x], cl'[x])
    BY <1>2, <1>7, <2>1, <2>2 DEF u, FreedFrom, Shows
  <2>. QED BY <1>4, <1>6, <2>3 DEF Steady
<1>8. \A x \in HostId : host[x].iface = "wl_surface" => host'[x].iface = "wl_surface" /\ (host'[x].dead <=> host[x].dead)
  BY <1>4, <1>5
<1>. QED BY <1>4, <1>6, <1>7, <1>8, GrabsSteady DEF Shows

\* release is not about focus.
LEMMA GrabsReleases ==
  ASSUME RInv, GInv, UNCHANGED <<pc, up>>, pc = "run", NEW h \in HostId, HostReleases(h)
  PROVE  GInv'
<1>1. ClientShape(cl) /\ HostShape(host)
  BY RInvIs
<1>2. PICK g \in Hears(h) : cl' = BuffersReleased(cl, {g})
  BY DEF HostReleases
<1>4. host' = [host EXCEPT ![h].owed = FALSE] /\ UNCHANGED <<objects, grabs>>
  BY DEF HostReleases
<1>5. \A x \in HostId : /\ host'[x].iface = host[x].iface /\ (host'[x].dead <=> host[x].dead)
                        /\ host'[x].pressed = host[x].pressed /\ host'[x].focus = host[x].focus
  BY <1>1, <1>4 DEF HostShape, HostField
<1>7. ASSUME NEW x \in GuestId, cl'[x].st = "live"
      PROVE  Steady(x)
  <2> DEFINE u == BuffersReleased(cl, {g})
  <2>1. u[x].st = cl[x].st /\ u[x].iface = cl[x].iface
    BY <1>1, BuffersReleasedIs
  <2>2. u[x].focus = cl[x].focus /\ u[x].pressed = cl[x].pressed
    <3>1. u[x] = IF x \in {g} THEN [cl[x] EXCEPT !.busy = FALSE] ELSE cl[x]
      BY <1>1 DEF BuffersReleased, ClientShape
    <3> HIDE DEF u
    <3>2. DOMAIN cl[x] = ClientField
      BY <1>1 DEF ClientShape
    <3>. QED BY <3>1, <3>2 DEF ClientField
  <2> HIDE DEF u
  <2>3. cl[x].st = "live" /\ cl'[x].iface = cl[x].iface /\ Shows(cl[x], cl'[x])
    BY <1>2, <1>7, <2>1, <2>2 DEF u, Shows
  <2>. QED BY <1>4, <1>5, <2>3 DEF Steady, Shows
<1>. QED BY <1>4, <1>5, <1>7, GrabsSteady

\* The proxy's own data source is cancelled.
LEMMA GrabsCancelled ==
  ASSUME RInv, GInv, UNCHANGED <<pc, up>>, pc = "run", HostCancelsSource
  PROVE  GInv'
<1>1. HostShape(host) /\ Focused(host)
  BY RInvIs DEF GInv
<1>2. UNCHANGED <<objects, grabs, host, cl>>
  BY DEF HostCancelsSource
<1>3. \A x \in GuestId : cl'[x].st = "live" => Steady(x)
  BY <1>2 DEF Steady, Shows
<1>. QED BY <1>1, <1>2, <1>3, GrabsSteady

\* The number of a destroyed server object is free for the compositor to use again.
LEMMA GrabsForgotten ==
  ASSUME RInv, GInv, UNCHANGED <<pc, up>>, pc = "run", NEW h \in HostId, HostForgets(h)
  PROVE  GInv'
<1>1. HostShape(host)
  BY RInvIs
<1>2. host[h].dead /\ host' = [host EXCEPT ![h] = NoObject] /\ UNCHANGED <<objects, grabs, cl>>
  BY DEF HostForgets, proxyVars
<1>3. \A x \in HostId : host'[x] = IF x = h THEN NoObject ELSE host[x]
  BY <1>1, <1>2 DEF HostShape
<1>4. \A x \in GuestId : cl'[x].st = "live" => Steady(x)
  <2>1. \A x \in GuestId : cl[x].st = "live" => ~Maps(objects, x, h)
    BY <1>2, DeadUnseen
  <2>. QED BY <1>2, <1>3, <2>1 DEF Steady, Shows
<1>. QED BY <1>2, <1>3, <1>4, NoObjectShows, GrabsSteady DEF Dark

\* delete_id: the id goes, and what it was mapped to was dead.
LEMMA GrabsDeleted ==
  ASSUME RInv, GInv, UNCHANGED <<pc, up>>, pc = "run", NEW h \in HostId, HostDeletesId(h)
  PROVE  GInv'
<1>1. /\ HostShape(host) /\ HostDisplay(host) /\ ClientShape(cl) /\ TableInv(objects) /\ Focused(host)
      /\ objects \in ShadowTableType /\ h \in Nat \ {NoId}
  BY RInvIs, IdRanges DEF GInv, TableInv, NoId
<1>2. host[h].dead /\ host' = [host EXCEPT ![h] = NoObject] /\ grabs' = grabs
  BY DEF HostDeletesId
<1>3. \A x \in HostId : host'[x] = IF x = h THEN NoObject ELSE host[x]
  BY <1>1, <1>2 DEF HostShape
<1>4. \A x \in GuestId : cl[x].st = "live" => ~Maps(objects, x, h)
  BY <1>2, DeadUnseen
<1>5. \A x \in HostId : host'[x].focus \in {0, host[x].focus}
  BY <1>3, NoObjectShows DEF Dark
<1>6. CASE guest_id(objects, h) = {}
  <2>1. UNCHANGED <<objects, cl>>
    BY <1>6 DEF HostDeletesId
  <2>2. \A x \in GuestId : cl'[x].st = "live" => Steady(x)
    BY <1>3, <1>4, <2>1 DEF Steady, Shows
  <2>. QED BY <1>2, <1>3, <1>5, <2>1, <2>2, GrabsSteady
<1>7. ASSUME NEW g \in guest_id(objects, h), objects' = remove_guest(objects, g), cl' = IdsDeleted(cl, {g})
      PROVE  GInv'
  <2>1. g \in GuestId /\ Maps(objects, g, h)
    BY <1>1, GuestIdIs
  <2>2. g # 1
    BY <1>1, <1>2, <2>1 DEF TableInv, Maps, HostDisplay
  <2>3. cl[g].st # "live"
    BY <1>4, <2>1
  <2>4. /\ \A x \in GuestId, y \in Nat \ {NoId} : Maps(objects', x, y) <=> x # g /\ Maps(objects, x, y)
        /\ \A x \in GuestId : x # g => objects'.interfaces[x] = objects.interfaces[x]
    <3>1. objects'.interfaces = [objects.interfaces EXCEPT ![g] = NoInterface]
      BY <1>1, <1>7, <2>1, RemoveInterfaces
    <3>2. objects.interfaces \in [GuestId -> Interface \cup {NoInterface}]
      BY <1>1 DEF ShadowTableType
    <3>. QED BY <1>1, <1>7, <2>1, <2>2, <3>1, <3>2, RemoveKeeps
  <2>5. \A z \in HostId : z \in Nat \ {NoId}
    BY IdRanges DEF NoId
  <2>6. ASSUME NEW x \in GuestId, cl'[x].st = "live"
        PROVE  Steady(x)
    <3> DEFINE u == IdsDeleted(cl, {g})
               freed == {z \in {g} : cl[z].st = "dead"}
    <3>1. /\ u[x].st = IF x \in freed THEN "free" ELSE cl[x].st
          /\ u[x].iface = IF x \in freed THEN "none" ELSE cl[x].iface
      BY <1>1, IdsDeletedIs
    <3>2. IF x \in freed THEN Nothing(u[x]) ELSE FreedFrom(cl[x], u[x], freed)
      BY <1>1, IdsDeletedSays
    <3> HIDE DEF u, freed
    <3>3. x \notin freed /\ cl[x].st = "live" /\ cl'[x].iface = cl[x].iface /\ Shows(cl[x], cl'[x])
      BY <1>7, <2>6, <3>1, <3>2 DEF u, FreedFrom, Shows
    <3>4. x # g
      BY <2>3, <3>3
    <3>5. \A z \in HostId : /\ Maps(objects', x, z) <=> Maps(objects, x, z)
                            /\ Maps(objects, x, z) => Shows(host[z], host'[z])
      BY <1>3, <1>4, <2>4, <2>5, <3>3, <3>4 DEF Shows
    <3>. QED BY <2>4, <3>3, <3>4, <3>5 DEF Steady
  <2>7. ASSUME NEW z \in HostId, ~host[z].dead, NEW y \in GuestId, Maps(objects, y, z)
        PROVE  Maps(objects', y, z)
    <3>1. y # g
      BY <1>1, <1>2, <2>1, <2>7, MapsOnce
    <3>. QED BY <2>4, <2>5, <2>7, <3>1
  <2>. QED BY <1>2, <1>3, <1>5, <2>6, <2>7, GrabsSteady
<1>. QED BY <1>6, <1>7 DEF HostDeletesId

\* data_offer: a new object on both sides, at ids nobody sees.
LEMMA GrabsOffered ==
  ASSUME RInv, GInv, UNCHANGED <<pc, up>>, pc = "run", NEW h \in HostId, NEW n \in HostId, HostOffers(h, n)
  PROVE  GInv'
<1> DEFINE t == allocate_guest_server_id(objects)
           g == objects.next_guest_server_id
<1>1. /\ HostShape(host) /\ ClientShape(cl) /\ TableInv(objects) /\ objects \in ShadowTableType
      /\ Focused(host) /\ Ranges(objects, host)
  BY RInvIs DEF TableInv, GInv
<1>2. g \in GuestId \ {1} /\ n \in ServerHostId /\ n \in Nat /\ n >= 2 /\ n \notin ClientHostId
  BY IdRanges, ServerHostIdAssumption, ServerBaseAssumption, ServerGuestIdAssumption, ClientGuestIdAssumption
     DEF HostOffers, GuestId, HostId
<1>3. PICK d \in Hears(h) :
         /\ objects' = map(t, g, n, "wl_data_offer")
         /\ cl' = [cl EXCEPT ![g] = ClientObject("wl_data_offer", d, 0, NoAttr)]
         /\ host' = [host EXCEPT ![n] = HostObject("wl_data_offer", g, h, 0, NoAttr)]
  BY DEF HostOffers
<1>4. /\ TableInv(t) /\ t.interfaces = objects.interfaces
      /\ \A x, y : Maps(t, x, y) <=> Maps(objects, x, y)
  BY <1>1, AllocateServerKeeps, OtherInterfaces DEF TableInv
<1>5. host[n].iface = "none" /\ grabs' = grabs
  BY DEF HostOffers
<1> HIDE DEF t
<1>6. /\ \A x \in GuestId, y \in Nat \ {NoId} :
           Maps(objects', x, y) <=> IF x = g THEN y = n ELSE Maps(objects, x, y) /\ y # n
      /\ objects'.interfaces = [objects.interfaces EXCEPT ![g] = "wl_data_offer"]
  <2>1. t \in ShadowTableType
    BY <1>4 DEF TableInv
  <2>2. objects'.interfaces = [objects.interfaces EXCEPT ![g] = "wl_data_offer"]
    BY <1>2, <1>3, <1>4, <2>1, MapInterfaces, OfferAssumption
  <2>. QED BY <1>2, <1>3, <1>4, <2>2, MapKeeps, OfferAssumption
<1>7. objects.interfaces \in [GuestId -> Interface \cup {NoInterface}]
  BY <1>1 DEF ShadowTableType
<1> DEFINE new == ClientObject("wl_data_offer", d, 0, NoAttr)
           made == HostObject("wl_data_offer", g, h, 0, NoAttr)
<1>8. new.iface = "wl_data_offer" /\ Dark(new) /\ Dark(made) /\ made.iface = "wl_data_offer"
  BY ClientObjectIs, ClientObjectSays, HostObjectIs, HostObjectShows DEF Clean, Dark
<1>9. /\ \A x \in GuestId : cl'[x] = IF x = g THEN new ELSE cl[x]
      /\ \A x \in HostId : host'[x] = IF x = n THEN made ELSE host[x]
  BY <1>1, <1>2, <1>3 DEF ClientShape, HostShape
<1> HIDE DEF new, made, g
<1>10. up => \A x \in GuestId : cl[x].st = "live" /\ Maps(objects, x, n) => Dark(cl[x])
  BY <1>5, NoSightThere
<1>11. \A z \in HostId : z \in Nat \ {NoId}
  BY IdRanges DEF NoId
<1>12. ASSUME NEW x \in GuestId, cl'[x].st = "live"
       PROVE  Steady(x)
  <2>1. CASE x = g
    <3>1. \A z \in HostId : Maps(objects', x, z) => Dark(host'[z])
      BY <1>6, <1>8, <1>9, <1>11, <2>1
    <3>2. Dark(cl'[x]) /\ objects'.interfaces[x] = cl'[x].iface
      BY <1>6, <1>7, <1>8, <1>9, <2>1
    <3>. QED BY <3>1, <3>2 DEF Steady
  <2>2. CASE x # g
    <3>1. cl'[x] = cl[x] /\ objects'.interfaces[x] = objects.interfaces[x]
      BY <1>6, <1>7, <1>9, <2>2
    <3>2. \A z \in HostId : Maps(objects', x, z) <=> Maps(objects, x, z) /\ z # n
      BY <1>6, <1>11, <2>2
    <3>3. CASE Maps(objects, x, n)
      <4>1. \A z \in HostId : ~Maps(objects', x, z)
        BY <1>1, <3>2, <3>3, MapsOnce
      <4>. QED BY <1>10, <1>12, <3>1, <3>3, <4>1 DEF Steady, Shows
    <3>4. CASE ~Maps(objects, x, n)
      <4>1. \A z \in HostId : /\ Maps(objects', x, z) <=> Maps(objects, x, z)
                              /\ Maps(objects, x, z) => Shows(host[z], host'[z])
        BY <1>9, <3>2, <3>4 DEF Shows
      <4>. QED BY <1>12, <3>1, <4>1 DEF Steady, Shows
    <3>. QED BY <3>3, <3>4
  <2>. QED BY <2>1, <2>2
<1>13. \A z \in HostId : host'[z].focus \in {0, host[z].focus}
  BY <1>8, <1>9 DEF Dark
<1>14. ASSUME NEW z \in HostId, host[z].iface = "wl_surface", ~host[z].dead
       PROVE  /\ host'[z].iface = "wl_surface" /\ ~host'[z].dead
              /\ \A y \in GuestId : Maps(objects, y, z) => Maps(objects', y, z)
  <2>1. z # n /\ host'[z] = host[z]
    BY <1>5, <1>9, <1>14
  <2>2. ~Maps(objects, g, z)
    <3>1. z \notin ServerHostId
      BY <1>1, <1>14 DEF Ranges
    <3>2. g \in ServerGuestId
      BY DEF HostOffers, g
    <3>. QED BY <1>1, <1>2, <3>1, <3>2 DEF Ranges
  <2>. QED BY <1>6, <1>11, <1>14, <2>1, <2>2
<1>. QED BY <1>5, <1>12, <1>13, <1>14, GrabsSteady

\* What the tracker has after an enter or leave of a pointer p, of a keyboard, and after a button.
PointerAt(gr, u, p, f) ==
  /\ GrabTypes(u) /\ u.keyboards = gr.keyboards
  /\ \A x \in GuestId :
       /\ u.pointers[x].entered_surface = IF x = p THEN f ELSE gr.pointers[x].entered_surface
       /\ u.pointers[x].pressed_buttons = gr.pointers[x].pressed_buttons

KeyboardAt(gr, u, p, f) ==
  /\ GrabTypes(u) /\ u.pointers = gr.pointers
  /\ \A x \in GuestId :
       u.keyboards[x].entered_surface = IF x = p THEN f ELSE gr.keyboards[x].entered_surface

PointerHolds(gr, u, p, S) ==
  /\ GrabTypes(u) /\ u.keyboards = gr.keyboards
  /\ \A x \in GuestId :
       /\ u.pointers[x].entered_surface = gr.pointers[x].entered_surface
       /\ u.pointers[x].pressed_buttons = IF x = p THEN S ELSE gr.pointers[x].pressed_buttons

\* enter and leave, as the tracker notes them.
LEMMA TrackerSet ==
  ASSUME NEW gr, GrabTypes(gr), NEW p \in GuestId, NEW f \in GuestId \cup {0}
  PROVE  /\ PointerAt(gr, on_pointer_enter(gr, p, f), p, f) /\ PointerAt(gr, on_pointer_leave(gr, p), p, 0)
         /\ KeyboardAt(gr, on_keyboard_enter(gr, p, f), p, f) /\ KeyboardAt(gr, on_keyboard_leave(gr, p), p, 0)
<1>1. PointerAt(gr, on_pointer_enter(gr, p, f), p, f)
  BY DEF GrabTypes, PointerAt, on_pointer_enter
<1>2. PointerAt(gr, on_pointer_leave(gr, p), p, 0)
  BY DEF GrabTypes, PointerAt, on_pointer_leave
<1>3. KeyboardAt(gr, on_keyboard_enter(gr, p, f), p, f)
  BY DEF GrabTypes, KeyboardAt, on_keyboard_enter
<1>4. KeyboardAt(gr, on_keyboard_leave(gr, p), p, 0)
  BY DEF GrabTypes, KeyboardAt, on_keyboard_leave
<1>. QED BY <1>1, <1>2, <1>3, <1>4

\* button, as the tracker notes it.
LEMMA TrackerPressed ==
  ASSUME NEW gr, GrabTypes(gr), NEW p \in GuestId, NEW b \in Buttons, NEW press \in BOOLEAN
  PROVE  PointerHolds(gr, on_pointer_button(gr, p, b, press), p,
                      IF press THEN gr.pointers[p].pressed_buttons \cup {b} ELSE gr.pointers[p].pressed_buttons \ {b})
<1> DEFINE old == gr.pointers[p].pressed_buttons
           S == IF press THEN old \cup {b} ELSE old \ {b}
<1>1. old \in SUBSET Buttons /\ S \in SUBSET Buttons
  BY DEF GrabTypes
<1>2. on_pointer_button(gr, p, b, press) = [gr EXCEPT !.pointers[p].pressed_buttons = S]
  BY DEF on_pointer_button
<1> HIDE DEF S, old
<1>3. PointerHolds(gr, [gr EXCEPT !.pointers[p].pressed_buttons = S], p, S)
  BY <1>1 DEF GrabTypes, PointerHolds
<1>. QED BY <1>2, <1>3 DEF S, old

\* One device changes, on both sides.
LEMMA SeeingSet ==
  ASSUME RInv, Seeing(objects, cl, host), NEW g \in GuestId, NEW h \in HostId, Maps(objects, g, h), NEW c, NEW k,
         \A x \in GuestId : c[x].st = cl[x].st /\ (x # g => Shows(cl[x], c[x])),
         \A z \in HostId : z # h => Shows(host[z], k[z]),
         cl[g].st = "live" => Sight(objects, k[h].focus, c[g].focus) /\ k[h].pressed = c[g].pressed
  PROVE  Seeing(objects, c, k)
<1>1. TableInv(objects)
  BY RInvIs
<1>2. ASSUME NEW x \in GuestId, c[x].st = "live", NEW z \in HostId, Maps(objects, x, z)
      PROVE  Sight(objects, k[z].focus, c[x].focus) /\ k[z].pressed = c[x].pressed
  <2>1. CASE x = g
    <3>1. z = h
      BY <1>1, <1>2, <2>1, MapsOnce
    <3>. QED BY <1>2, <2>1, <3>1
  <2>2. CASE x # g
    <3>1. z # h
      BY <1>1, <1>2, <2>2, MapsOnce
    <3>2. Shows(cl[x], c[x]) /\ Shows(host[z], k[z]) /\ cl[x].st = "live"
      BY <1>2, <2>2, <3>1
    <3>3. Sight(objects, host[z].focus, cl[x].focus) /\ host[z].pressed = cl[x].pressed
      BY <1>2, <3>2 DEF Seeing
    <3>. QED BY <3>2, <3>3 DEF Shows
  <2>. QED BY <2>1, <2>2
<1>3. ASSUME NEW x \in GuestId, c[x].st = "live", \A z \in HostId : ~Maps(objects, x, z)
      PROVE  c[x].focus = 0 /\ c[x].pressed = {}
  <2>1. x # g
    BY <1>3
  <2>. QED BY <1>3, <2>1 DEF Seeing, Shows
<1>. QED BY <1>2, <1>3 DEF Seeing

\* An input event, with the splice it may bring about.
LEMMA GrabsSerial ==
  ASSUME RInv, GInv, UNCHANGED <<pc, up>>, pc = "run", NEW k, SameHost(k), WithSerial(k),
         \A x \in GuestId : cl'[x].st = cl[x].st /\ cl'[x].iface = cl[x].iface,
         GrabTypes(grabs'), Noted(cl', objects, grabs'), Focused(k), up => Seeing(objects, cl', k)
  PROVE  GInv'
<1>1. /\ TableInv(objects) /\ objects \in ShadowTableType /\ objects.next_host_id \in Nat /\ InTable(objects, cl)
      /\ Ahead(objects, host) /\ Played.hosts \subseteq ClientHostId
  BY RInvIs DEF TableInv, GInv
<1>2. InTable(objects, cl')
  BY <1>1 DEF InTable
<1>3. CASE host' = k /\ UNCHANGED objects
  BY <1>2, <1>3, GrabsWhen
<1>4. CASE attempt_clipboard_splice(k)
  <2> DEFINE n == objects.next_host_id
  <2>1. PICK ids \in 0..3 :
          /\ RoomFor(ids) /\ objects' = allocate_host_ids(objects, ids)
          /\ host' = [h \in HostId |->
                       IF up /\ h \in n..(n + ids - 1) THEN HostObject(SpliceInterfaces[h - n + 1], Proxy, 0, 0, NoAttr)
                       ELSE k[h]]
    BY <1>4 DEF attempt_clipboard_splice
  <2>2. /\ objects'.interfaces = objects.interfaces
        /\ \A x, y : Maps(objects', x, y) <=> Maps(objects, x, y)
    <3>1. ids \in Nat /\ objects' = allocate_host_ids(objects, ids)
      BY <2>1
    <3>2. objects'.interfaces = objects.interfaces
      BY <1>1, <3>1, AllocateInterfaces
    <3>. QED BY <1>1, <3>1, <3>2, AllocateKeeps
  <2> DEFINE own == n..(n + ids - 1)
  <2>3. own \subseteq ClientHostId /\ \A h \in own : h >= n /\ host[h].iface = "none" /\ h \in HostId
    BY <1>1, <2>1 DEF RoomFor, Ahead, HostId
  <2>4. \A h \in HostId : IF up /\ h \in own THEN Dark(host'[h]) ELSE host'[h] = k[h]
    BY <2>1, HostObjectShows
  <2>5. \A x \in GuestId, h \in HostId : Maps(objects, x, h) => h \notin own
    <3>1. \A x \in GuestId, h \in ClientHostId : Maps(objects, x, h) => h < n
      BY <1>1 DEF TableInv
    <3>. QED BY <1>1, <2>3, <3>1, IdRanges DEF HostId
  <2> HIDE DEF own, n
  <2>6. InTable(objects', cl') /\ Noted(cl', objects', grabs')
    BY <1>2, <2>2 DEF InTable, Noted
  <2>7. Focused(host')
    <3> SUFFICES ASSUME NEW h \in HostId, host'[h].focus # 0
                 PROVE  host'[h].focus \in HostId /\ host'[host'[h].focus].iface = "wl_surface" /\ ~host'[host'[h].focus].dead
      BY DEF Focused
    <3>1. host'[h] = k[h]
      BY <2>4 DEF Dark
    <3>2. k[h].focus \in HostId /\ k[k[h].focus].iface = "wl_surface" /\ ~k[k[h].focus].dead
      BY <3>1 DEF Focused
    <3>3. k[h].focus \notin own
      BY <2>3, <3>2 DEF SameHost
    <3>. QED BY <2>4, <3>1, <3>2, <3>3
  <2>8. ASSUME up
        PROVE  Seeing(objects', cl', host')
    BY <2>2, <2>4, <2>5, <2>8 DEF Seeing, Sight
  <2>. QED BY <2>6, <2>7, <2>8, GrabsWhen
<1>. QED BY <1>3, <1>4 DEF WithSerial

\* The device an event is for is known by its interface.
LEMMA DeviceKnown ==
  ASSUME RInv, GInv, NEW h \in HostId, ~host[h].dead, host[h].iface # "none", NEW g \in Hears(h)
  PROVE  /\ g \in GuestId /\ Maps(objects, g, h)
         /\ cl[g].st = "live" => cl[g].iface = host[h].iface /\ objects.interfaces[g] = host[h].iface
<1>1. g \in GuestId /\ Maps(objects, g, h)
  BY HearsIs DEF RInv
<1>2. Agree(objects, cl, host) /\ InTable(objects, cl)
  BY RInvIs DEF GInv
<1>. QED BY <1>1, <1>2 DEF Agree, InTable

\* An enter or a leave is noted.
LEMMA NotedFocus ==
  ASSUME NEW t, NEW gr, Noted(cl, t, gr), NEW g \in GuestId, NEW f, NEW u, NEW i,
         \/ i = "wl_pointer" /\ PointerAt(gr, u, g, f)
         \/ i = "wl_keyboard" /\ KeyboardAt(gr, u, g, f),
         cl[g].st = "live" => cl[g].iface = i /\ t.interfaces[g] = i,
         NEW c, \A x \in GuestId : /\ c[x].st = cl[x].st /\ c[x].iface = cl[x].iface /\ c[x].pressed = cl[x].pressed
                                   /\ c[x].focus = IF x = g THEN f ELSE cl[x].focus
  PROVE  Noted(c, t, u)
<1> SUFFICES ASSUME NEW x \in GuestId, cl[x].st = "live"
             PROVE  /\ c[x].focus # 0 => /\ t.interfaces[x] = c[x].iface
                                         /\ \/ c[x].iface = "wl_pointer" /\ u.pointers[x].entered_surface # 0
                                            \/ c[x].iface = "wl_keyboard" /\ u.keyboards[x].entered_surface # 0
                    /\ c[x].pressed # {} => /\ t.interfaces[x] = c[x].iface /\ c[x].iface = "wl_pointer"
                                            /\ c[x].pressed \subseteq u.pointers[x].pressed_buttons
  BY DEF Noted
<1>1. /\ cl[x].focus # 0 => /\ t.interfaces[x] = cl[x].iface
                            /\ \/ cl[x].iface = "wl_pointer" /\ gr.pointers[x].entered_surface # 0
                               \/ cl[x].iface = "wl_keyboard" /\ gr.keyboards[x].entered_surface # 0
      /\ cl[x].pressed # {} => /\ t.interfaces[x] = cl[x].iface /\ cl[x].iface = "wl_pointer"
                               /\ cl[x].pressed \subseteq gr.pointers[x].pressed_buttons
  BY DEF Noted
<1>2. /\ c[x].iface = cl[x].iface /\ c[x].pressed = cl[x].pressed
      /\ c[x].focus = IF x = g THEN f ELSE cl[x].focus
  OBVIOUS
<1>3. CASE i = "wl_pointer" /\ PointerAt(gr, u, g, f)
  BY <1>1, <1>2, <1>3 DEF PointerAt
<1>4. CASE i = "wl_keyboard" /\ KeyboardAt(gr, u, g, f)
  BY <1>1, <1>2, <1>4 DEF KeyboardAt
<1>. QED BY <1>3, <1>4

\* What an enter or leave does to the objects of the device.
LEMMA FocusIs ==
  ASSUME RInv, NEW g \in GuestId, NEW h \in HostId, NEW f
  PROVE  /\ \A x \in GuestId : /\ ClientFocused(g, f)[x].st = cl[x].st /\ ClientFocused(g, f)[x].iface = cl[x].iface
                               /\ ClientFocused(g, f)[x].pressed = cl[x].pressed
                               /\ ClientFocused(g, f)[x].focus = IF x = g THEN f ELSE cl[x].focus
         /\ \A z \in HostId : /\ HostFocused(h, f)[z].iface = host[z].iface
                              /\ HostFocused(h, f)[z].dead <=> host[z].dead
                              /\ HostFocused(h, f)[z].pressed = host[z].pressed
                              /\ HostFocused(h, f)[z].focus = IF z = h THEN f ELSE host[z].focus
         /\ SameHost(HostFocused(h, f))
<1>1. ClientShape(cl) /\ HostShape(host) /\ SameHost(HostFocused(h, f))
  BY RInvIs, FocusSet DEF RInv
<1>2. \A x \in GuestId : /\ ClientFocused(g, f)[x].st = cl[x].st /\ ClientFocused(g, f)[x].iface = cl[x].iface
                         /\ ClientFocused(g, f)[x].pressed = cl[x].pressed
                         /\ ClientFocused(g, f)[x].focus = IF x = g THEN f ELSE cl[x].focus
  BY <1>1 DEF ClientFocused, ClientShape, ClientField
<1>3. \A z \in HostId : /\ HostFocused(h, f)[z].pressed = host[z].pressed
                        /\ HostFocused(h, f)[z].focus = IF z = h THEN f ELSE host[z].focus
  BY <1>1 DEF HostFocused, HostShape, HostField
<1>. QED BY <1>1, <1>2, <1>3 DEF SameHost

\* enter and leave: the compositor sets the focus f, the client t.
LEMMA GrabsFocused ==
  ASSUME RInv, GInv, UNCHANGED <<pc, up>>, pc = "run", NEW h \in HostId, Focusable(h), NEW g \in Hears(h),
         NEW f, NEW t, Sight(objects, f, t), f # 0 => f \in HostId /\ HostHas(f, "wl_surface"),
         IF HostHas(h, "wl_pointer") THEN PointerAt(grabs, grabs', g, t) ELSE KeyboardAt(grabs, grabs', g, t),
         cl' = ClientFocused(g, t), WithSerial(HostFocused(h, f))
  PROVE  GInv'
<1>1. /\ GrabTypes(grabs) /\ Noted(cl, objects, grabs) /\ Focused(host)
      /\ up => Seeing(objects, cl, host)
  BY DEF GInv
<1>2. ~host[h].dead /\ host[h].iface \in {"wl_pointer", "wl_keyboard"}
  BY DEF Focusable, HostHas
<1>3. /\ g \in GuestId /\ Maps(objects, g, h)
      /\ cl[g].st = "live" => cl[g].iface = host[h].iface /\ objects.interfaces[g] = host[h].iface
  BY <1>2, DeviceKnown
<1> DEFINE c == ClientFocused(g, t)
           k == HostFocused(h, f)
<1>4. /\ \A x \in GuestId : /\ c[x].st = cl[x].st /\ c[x].iface = cl[x].iface /\ c[x].pressed = cl[x].pressed
                            /\ c[x].focus = IF x = g THEN t ELSE cl[x].focus
      /\ \A z \in HostId : /\ k[z].iface = host[z].iface /\ (k[z].dead <=> host[z].dead)
                           /\ k[z].pressed = host[z].pressed
                           /\ k[z].focus = IF z = h THEN f ELSE host[z].focus
      /\ SameHost(k)
  BY <1>3, FocusIs
<1> HIDE DEF c, k
<1>5. \/ host[h].iface = "wl_pointer" /\ PointerAt(grabs, grabs', g, t)
      \/ host[h].iface = "wl_keyboard" /\ KeyboardAt(grabs, grabs', g, t)
  BY <1>2 DEF HostHas
<1>6. Noted(c, objects, grabs') /\ GrabTypes(grabs')
  <2>1. Noted(c, objects, grabs')
    <3>1. PICK i : i = host[h].iface
      OBVIOUS
    <3>2. PICK u : u = grabs'
      OBVIOUS
    <3>3. \A x \in GuestId : /\ c[x].st = cl[x].st /\ c[x].iface = cl[x].iface /\ c[x].pressed = cl[x].pressed
                            /\ c[x].focus = IF x = g THEN t ELSE cl[x].focus
      BY <1>4
    <3>4. \/ i = "wl_pointer" /\ PointerAt(grabs, u, g, t)
          \/ i = "wl_keyboard" /\ KeyboardAt(grabs, u, g, t)
      BY <1>5, <3>1, <3>2
    <3>5. /\ cl[g].st = "live" => cl[g].iface = i /\ objects.interfaces[g] = i
          /\ Noted(cl, objects, grabs) /\ g \in GuestId
      BY <1>1, <1>3, <3>1
    <3>6. Noted(c, objects, u)
      BY <3>3, <3>4, <3>5, NotedFocus
    <3>. QED BY <3>2, <3>6
  <2>. QED BY <1>5, <2>1 DEF PointerAt, KeyboardAt
<1>7. Focused(k)
  BY <1>1, <1>4 DEF Focused, HostHas
<1>8. ASSUME up
      PROVE  Seeing(objects, c, k)
  <2>1. cl[g].st = "live" => host[h].pressed = cl[g].pressed
    BY <1>1, <1>3, <1>8 DEF Seeing
  <2>2. \A x \in GuestId : c[x].st = cl[x].st /\ (x # g => Shows(cl[x], c[x]))
    BY <1>4 DEF Shows
  <2>3. \A z \in HostId : z # h => Shows(host[z], k[z])
    BY <1>4 DEF Shows
  <2>4. cl[g].st = "live" => Sight(objects, k[h].focus, c[g].focus) /\ k[h].pressed = c[g].pressed
    BY <1>3, <1>4, <2>1
  <2>. QED BY <1>1, <1>3, <1>8, <2>2, <2>3, <2>4, SeeingSet
<1>9. cl' = c /\ WithSerial(k)
  BY DEF c, k
<1>. QED BY <1>4, <1>6, <1>7, <1>8, <1>9, GrabsSerial

\* enter, with the clipboard splice its serial may bring.
LEMMA GrabsEnters ==
  ASSUME RInv, GInv, UNCHANGED <<pc, up>>, pc = "run", NEW h \in HostId, NEW s \in HostId, HostEnters(h, s)
  PROVE  GInv'
<1>1. PICK g \in Hears(h), t \in guest_id(objects, s) :
        /\ grabs' = IF HostHas(h, "wl_pointer") THEN on_pointer_enter(grabs, g, t) ELSE on_keyboard_enter(grabs, g, t)
        /\ cl' = ClientFocused(g, t)
  BY DEF HostEnters, ClientFocused
<1>2. Focusable(h) /\ HostHas(s, "wl_surface") /\ WithSerial(HostFocused(h, s))
  BY DEF HostEnters, HostFocused
<1>3. objects \in ShadowTableType /\ GrabTypes(grabs) /\ s # 0
  BY RInvIs, IdRanges DEF TableInv, GInv
<1>4. t \in GuestId /\ Maps(objects, t, s) /\ g \in GuestId
  BY <1>3, GuestIdIs, HearsIs DEF RInv
<1>5. IF HostHas(h, "wl_pointer") THEN PointerAt(grabs, grabs', g, t) ELSE KeyboardAt(grabs, grabs', g, t)
  BY <1>1, <1>3, <1>4, TrackerSet
<1>6. Sight(objects, s, t)
  BY <1>3, <1>4 DEF Sight
<1>. QED BY <1>1, <1>2, <1>5, <1>6, GrabsFocused

\* leave, with the clipboard splice its serial may bring.
LEMMA GrabsLeaves ==
  ASSUME RInv, GInv, UNCHANGED <<pc, up>>, pc = "run", NEW h \in HostId, HostLeaves(h)
  PROVE  GInv'
<1>1. PICK g \in Hears(h) :
        /\ grabs' = IF HostHas(h, "wl_pointer") THEN on_pointer_leave(grabs, g) ELSE on_keyboard_leave(grabs, g)
        /\ cl' = ClientFocused(g, 0)
  BY DEF HostLeaves, ClientFocused
<1>2. Focusable(h) /\ WithSerial(HostFocused(h, 0))
  BY DEF HostLeaves, HostFocused
<1>3. GrabTypes(grabs) /\ g \in GuestId
  BY HearsIs DEF GInv, RInv
<1>5. IF HostHas(h, "wl_pointer") THEN PointerAt(grabs, grabs', g, 0) ELSE KeyboardAt(grabs, grabs', g, 0)
  BY <1>1, <1>3, TrackerSet
<1>6. Sight(objects, 0, 0)
  BY DEF Sight
<1>. QED BY <1>1, <1>2, <1>5, <1>6, GrabsFocused

\* The buttons held after one changes.
PressedIf(press, S, b) == IF press THEN S \cup {b} ELSE S \ {b}

\* The pointer g comes to hold p, no more than q.
Presses(t, c, g, p, q) ==
  /\ cl[g].st = "live" => cl[g].iface = "wl_pointer" /\ t.interfaces[g] = "wl_pointer" /\ p \subseteq q
  /\ \A x \in GuestId : /\ c[x].st = cl[x].st /\ c[x].iface = cl[x].iface /\ c[x].focus = cl[x].focus
                        /\ c[x].pressed = IF x = g THEN p ELSE cl[x].pressed

\* A button is noted.
LEMMA NotedPressed ==
  ASSUME NEW t, NEW gr, Noted(cl, t, gr), NEW g \in GuestId, NEW p, NEW q, NEW u,
         PointerHolds(gr, u, g, q), NEW c, Presses(t, c, g, p, q)
  PROVE  Noted(c, t, u)
<1> SUFFICES ASSUME NEW x \in GuestId, cl[x].st = "live"
             PROVE  /\ c[x].focus # 0 => /\ t.interfaces[x] = c[x].iface
                                         /\ \/ c[x].iface = "wl_pointer" /\ u.pointers[x].entered_surface # 0
                                            \/ c[x].iface = "wl_keyboard" /\ u.keyboards[x].entered_surface # 0
                    /\ c[x].pressed # {} => /\ t.interfaces[x] = c[x].iface /\ c[x].iface = "wl_pointer"
                                            /\ c[x].pressed \subseteq u.pointers[x].pressed_buttons
  BY DEF Noted, Presses
<1>1. /\ cl[x].focus # 0 => /\ t.interfaces[x] = cl[x].iface
                            /\ \/ cl[x].iface = "wl_pointer" /\ gr.pointers[x].entered_surface # 0
                               \/ cl[x].iface = "wl_keyboard" /\ gr.keyboards[x].entered_surface # 0
      /\ cl[x].pressed # {} => /\ t.interfaces[x] = cl[x].iface /\ cl[x].iface = "wl_pointer"
                               /\ cl[x].pressed \subseteq gr.pointers[x].pressed_buttons
  BY DEF Noted
<1>2. /\ c[x].iface = cl[x].iface /\ c[x].focus = cl[x].focus
      /\ c[x].pressed = IF x = g THEN p ELSE cl[x].pressed
  BY DEF Presses
<1>3. /\ u.keyboards = gr.keyboards /\ u.pointers[x].entered_surface = gr.pointers[x].entered_surface
      /\ u.pointers[x].pressed_buttons = IF x = g THEN q ELSE gr.pointers[x].pressed_buttons
  BY DEF PointerHolds
<1>4. CASE x = g
  <2>1. cl[g].iface = "wl_pointer" /\ t.interfaces[g] = "wl_pointer" /\ p \subseteq q
    BY <1>4 DEF Presses
  <2>. QED BY <1>1, <1>2, <1>3, <1>4, <2>1
<1>5. CASE x # g
  BY <1>1, <1>2, <1>3, <1>5
<1>. QED BY <1>4, <1>5

\* What a button does to the objects of the pointer.
LEMMA PressedIs ==
  ASSUME RInv, NEW g \in GuestId, NEW h \in HostId, NEW p, NEW q
  PROVE  /\ \A x \in GuestId : /\ ClientPressed(g, p)[x].st = cl[x].st /\ ClientPressed(g, p)[x].iface = cl[x].iface
                               /\ ClientPressed(g, p)[x].focus = cl[x].focus
                               /\ ClientPressed(g, p)[x].pressed = IF x = g THEN p ELSE cl[x].pressed
         /\ \A z \in HostId : /\ HostPressed(h, q)[z].iface = host[z].iface
                              /\ HostPressed(h, q)[z].dead <=> host[z].dead
                              /\ HostPressed(h, q)[z].focus = host[z].focus
                              /\ HostPressed(h, q)[z].pressed = IF z = h THEN q ELSE host[z].pressed
         /\ SameHost(HostPressed(h, q))
<1>1. ClientShape(cl) /\ HostShape(host) /\ SameHost(HostPressed(h, q))
  BY RInvIs, FocusSet DEF RInv
<1>2. \A x \in GuestId : /\ ClientPressed(g, p)[x].st = cl[x].st /\ ClientPressed(g, p)[x].iface = cl[x].iface
                         /\ ClientPressed(g, p)[x].focus = cl[x].focus
                         /\ ClientPressed(g, p)[x].pressed = IF x = g THEN p ELSE cl[x].pressed
  BY <1>1 DEF ClientPressed, ClientShape, ClientField
<1>3. \A z \in HostId : /\ HostPressed(h, q)[z].focus = host[z].focus
                        /\ HostPressed(h, q)[z].pressed = IF z = h THEN q ELSE host[z].pressed
  BY <1>1 DEF HostPressed, HostShape, HostField
<1>. QED BY <1>1, <1>2, <1>3 DEF SameHost

\* button, with the clipboard splice its serial may bring.
LEMMA GrabsButton ==
  ASSUME RInv, GInv, UNCHANGED <<pc, up>>, pc = "run", NEW h \in HostId, NEW b \in Buttons, HostButton(h, b)
  PROVE  GInv'
<1> DEFINE press == b \notin host[h].pressed
<1>1. PICK g \in Hears(h) :
        /\ grabs' = on_pointer_button(grabs, g, b, press)
        /\ cl' = ClientPressed(g, PressedIf(press, cl[g].pressed, b))
  <2>1. ClientShape(cl) /\ Hears(h) \subseteq GuestId
    BY RInvIs, HearsIs DEF RInv
  <2>. QED BY <2>1 DEF HostButton, ClientPressed, PressedIf, ClientShape, ClientField
<1>2. HostHas(h, "wl_pointer") /\ WithSerial(HostPressed(h, PressedIf(press, host[h].pressed, b)))
  <2>1. HostShape(host)
    BY RInvIs
  <2>. QED BY <2>1 DEF HostButton, HostPressed, PressedIf, HostShape, HostField
<1>3. /\ GrabTypes(grabs) /\ Noted(cl, objects, grabs) /\ Focused(host)
      /\ up => Seeing(objects, cl, host)
  BY DEF GInv
<1>4. /\ g \in GuestId /\ Maps(objects, g, h)
      /\ cl[g].st = "live" => cl[g].iface = "wl_pointer" /\ objects.interfaces[g] = "wl_pointer"
  BY <1>2, DeviceKnown DEF HostHas
<1> DEFINE p == PressedIf(press, cl[g].pressed, b)
           q == PressedIf(press, host[h].pressed, b)
           c == ClientPressed(g, p)
           k == HostPressed(h, q)
<1>5. /\ \A x \in GuestId : /\ c[x].st = cl[x].st /\ c[x].iface = cl[x].iface /\ c[x].focus = cl[x].focus
                            /\ c[x].pressed = IF x = g THEN p ELSE cl[x].pressed
      /\ \A z \in HostId : /\ k[z].iface = host[z].iface /\ (k[z].dead <=> host[z].dead)
                           /\ k[z].focus = host[z].focus
                           /\ k[z].pressed = IF z = h THEN q ELSE host[z].pressed
      /\ SameHost(k)
  <2> HIDE DEF p, q
  <2>. QED BY <1>4, PressedIs
<1>6. PointerHolds(grabs, grabs', g, PressedIf(press, grabs.pointers[g].pressed_buttons, b))
  <2>1. PICK w : w = press
    OBVIOUS
  <2>2. w \in BOOLEAN /\ grabs' = on_pointer_button(grabs, g, b, w)
    BY <1>1, <2>1
  <2>. QED BY <1>3, <1>4, <2>1, <2>2, TrackerPressed DEF PressedIf
<1>7. /\ cl' = c /\ WithSerial(k)
  BY <1>1, <1>2
<1> HIDE DEF c, k, press
<1>8. Noted(c, objects, grabs') /\ GrabTypes(grabs')
  <2>1. PICK u : u = grabs'
    OBVIOUS
  <2>2. PICK w : w = PressedIf(press, grabs.pointers[g].pressed_buttons, b)
    OBVIOUS
  <2>3. PointerHolds(grabs, u, g, w)
    BY <1>6, <2>1, <2>2
  <2>4. cl[g].st = "live" => p \subseteq w
    BY <1>3, <1>4, <2>2 DEF Noted, PressedIf
  <2> HIDE DEF p
  <2>5. Presses(objects, c, g, p, w)
    BY <1>4, <1>5, <2>4 DEF Presses
  <2>6. Noted(c, objects, u)
    BY <1>3, <1>4, <2>3, <2>5, NotedPressed
  <2>. QED BY <2>1, <2>3, <2>6 DEF PointerHolds
<1>9. Focused(k)
  BY <1>3, <1>5 DEF Focused
<1>10. ASSUME up
       PROVE  Seeing(objects, c, k)
  <2>1. cl[g].st = "live" => host[h].pressed = cl[g].pressed /\ Sight(objects, host[h].focus, cl[g].focus)
    BY <1>3, <1>4, <1>10 DEF Seeing
  <2>2. \A x \in GuestId : c[x].st = cl[x].st /\ (x # g => Shows(cl[x], c[x]))
    BY <1>5 DEF Shows
  <2>3. \A z \in HostId : z # h => Shows(host[z], k[z])
    BY <1>5 DEF Shows
  <2>4. cl[g].st = "live" => Sight(objects, k[h].focus, c[g].focus) /\ k[h].pressed = c[g].pressed
    BY <1>4, <1>5, <2>1
  <2>. QED BY <1>3, <1>4, <1>10, <2>2, <2>3, <2>4, SeeingSet
<1>. QED BY <1>5, <1>7, <1>8, <1>9, <1>10, GrabsSerial

\* key and touch matter for their serial only.
LEMMA GrabsKey ==
  ASSUME RInv, GInv, UNCHANGED <<pc, up>>, pc = "run", NEW h \in HostId, HostKeyOrTouch(h)
  PROVE  GInv'
<1>1. WithSerial(host) /\ UNCHANGED <<grabs, cl>>
  BY DEF HostKeyOrTouch
<1>2. SameHost(host)
  BY FocusSet DEF RInv
<1>. QED BY <1>1, <1>2, GrabsSerial DEF GInv

\* Every event.
LEMMA GrabsEvent ==
  ASSUME RInv, GInv, Event
  PROVE  GInv'
<1>1. pc = "run" /\ UNCHANGED <<pc, up>>
  BY DEF Event
<1>2. ASSUME NEW h \in HostId, HostDone(h) PROVE GInv'
  BY <1>1, <1>2, GrabsDone
<1>3. ASSUME NEW h \in HostId, HostDeletesId(h) PROVE GInv'
  BY <1>1, <1>3, GrabsDeleted
<1>4. ASSUME NEW h \in HostId, HostReleases(h) PROVE GInv'
  BY <1>1, <1>4, GrabsReleases
<1>5. ASSUME NEW h \in HostId, HostForgets(h) PROVE GInv'
  BY <1>1, <1>5, GrabsForgotten
<1>6. ASSUME NEW h \in HostId, HostLeaves(h) PROVE GInv'
  BY <1>1, <1>6, GrabsLeaves
<1>7. ASSUME NEW h \in HostId, HostKeyOrTouch(h) PROVE GInv'
  BY <1>1, <1>7, GrabsKey
<1>8. ASSUME NEW h \in HostId, NEW n \in HostId, HostOffers(h, n) PROVE GInv'
  BY <1>1, <1>8, GrabsOffered
<1>9. ASSUME NEW h \in HostId, NEW s \in HostId, HostEnters(h, s) PROVE GInv'
  BY <1>1, <1>9, GrabsEnters
<1>10. ASSUME NEW h \in HostId, NEW b \in Buttons, HostButton(h, b) PROVE GInv'
  BY <1>1, <1>10, GrabsButton
<1>11. ASSUME HostCancelsSource PROVE GInv'
  BY <1>1, <1>11, GrabsCancelled
<1>. QED BY <1>2, <1>3, <1>4, <1>5, <1>6, <1>7, <1>8, <1>9, <1>10, <1>11 DEF Event
------------------------------------------------------------------------------
\* Recovery, but for an enter that it reads and throws away.

\* Where nothing is in focus, what is in focus exists.
LEMMA IdleFocused ==
  ASSUME NEW k, Idle(k)
  PROVE  Focused(k)
BY DEF Idle, Focused

\* Client, table and compositor are as before; the task moves on, or the compositor dies.
LEMMA GrabsQuiet ==
  ASSUME GInv, UNCHANGED <<objects, cl, host, grabs>>,
         pc' = "run" /\ up' => pc = "run" /\ up, pc' \notin {"run", "frozen"} => pc \notin {"run", "frozen"}
  PROVE  GInv'
BY GrabsWhen DEF GInv

\* Recovery changes the table and creates objects nothing is known of yet.
LEMMA GrabsRemade ==
  ASSUME GInv, UNCHANGED <<cl, grabs>>, Idle(host'), pc' # "run",
         \A x \in GuestId : cl[x].st = "live" =>
           /\ Rewritten(cl, objects, cl, objects', x)
           /\ objects'.interfaces[x] \in {objects.interfaces[x], cl[x].iface}
  PROVE  GInv'
<1>1. InTable(objects, cl) /\ GrabTypes(grabs) /\ Noted(cl, objects, grabs)
  BY DEF GInv
<1>2. Focused(host')
  BY IdleFocused
<1>3. InTable(objects', cl')
  <2>1. InTable(objects', cl)
    BY <1>1, InTableFrom
  <2>. QED BY <2>1
<1>4. Noted(cl', objects', grabs')
  <2>1. Noted(cl, objects', grabs)
    BY <1>1 DEF Noted
  <2>. QED BY <2>1
<1>. QED BY <1>1, <1>2, <1>3, <1>4, GrabsWhen

\* A new compositor has no focus, and only the display is mapped.
LEMMA GrabsReconnect ==
  ASSUME RInv, GInv, Reconnect
  PROVE  GInv'
<1>1. TableInv(objects) /\ objects \in ShadowTableType /\ Display(cl) /\ Control
  BY RInvIs DEF TableInv
<1>2. /\ pc' = "recover" /\ host' = FreshHost(HostId) /\ objects' = bump_generation(objects)
      /\ UNCHANGED <<cl, grabs>>
  BY DEF Reconnect, trackers
<1>3. Idle(host')
  <2>1. \A h \in HostId : host'[h] = NoObject \/ host'[h] = HostObject("wl_display", 1, 0, 0, NoAttr)
    BY <1>2 DEF FreshHost
  <2>. QED BY <2>1, NoObjectShows, HostObjectShows DEF Idle, Dark
<1>4. /\ \A x \in GuestId, y \in Nat : Maps(objects', x, y) => x = 1 /\ y = 1
      /\ objects'.interfaces = [objects.interfaces EXCEPT ![1] = "wl_display"]
  BY <1>1, <1>2, BumpKeeps, OtherInterfaces
<1>5. \A x \in GuestId : objects'.interfaces[x] = IF x = 1 THEN "wl_display" ELSE objects.interfaces[x]
  <2>1. objects.interfaces \in [GuestId -> Interface \cup {NoInterface}]
    BY <1>1 DEF ShadowTableType
  <2>. QED BY <1>4, <2>1
<1>6. \A x \in GuestId : objects'.interfaces[x] \in {objects.interfaces[x], cl[x].iface}
  BY <1>1, <1>5 DEF Display
<1>7. ASSUME NEW x \in GuestId
      PROVE  Rewritten(cl, objects, cl, objects', x)
  <2>1. CASE x = 1
    BY <1>1, <1>5, <2>1 DEF Display, Rewritten
  <2>2. CASE x # 1
    BY <1>4, <2>2, IdRanges DEF Rewritten
  <2>. QED BY <2>1, <2>2
<1>. QED BY <1>2, <1>3, <1>6, <1>7, GrabsRemade

\* Ids that reach nobody.
LEMMA GrabsWasted ==
  ASSUME RInv, GInv, pc \notin {"run", "frozen"}, pc' # "run", NEW n \in Nat,
         objects' = allocate_host_ids(objects, n), UNCHANGED <<cl, grabs, host>>
  PROVE  GInv'
<1>1. TableInv(objects) /\ objects \in ShadowTableType
  BY RInvIs DEF TableInv
<1>2. objects'.interfaces = objects.interfaces
  BY <1>1, AllocateInterfaces
<1>3. \A x, y : Maps(objects', x, y) <=> Maps(objects, x, y)
  BY <1>1, AllocateKeeps
<1>. QED BY <1>2, <1>3, GrabsRemade DEF GInv, Rewritten

\* What recovery creates has no focus.
LEMMA CreatedIdle ==
  ASSUME NEW made, Created(made), Len(made) \in Nat, objects.next_host_id \in Nat, HostShape(host),
         \A k \in 1..Len(made) : Dark(made[k]), Idle(host)
  PROVE  Idle(host')
<1> DEFINE n == objects.next_host_id
<1>1. \A h \in HostId :
        host'[h] = IF up /\ h \in n..(n + Len(made) - 1) THEN made[h - n + 1] ELSE host[h]
  BY DEF Created
<1>2. \A h \in n..(n + Len(made) - 1) : h - n + 1 \in 1..Len(made)
  OBVIOUS
<1> HIDE DEF n
<1>. QED BY <1>1, <1>2 DEF Idle, Dark

\* An id is mapped anew, to an object of the interface the client has for it.
LEMMA GrabsRemapped ==
  ASSUME RInv, GInv, Idle(host'), pc' # "run", UNCHANGED <<cl, grabs>>,
         NEW g \in GuestId \ {1}, NEW i \in Interface, cl[g].iface = i,
         NEW n \in Nat, NEW m \in Nat, m < n,
         objects' = map(allocate_host_ids(objects, n), g, objects.next_host_id + m, i)
  PROVE  GInv'
<1>1. TableInv(objects) /\ objects \in ShadowTableType
  BY RInvIs DEF TableInv
<1>2. /\ objects'.interfaces = [objects.interfaces EXCEPT ![g] = i]
      /\ \A x \in GuestId, y \in Nat \ {NoId} :
           Maps(objects', x, y) => x = g \/ Maps(objects, x, y)
  BY <1>1, RemappedIs
<1>3. \A x \in GuestId : objects'.interfaces[x] = IF x = g THEN i ELSE objects.interfaces[x]
  BY <1>1, <1>2 DEF ShadowTableType
<1>4. \A x \in GuestId, h \in HostId : Maps(objects', x, h) => x = g \/ Maps(objects, x, h)
  BY <1>2, IdRanges DEF NoId
<1>. QED BY <1>3, <1>4, GrabsRemade DEF Rewritten

\* The registry is mapped anew.
LEMMA GrabsFetched ==
  ASSUME RInv, GInv, FetchRegistry
  PROVE  GInv'
<1>1. Named(objects, cl) /\ TInv /\ HostShape(host) /\ objects.next_host_id \in Nat
  BY RInvIs DEF RInv
<1>2. PICK g \in GuestId \ {1} :
        /\ objects.interfaces[g] = "wl_registry" /\ "wl_registry" \in Interface
        /\ objects' = map(allocate_host_ids(objects, 2), g, objects.next_host_id, "wl_registry")
        /\ Created(RegistryMade(g))
  BY <1>1, FetchRegistryIs
<1>3. cl[g].iface = "wl_registry"
  BY <1>1, <1>2 DEF Named
<1>4. pc = "recover" /\ pc' # "run" /\ UNCHANGED <<cl, grabs>>
  BY DEF FetchRegistry, trackers
<1>5. Idle(host')
  <2> DEFINE made == RegistryMade(g)
             sync == HostObject("wl_callback", Proxy, 1, 0, NoAttr)
  <2>1. DOMAIN sync = HostField /\ Dark(sync)
    BY HostObjectIs, HostObjectShows
  <2>2. made[1] = HostObject("wl_registry", g, 1, 0, NoAttr)
        /\ made[2] = [sync EXCEPT !.owed = FALSE, !.dead = TRUE] /\ Len(made) = 2
    BY DEF RegistryMade
  <2> HIDE DEF sync, made
  <2>3. Dark(made[1]) /\ Dark(made[2])
    BY <2>1, <2>2, HostObjectShows DEF Dark, HostField
  <2>4. Created(made)
    BY <1>2 DEF made
  <2>5. \A k \in 1..Len(made) : Dark(made[k])
    BY <2>2, <2>3
  <2>. QED BY <1>1, <1>4, <2>2, <2>4, <2>5, CreatedIdle DEF GInv
<1>6. objects' = map(allocate_host_ids(objects, 2), g, objects.next_host_id + 0, "wl_registry")
  BY <1>1, <1>2
<1>. QED BY <1>2, <1>3, <1>4, <1>5, <1>6, GrabsRemapped

\* A recipe maps its id anew.
LEMMA GrabsReplayed ==
  ASSUME RInv, GInv, ReplayMaps
  PROVE  GInv'
<1>1. TInv /\ graph \in Seq(Standing(cl)) /\ Trackers /\ HostShape(host) /\ objects.next_host_id \in Nat
  BY RInvIs DEF RInv
<1>2. PICK private \in {0, 1} : \E made : Replays(private, made)
  BY <1>1, ReplayMapsIs
<1>3. PICK made : Replays(private, made)
  BY <1>2
<1>4. Recipe \in Standing(cl) /\ pc = "replay"
  <2>1. pc = "replay" /\ at \in 1..Len(graph)
    BY <1>1, ReplayMapsIs
  <2>. QED BY <1>1, <2>1 DEF Recipe
<1>5. /\ Recipe.id \in ClientGuestId \ {1} /\ Recipe.interface \in Interface /\ cl[Recipe.id].iface = Recipe.interface
  BY <1>4 DEF Standing, Recipes
<1>6. /\ Len(made) = private + 1
      /\ objects' = map(allocate_host_ids(objects, Len(made)), Recipe.id, objects.next_host_id + private, Recipe.interface)
  BY <1>3 DEF Replays
<1>7. UNCHANGED <<cl, grabs>> /\ pc' \in {"configure", "replay"}
  BY DEF ReplayMaps, trackers, Done
<1>8. Idle(host')
  <2> DEFINE params(hp) == HostObject("zwp_linux_buffer_params_v1", Proxy, hp, 0, Recipe.attr)
             object(p, ha) == HostObject(Recipe.interface, Recipe.id, p, ha, Recipe.attr)
  <2>1. \A hp, ha : Dark(params(hp)) /\ Dark(object(hp, ha))
    BY HostObjectShows
  <2>2. \E hp, p, ha : Created(<<params(hp), object(p, ha)>>) \/ Created(<<object(p, ha)>>)
    BY DEF ReplayMaps
  <2> HIDE DEF params, object
  <2>3. PICK hp, p, ha : Created(<<params(hp), object(p, ha)>>) \/ Created(<<object(p, ha)>>)
    BY <2>2
  <2>4. Idle(host)
    BY <1>4 DEF GInv
  <2>5. CASE Created(<<params(hp), object(p, ha)>>)
    <3> DEFINE two == <<params(hp), object(p, ha)>>
    <3>1. Len(two) = 2 /\ \A k \in 1..Len(two) : Dark(two[k])
      BY <2>1
    <3>2. Created(two)
      BY <2>5
    <3> HIDE DEF two
    <3>. QED BY <1>1, <2>4, <3>1, <3>2, CreatedIdle
  <2>6. CASE Created(<<object(p, ha)>>)
    <3> DEFINE one == <<object(p, ha)>>
    <3>1. Len(one) = 1 /\ \A k \in 1..Len(one) : Dark(one[k])
      BY <2>1
    <3>2. Created(one)
      BY <2>6
    <3> HIDE DEF one
    <3>. QED BY <1>1, <2>4, <3>1, <3>2, CreatedIdle
  <2>. QED BY <2>3, <2>5, <2>6
<1> DEFINE g == Recipe.id
           i == Recipe.interface
<1>9. g \in GuestId \ {1} /\ i \in Interface /\ cl[g].iface = i
  BY <1>5 DEF GuestId
<1>10. PICK n \in Nat : n = private + 1
  OBVIOUS
<1>11. private \in Nat /\ private < n
  BY <1>10
<1>12. objects' = map(allocate_host_ids(objects, n), g, objects.next_host_id + private, i)
  BY <1>6, <1>10
<1> HIDE DEF g, i
<1>. QED BY <1>7, <1>8, <1>9, <1>11, <1>12, GrabsRemapped
\* After the synthesized events no device the client has is in a grab.
LEMMA GrabsReleasedDark ==
  ASSUME NEW c, ClientShape(c), GrabTypes(grabs), Noted(c, objects, grabs), NEW x \in GuestId, c[x].st = "live"
  PROVE  Dark(GrabsReleased(c)[x])
<1>1. DOMAIN c[x] = ClientField
  BY DEF ClientShape
<1>2. /\ c[x].focus # 0 => /\ objects.interfaces[x] = c[x].iface
                           /\ \/ c[x].iface = "wl_pointer" /\ grabs.pointers[x].entered_surface # 0
                              \/ c[x].iface = "wl_keyboard" /\ grabs.keyboards[x].entered_surface # 0
      /\ c[x].pressed # {} => /\ objects.interfaces[x] = c[x].iface /\ c[x].iface = "wl_pointer"
                              /\ c[x].pressed \subseteq grabs.pointers[x].pressed_buttons
  BY DEF Noted
<1>3. /\ x \in active_pointer_grabs(grabs) <=>
           grabs.pointers[x].entered_surface # 0 \/ grabs.pointers[x].pressed_buttons # {}
      /\ x \in active_keyboard_grabs(grabs) <=> grabs.keyboards[x].entered_surface # 0
  BY DEF GrabTypes, active_pointer_grabs, active_keyboard_grabs
<1>4. /\ objects.interfaces[x] = "wl_pointer" => "leave" \in EventsOf(objects.interfaces[x]) /\ "button" \in EventsOf(objects.interfaces[x])
      /\ objects.interfaces[x] = "wl_keyboard" => "leave" \in EventsOf(objects.interfaces[x])
  BY DEF EventsOf
<1> DEFINE left == \/ /\ x \in active_pointer_grabs(grabs) /\ "leave" \in EventsOf(objects.interfaces[x])
                      /\ grabs.pointers[x].entered_surface # 0
                   \/ x \in active_keyboard_grabs(grabs) /\ "leave" \in EventsOf(objects.interfaces[x])
           dropped == IF x \in active_pointer_grabs(grabs) /\ "button" \in EventsOf(objects.interfaces[x])
                      THEN grabs.pointers[x].pressed_buttons ELSE {}
<1>5. GrabsReleased(c)[x] = [c[x] EXCEPT !.focus = IF left THEN 0 ELSE @, !.pressed = @ \ dropped]
  BY DEF GrabsReleased
<1>6. c[x].focus # 0 => left
  BY <1>2, <1>3, <1>4
<1>7. c[x].pressed # {} => c[x].pressed \subseteq dropped
  BY <1>2, <1>3, <1>4
<1> HIDE DEF left, dropped
<1>8. /\ GrabsReleased(c)[x].focus = IF left THEN 0 ELSE c[x].focus
      /\ GrabsReleased(c)[x].pressed = c[x].pressed \ dropped
  BY <1>1, <1>5 DEF ClientField
<1>. QED BY <1>6, <1>7, <1>8 DEF Dark

\* An emptied tracker is a tracker.
LEMMA ClearTypes ==
  ASSUME NEW gr, GrabTypes(gr)
  PROVE  GrabTypes(clear(gr))
BY DEF GrabTypes, clear, new_grabs

\* Where recovery ends nobody is in focus on either side.
LEMMA GrabsEnd ==
  ASSUME RInv, GInv, NEW c, ClientShape(c), Noted(c, objects, grabs),
         \A x \in GuestId : c[x].st = "live" => cl[x].st = "live" /\ c[x].iface = cl[x].iface,
         cl' = GrabsReleased(c), grabs' = clear(grabs), objects' = objects, Idle(host')
  PROVE  GInv'
<1>1. InTable(objects, cl) /\ GrabTypes(grabs)
  BY DEF GInv
<1>2. \A x \in GuestId : cl'[x].st = "live" => /\ c[x].st = "live" /\ cl'[x].iface = c[x].iface /\ Dark(cl'[x])
                                               /\ cl[x].st = "live" /\ cl'[x].iface = cl[x].iface
  <2>1. \A x \in GuestId : cl'[x].st = c[x].st /\ cl'[x].iface = c[x].iface
    BY GrabsReleasedIs
  <2>2. \A x \in GuestId : c[x].st = "live" => Dark(cl'[x])
    BY <1>1, GrabsReleasedDark
  <2>. QED BY <2>1, <2>2
<1>3. InTable(objects', cl')
  <2>1. InTable(objects, cl')
    BY <1>1, <1>2 DEF InTable
  <2>. QED BY <2>1
<1>4. Noted(cl', objects', grabs')
  BY <1>2 DEF Noted, Dark
<1>5. Focused(host')
  BY IdleFocused
<1>6. Seeing(objects', cl', host')
  BY <1>2 DEF Seeing, Sight, Idle, Dark
<1>7. GrabTypes(grabs')
  <2>1. GrabTypes(clear(grabs))
    BY <1>1, ClearTypes
  <2>. QED BY <2>1
<1>. QED BY <1>3, <1>4, <1>5, <1>6, <1>7, GrabsWhen

\* Recovery ends where there is nothing to recover.
LEMMA GrabsNothing ==
  ASSUME RInv, GInv, RecoverNothing
  PROVE  GInv'
<1>1. /\ pc = "recover" /\ cl' = GrabsReleased(cl) /\ grabs' = clear(grabs) /\ UNCHANGED <<objects, host>>
  BY DEF RecoverNothing, synthesize_grab_releases
<1>2. ClientShape(cl) /\ Noted(cl, objects, grabs) /\ Idle(host)
  BY <1>1, RInvIs DEF GInv
<1>3. Idle(host')
  BY <1>1, <1>2
<1>. QED BY <1>1, <1>2, <1>3, GrabsEnd

\* Recovery ends after releases and answers that leave focus alone.
LEMMA GrabsFinished ==
  ASSUME RInv, GInv, FinishRecovery
  PROVE  GInv'
<1>1. /\ ClientShape(cl) /\ Alive(cl) /\ Waiting(pending_frames, cl) /\ Named(objects, cl)
      /\ pending_frames \subseteq ClientGuestId /\ Noted(cl, objects, grabs)
  BY RInvIs DEF Trackers, GInv
<1> DEFINE b == BuffersReleased(cl, Releasable)
           u == Answered(b)
<1>2. pc = "replay" /\ cl' = GrabsReleased(u) /\ grabs' = clear(grabs) /\ objects' = objects /\ host' = Settled(host)
  BY DEF FinishRecovery, synthesize_grab_releases
<1>3. /\ ClientShape(b)
      /\ \A x \in GuestId : b[x].st = cl[x].st /\ b[x].iface = cl[x].iface /\ ~b[x].gone
  BY <1>1, BuffersReleasedIs DEF Alive
<1>4. \A x \in GuestId : b[x].focus = cl[x].focus /\ b[x].pressed = cl[x].pressed
  <2>1. ASSUME NEW x \in GuestId PROVE b[x].focus = cl[x].focus /\ b[x].pressed = cl[x].pressed
    <3>1. b[x] = cl[x] \/ b[x] = [cl[x] EXCEPT !.busy = FALSE]
      BY <1>1 DEF BuffersReleased, ClientShape
    <3>2. DOMAIN cl[x] = ClientField
      BY <1>1 DEF ClientShape
    <3> HIDE DEF b
    <3>. QED BY <3>1, <3>2 DEF ClientField
  <2>. QED BY <2>1
<1> HIDE DEF b
<1>5. Answerable \subseteq GuestId
  BY <1>1 DEF Answerable, GuestId
<1>6. \A g \in Answerable : objects.interfaces[g] = "wl_callback" /\ b[g].st = "live" /\ b[g].iface = "wl_callback"
  BY <1>1, <1>3, <1>5 DEF Answerable, Waiting, Named, NoInterface
<1>7. ASSUME NEW x \in GuestId, x \notin Answerable
      PROVE  u[x].focus = b[x].focus /\ u[x].pressed = b[x].pressed
  <2>1. IF x \in Answerable THEN Nothing(u[x]) ELSE FreedFrom(b[x], u[x], Answerable)
    BY <1>3, <1>5, <1>6, AnsweredSays
  <2>. QED BY <1>7, <2>1 DEF FreedFrom
<1>8. /\ ClientShape(u)
      /\ \A x \in GuestId \ Answerable : u[x].st = b[x].st /\ u[x].iface = b[x].iface
  BY <1>3, AnsweredIs
<1>9. \A x \in GuestId \cap Answerable :
        /\ objects.interfaces[x] = "wl_callback"
        /\ b[x].st = "live" /\ b[x].iface = "wl_callback" /\ ~b[x].gone
        => u[x].st = "free"
  BY <1>3, AnsweredIs
<1> HIDE DEF u
<1>10. \A x \in GuestId : u[x].st = "live" =>
         /\ cl[x].st = "live" /\ u[x].iface = cl[x].iface /\ u[x].focus = cl[x].focus /\ u[x].pressed = cl[x].pressed
  BY <1>3, <1>4, <1>6, <1>7, <1>8, <1>9
<1>11. Noted(u, objects, grabs)
  BY <1>1, <1>10 DEF Noted
<1>12. Idle(host')
  <2>1. Idle(Settled(host))
    BY <1>2, SettledFocused DEF GInv
  <2>. QED BY <1>2, <2>1
<1>. QED BY <1>2, <1>8, <1>10, <1>11, <1>12, GrabsEnd

\* A request that recovery reads and throws away.
LEMMA GrabsLost ==
  ASSUME RInv, GInv, LoseRequest
  PROVE  GInv'
<1>1. Control
  BY RInvIs
<1>2. PICK r, s, a, v, g : Sendable(r, s, a, v, g) /\ Lost(r, s, a, v, g)
  BY <1>1, LoseRequestIs
<1>3. pc = "ack" /\ UNCHANGED <<pc, up, objects, grabs>>
  BY DEF LoseRequest, proxyVars
<1>. QED BY <1>2, <1>3, GrabsAlone DEF Lost

\* Every step of recovery but an enter that is lost.
LEMMA GrabsRecover ==
  ASSUME RInv, GInv, Recover, ~LoseEvent
  PROVE  GInv'
<1>1. ASSUME SeeEof PROVE GInv'
  BY <1>1, GrabsQuiet DEF SeeEof, proxyVars, peerVars
<1>2. ASSUME FetchFails PROVE GInv'
  BY <1>2, GrabsWasted DEF FetchFails, trackers
<1>3. ASSUME ReplaySkips PROVE GInv'
  BY <1>3, GrabsQuiet DEF ReplaySkips, Replaying, Done, proxyVars, peerVars
<1>4. ASSUME ReplayFails PROVE GInv'
  <2>1. PICK n \in Nat : objects' = allocate_host_ids(objects, n)
    BY <1>4 DEF ReplayFails
  <2>. QED BY <1>4, <2>1, GrabsWasted DEF ReplayFails, Replaying, Done, trackers
<1>5. ASSUME HostConfigures \/ ConfigureFails \/ ClientAcks \/ AckTimesOut PROVE GInv'
  BY <1>5, GrabsQuiet
     DEF HostConfigures, ConfigureFails, ClientAcks, AckTimesOut, Waits, Done, proxyVars, peerVars
<1>. QED BY <1>1, <1>2, <1>3, <1>4, <1>5, GrabsReconnect, GrabsNothing, GrabsFetched, GrabsReplayed,
            GrabsLost, GrabsFinished DEF Recover

\* Every step keeps the invariant.
LEMMA GrabsStep ==
  ASSUME RInv, GInv, [Next]_vars, [~RefusesFrame]_vars, [~LoseEvent]_vars
  PROVE  GInv'
<1>1. CASE UNCHANGED vars
  BY <1>1, GrabsQuiet DEF vars, proxyVars
<1>2. CASE HostDies
  BY <1>2, GrabsQuiet DEF HostDies, proxyVars
<1>3. CASE (Request \/ Event \/ Recover) /\ ~UNCHANGED vars
  BY <1>3, GrabsRequest, GrabsEvent, GrabsRecover
<1>. QED BY <1>1, <1>2, <1>3 DEF Next

\* At first nobody is in focus.
LEMMA GrabsInit ==
  ASSUME Init
  PROVE  GInv
<1>1. /\ \A g \in GuestId : cl[g] = IF g = 1 THEN ClientObject("wl_display", 0, 0, NoAttr) ELSE Blank("new")
      /\ objects = new_table /\ grabs = new_grabs(GuestId) /\ host = FreshHost(HostId)
  BY DEF Init
<1>2. \A g \in GuestId : Dark(cl[g])
  BY <1>1, BlankSays, ClientObjectSays DEF Nothing, Clean, Dark
<1>3. cl[1].iface = "wl_display"
  BY <1>1, ClientObjectIs, IdRanges
<1>4. \A h \in HostId : host[h] = NoObject \/ host[h] = HostObject("wl_display", 1, 0, 0, NoAttr)
  BY <1>1 DEF FreshHost
<1>5. Idle(host)
  BY <1>4, NoObjectShows, HostObjectShows DEF Idle, Dark
<1>6. InTable(objects, cl)
  <2>1. \A x \in GuestId, y \in Nat \ {NoId} : Maps(objects, x, y) => x = 1 /\ y = 1
    BY <1>1, NewTable
  <2>2. objects.interfaces[1] = "wl_display"
    BY <1>1, IdRanges DEF new_table, map, NoInterface
  <2>. QED BY <1>3, <2>1, <2>2, IdRanges DEF InTable, NoId
<1>7. GrabTypes(grabs)
  BY <1>1 DEF GrabTypes, new_grabs
<1>8. Noted(cl, objects, grabs) /\ Seeing(objects, cl, host)
  BY <1>2, <1>5 DEF Noted, Seeing, Sight, Dark, Idle
<1>9. Focused(host)
  BY <1>5, IdleFocused
<1>. QED BY <1>5, <1>6, <1>7, <1>8, <1>9 DEF GInv

\* The invariant says what SameGrabs does.
LEMMA GrabsSame ==
  ASSUME RInv, GInv
  PROVE  SameGrabs
<1> SUFFICES ASSUME pc = "run", up, NEW g \in GuestId, cl[g].st = "live"
             PROVE  LET hs == host_id(objects, g)
                        focus == (UNION {guest_id(objects, host[h].focus) : h \in hs})
                                   \cup (IF hs = {} THEN {0} ELSE {})
                    IN focus = {cl[g].focus} /\ cl[g].pressed = UNION {host[h].pressed : h \in hs}
  BY DEF SameGrabs, Settles, Live
<1>1. TableInv(objects) /\ objects \in ShadowTableType /\ Promises /\ ClientShape(cl)
  BY RInvIs DEF TableInv
<1>2. Focused(host) /\ Seeing(objects, cl, host)
  BY DEF GInv
<1> DEFINE hs == host_id(objects, g)
<1>3. \A h : h \in hs <=> Maps(objects, g, h) /\ h # NoId
  BY <1>1, HostIdIs
<1>4. \A h \in HostId : h # NoId
  BY IdRanges DEF NoId
<1> HIDE DEF hs
<1>5. CASE hs = {}
  <2>1. \A h \in HostId : ~Maps(objects, g, h)
    BY <1>3, <1>4, <1>5
  <2>2. cl[g].focus = 0 /\ cl[g].pressed = {}
    BY <1>2, <2>1 DEF Seeing
  <2>3. /\ UNION {guest_id(objects, host[h].focus) : h \in hs} = {}
        /\ UNION {host[h].pressed : h \in hs} = {}
    BY <1>5
  <2>. QED BY <1>5, <2>2, <2>3 DEF hs
<1>6. ASSUME NEW h \in hs
      PROVE  /\ hs = {h}
             /\ guest_id(objects, host[h].focus) = {cl[g].focus} /\ host[h].pressed = cl[g].pressed
  <2>1. Maps(objects, g, h) /\ h # NoId
    BY <1>3
  <2>2. h \in HostId
    <3>1. g \in Holds(cl)
      BY <1>1, HoldsIs
    <3>2. h \in Nat
      BY <1>1, <2>1 DEF Maps, ShadowTableType
    <3>. QED BY <1>1, <2>1, <3>1, <3>2 DEF Promises
  <2>3. hs = {h}
    BY <1>1, <1>3, <2>1, <2>2, MapsOnce
  <2>4. Sight(objects, host[h].focus, cl[g].focus) /\ host[h].pressed = cl[g].pressed
    BY <1>2, <2>1, <2>2 DEF Seeing
  <2>5. CASE host[h].focus = 0
    BY <2>3, <2>4, <2>5 DEF Sight, guest_id, NoId
  <2>6. CASE host[h].focus # 0
    <3>1. host[h].focus \in HostId /\ cl[g].focus \in GuestId /\ Maps(objects, cl[g].focus, host[h].focus)
      BY <1>2, <2>2, <2>4, <2>6 DEF Focused, Sight
    <3>2. \A x \in GuestId : Maps(objects, x, host[h].focus) => x = cl[g].focus
      BY <1>1, <3>1, MapsOnce
    <3>3. \A x : x \in guest_id(objects, host[h].focus) <=> x \in GuestId /\ Maps(objects, x, host[h].focus)
      BY <1>1, <3>1, GuestIdIs
    <3>. QED BY <2>3, <2>4, <3>1, <3>2, <3>3
  <2>. QED BY <2>5, <2>6
<1>7. CASE hs # {}
  <2>1. PICK h : h \in hs
    BY <1>7
  <2>2. /\ UNION {guest_id(objects, host[z].focus) : z \in hs} = guest_id(objects, host[h].focus)
        /\ UNION {host[z].pressed : z \in hs} = host[h].pressed
    BY <1>6, <2>1
  <2>. QED BY <1>6, <1>7, <2>1, <2>2 DEF hs
<1>. QED BY <1>5, <1>7

\* The executions in which recovery throws no enter away.
NoLostFocus == NoRefusedFrame /\ [][~LoseEvent]_vars

(***************************************************************************)
(* Client and compositor agree on focus and on the buttons held (grabs,    *)
(* GrabState): across crashes, recoveries that fail half way, objects      *)
(* destroyed on one side, requests while frozen and reused ids.  After a   *)
(* crash synthesize_grab_releases has taken every grab the client had.     *)
(***************************************************************************)
THEOREM GrabsStayTheSame == NoLostFocus => []SameGrabs
<1>1. RInv /\ GInv /\ [Next]_vars /\ [~RefusesFrame]_vars /\ [~LoseEvent]_vars => GInv'
  BY GrabsStep
<1>2. Init => GInv
  BY GrabsInit
<1>3. RInv /\ GInv => SameGrabs
  BY GrabsSame
<1>. QED BY <1>1, <1>2, <1>3, RInvHolds, PTL DEF NoLostFocus, NoRefusedFrame, Spec
==============================================================================
