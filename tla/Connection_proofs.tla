-------------------------- MODULE Connection_proofs --------------------------
(***************************************************************************)
(* That the connection keeps its types, and that the proxy's own clipboard *)
(* source stays the proxy's, whatever the ids, the scenarios and the       *)
(* bounds are.                                                             *)
(*                                                                         *)
(* The inductive invariant is TInv: where the task is, the table as        *)
(* ShadowTable_proofs has it, the trackers' types, the display at id 1 of  *)
(* both sides, and of the own source that no guest id is mapped to it,     *)
(* that its id was handed out and that its object is left alone (without   *)
(* the last two, an id allocated later or an event could take it over).    *)
(* The first lemmas say what the operators of the peers and of the         *)
(* trackers do, the later ones that every step keeps TInv.                 *)
(***************************************************************************)
EXTENDS Connection, ShadowTable_proofs, FiniteSetTheorems, SequenceTheorems, WellFoundedInduction

------------------------------------------------------------------------------
\* What the operations of the recreation graph do to a graph whose recipes are
\* all in some set S: the result is again a graph of recipes of S, and after
\* remove none of them is of the removed id.

\* record appends one recipe.
LEMMA Recorded ==
  ASSUME NEW S, NEW recipes \in Seq(S), NEW r \in S
  PROVE  /\ record(recipes, r) \in Seq(S)
         /\ Len(record(recipes, r)) = Len(recipes) + 1
BY AppendProperties DEF record

\* A recipe with one attribute overwritten.
WithAttr(recipe, name, v) == [recipe EXCEPT !.attr[name] = v]

\* update_recipe changes recipes in place.
LEMMA RecipeUpdated ==
  ASSUME NEW S, NEW recipes \in Seq(S), NEW id, NEW kind, NEW name, NEW v,
         \A r \in S : WithAttr(r, name, v) \in S
  PROVE  /\ update_recipe(recipes, id, kind, name, v) \in Seq(S)
         /\ Len(update_recipe(recipes, id, kind, name, v)) = Len(recipes)
<1> DEFINE u == update_recipe(recipes, id, kind, name, v)
<1>1. DOMAIN u = 1..Len(recipes) /\ \A i \in 1..Len(recipes) : u[i] \in S
  <2>1. \A i \in DOMAIN recipes : u[i] \in {recipes[i], WithAttr(recipes[i], name, v)}
    BY DEF update_recipe, WithAttr
  <2>2. DOMAIN u = 1..Len(recipes) /\ DOMAIN recipes = 1..Len(recipes) /\ \A i \in DOMAIN recipes : recipes[i] \in S
    BY DEF update_recipe
  <2>. QED BY <2>1, <2>2
<1>2. u = [i \in 1..Len(recipes) |-> u[i]]
  BY DEF update_recipe
<1> HIDE DEF u
<1>3. Len(recipes) \in Nat
  OBVIOUS
<1>. QED BY <1>1, <1>2, <1>3 DEF u

\* A recipes of recipes of S whose recipes are also in T.
LEMMA RecipesIn ==
  ASSUME NEW S, NEW T, NEW recipes \in Seq(S), \A r \in S : r \in T
  PROVE  recipes \in Seq(T)
<1>1. \A i \in 1..Len(recipes) : recipes[i] \in T
  OBVIOUS
<1>2. recipes = [i \in 1..Len(recipes) |-> recipes[i]] /\ Len(recipes) \in Nat
  OBVIOUS
<1>. QED BY <1>1, <1>2

\* A set of naturals has a least element.
LEMMA Least ==
  ASSUME NEW T \in SUBSET Nat, T # {}
  PROVE  \E m \in T : \A n \in T : m <= n
<1> DEFINE Below == {0..n : n \in T}
<1>1. \A n \in Nat : IsFiniteSet(0..n)
  BY FS_Interval
<1>2. Below \subseteq FiniteSubsetsOf(Nat)
  BY <1>1 DEF FiniteSubsetsOf
<1>3. PICK x \in Below : \A y \in Below : ~ (<<y, x>> \in StrictSubsetOrdering(Nat))
  <2>1. Below # {}
    OBVIOUS
  <2> HIDE DEF Below
  <2>. QED BY <1>2, <2>1, FS_StrictSubsetOrderingWellFounded, WFMin
<1>4. PICK m \in T : x = 0..m
  OBVIOUS
<1>5. ASSUME NEW n \in T, n < m PROVE FALSE
  <2>1. 0..n \in Below
    OBVIOUS
  <2>2. 0..n \subseteq x /\ 0..n # x /\ x \subseteq Nat
    BY <1>4, <1>5
  <2>3. <<0..n, x>> \in StrictSubsetOrdering(Nat)
    BY <2>2 DEF StrictSubsetOrdering
  <2>. QED BY <1>3, <2>1, <2>3
<1>. QED BY <1>5

\* remove keeps the recipes of other ids.  By induction over the recipes: what
\* Retained is at its first n recipes exists for every n, and is such a recipes.
LEMMA Removed ==
  ASSUME NEW S, NEW recipes \in Seq(S), NEW id
  PROVE  remove(recipes, id) \in Seq({r \in S : r.id # id})
<1> DEFINE Kept == {r \in S : r.id # id}
<1> DEFINE Step(f, n) ==
      IF n = 0 THEN <<>>
      ELSE IF recipes[n].id = id THEN f[n - 1] ELSE Append(f[n - 1], recipes[n])
<1> DEFINE Upto(f, k) == f = [n \in 0..k |-> Step(f, n)]
<1> DEFINE Retained == CHOOSE f : f = [n \in 0..Len(recipes) |-> Step(f, n)]
<1>1. remove(recipes, id) = Retained[Len(recipes)]
  BY DEF remove
<1>2. ASSUME NEW k \in Nat, k <= Len(recipes)
      PROVE  \E f : Upto(f, k)
  <2> DEFINE Bad == {n \in Nat : n <= Len(recipes) /\ ~ \E f : Upto(f, n)}
  <2>1. SUFFICES ASSUME Bad # {} PROVE FALSE
    BY <1>2
  <2>2. PICK n \in Bad : \A m \in Bad : n <= m
    <3> HIDE DEF Bad
    <3>1. Bad \in SUBSET Nat
      BY DEF Bad
    <3>. QED BY <2>1, <3>1, Least
  <2>3. n # 0
    <3>1. Upto([i \in 0..0 |-> <<>>], 0)
      OBVIOUS
    <3>. QED BY <2>2, <3>1
  <2>4. PICK f : Upto(f, n - 1)
    <3>1. n - 1 \in Nat /\ n - 1 <= Len(recipes) /\ ~ (n <= n - 1)
      BY <2>2, <2>3
    <3>. QED BY <2>2, <3>1
  <2> DEFINE g == [i \in 0..n |-> IF i = n THEN Step(f, n) ELSE f[i]]
  <2>5. \A i \in 0..n : Step(g, i) = Step(f, i)
    OBVIOUS
  <2>6. \A i \in 0..(n - 1) : f[i] = Step(f, i)
    BY <2>4
  <2>7. \A i \in 0..n : g[i] = Step(f, i)
    <3> HIDE DEF Step
    <3>. QED BY <2>2, <2>6
  <2>8. g = [i \in 0..n |-> Step(g, i)]
    <3> HIDE DEF Step
    <3>. QED BY <2>5, <2>7
  <2>. QED BY <2>2, <2>8
<1>3. Len(recipes) \in Nat
  OBVIOUS
<1>4. Retained = [n \in 0..Len(recipes) |-> Step(Retained, n)]
  <2>1. PICK f : Upto(f, Len(recipes))
    <3> HIDE DEF Upto
    <3>. QED BY <1>2, <1>3
  <2>3. \E h : h = [n \in 0..Len(recipes) |-> Step(h, n)]
    BY <2>1
  <2> HIDE DEF Step
  <2>. QED BY <2>3
<1> HIDE DEF Retained
<1>5. \A n \in 0..Len(recipes) : Retained[n] = Step(Retained, n)
  <2> HIDE DEF Step
  <2>. QED BY <1>4
<1>6. ASSUME NEW k \in Nat, k <= Len(recipes)
      PROVE  Retained[k] \in Seq(Kept)
  <2> DEFINE Bad == {n \in Nat : n <= Len(recipes) /\ Retained[n] \notin Seq(Kept)}
  <2> HIDE DEF Kept
  <2>1. SUFFICES ASSUME Bad # {} PROVE FALSE
    BY <1>6
  <2>2. PICK n \in Bad : \A m \in Bad : n <= m
    <3> HIDE DEF Bad
    <3>1. Bad \in SUBSET Nat
      BY DEF Bad
    <3>. QED BY <2>1, <3>1, Least
  <2>3. Retained[n] = Step(Retained, n)
    BY <1>5, <2>2
  <2>4. n # 0
    <3>1. n = 0 => Retained[n] = <<>>
      BY <2>3
    <3>2. Retained[n] \notin Seq(Kept)
      BY <2>2
    <3>. QED BY <3>1, <3>2, EmptySeq
  <2>5. Retained[n - 1] \in Seq(Kept)
    <3>1. n - 1 \in Nat /\ n - 1 <= Len(recipes) /\ ~ (n <= n - 1)
      BY <2>2, <2>4
    <3>. QED BY <2>2, <3>1
  <2>6. recipes[n] \in S
    BY <2>2, <2>4
  <2>7. Retained[n] \notin Seq(Kept)
    BY <2>2
  <2>8. Retained[n] = Retained[n - 1] \/
          (recipes[n] \in Kept /\ Retained[n] = Append(Retained[n - 1], recipes[n]))
    BY <2>3, <2>4, <2>6 DEF Kept
  <2>. QED BY <2>5, <2>7, <2>8, AppendProperties, ZenonT(120)
<1>. QED BY <1>1, <1>3, <1>6

------------------------------------------------------------------------------
\* The objects of the two peers, and what changes them.

\* The fields of an object, as the client and as the compositor have it.
ClientField ==
  {"st", "iface", "parent", "arg", "attr", "att", "busy", "spent", "focus", "pressed", "gone"}
HostField ==
  {"iface", "owner", "parent", "arg", "attr", "att", "owed", "focus", "pressed", "dead"}

ClientShape(c) == DOMAIN c = GuestId /\ \A g \in GuestId : DOMAIN c[g] = ClientField
HostShape(k) == DOMAIN k = HostId /\ \A h \in HostId : DOMAIN k[h] = HostField

\* An id without an object.
LEMMA BlankIs ==
  ASSUME NEW st
  PROVE  /\ DOMAIN Blank(st) = ClientField
         /\ Blank(st).st = st /\ Blank(st).iface = "none" /\ ~Blank(st).gone
BY DEF Blank, ClientField

\* An object the client creates.
LEMMA ClientObjectIs ==
  ASSUME NEW i, NEW p, NEW a, NEW at0
  PROVE  LET o == ClientObject(i, p, a, at0)
         IN DOMAIN o = ClientField /\ o.st = "live" /\ o.iface = i /\ ~o.gone
BY DEF ClientObject, Blank, ClientField

\* A host id without an object.
LEMMA NoObjectIs ==
  DOMAIN NoObject = HostField /\ NoObject.iface = "none" /\ NoObject.owner = 0 /\ ~NoObject.dead
BY DEF NoObject, HostField

\* An object the compositor creates.
LEMMA HostObjectIs ==
  ASSUME NEW i, NEW w, NEW p, NEW a, NEW at0
  PROVE  LET o == HostObject(i, w, p, a, at0)
         IN DOMAIN o = HostField /\ o.iface = i /\ o.owner = w /\ ~o.dead
BY DEF HostObject, NoObject, HostField

\* The client gives a destroyed id back: only its state and its interface change.
LEMMA FreedIs ==
  ASSUME NEW c, ClientShape(c), NEW S
  PROVE  /\ ClientShape(Freed(c, S))
         /\ \A g \in GuestId :
              /\ Freed(c, S)[g].st = IF g \in S THEN "free" ELSE c[g].st
              /\ Freed(c, S)[g].iface = IF g \in S THEN "none" ELSE c[g].iface
              /\ g \in S \/ ~c[g].gone => ~Freed(c, S)[g].gone
BY BlankIs DEF Freed, ClientShape, ClientField

\* A destroyed object of the client waits for delete_id; a server id is free at once.
LEMMA DestroyedIs ==
  ASSUME NEW c, ClientShape(c), NEW s \in GuestId
  PROVE  LET u == Destroyed(c, s, ServerGuestId)
             freed == s \in ServerGuestId \/ c[s].gone
         IN /\ ClientShape(u)
            /\ \A g \in GuestId :
                 /\ u[g].st = IF g # s THEN c[g].st ELSE IF freed THEN "free" ELSE "dead"
                 /\ u[g].iface = IF g = s /\ freed THEN "none" ELSE c[g].iface
                 /\ ~c[g].gone => ~u[g].gone
<1> DEFINE unref == [x \in DOMAIN c |-> [c[x] EXCEPT !.focus = IF @ = s THEN 0 ELSE @,
                                                     !.att = IF @ = s THEN 0 ELSE @]]
           freed == s \in ServerGuestId \/ c[s].gone
<1>1. /\ ClientShape(unref)
      /\ \A g \in GuestId :
           unref[g].st = c[g].st /\ unref[g].iface = c[g].iface /\ (~c[g].gone => ~unref[g].gone)
  BY DEF ClientShape, ClientField
<1>2. CASE freed
  <2>1. Destroyed(c, s, ServerGuestId) = Freed(unref, {s})
    BY <1>2 DEF Destroyed
  <2> HIDE DEF unref
  <2>2. ClientShape(Freed(unref, {s}))
    BY <1>1, FreedIs
  <2>3. \A g \in GuestId :
              /\ Freed(unref, {s})[g].st = IF g \in {s} THEN "free" ELSE unref[g].st
              /\ Freed(unref, {s})[g].iface = IF g \in {s} THEN "none" ELSE unref[g].iface
              /\ g \in {s} \/ ~unref[g].gone => ~Freed(unref, {s})[g].gone
    BY <1>1, FreedIs
  <2>. QED BY <1>1, <1>2, <2>1, <2>2, <2>3
<1>3. CASE ~freed
  <2>1. Destroyed(c, s, ServerGuestId) =
          [unref EXCEPT ![s] = [@ EXCEPT !.st = "dead", !.busy = FALSE, !.focus = 0,
                                         !.pressed = {}, !.att = 0]]
    BY <1>3 DEF Destroyed
  <2> HIDE DEF unref
  <2>. QED BY <1>1, <1>3, <2>1 DEF ClientShape, ClientField
<1>. QED BY <1>2, <1>3

\* delete_id frees the ids that wait for it.
LEMMA IdsDeletedIs ==
  ASSUME NEW c, ClientShape(c), NEW S
  PROVE  LET u == IdsDeleted(c, S)
             freed == {g \in S : c[g].st = "dead"}
         IN /\ ClientShape(u)
            /\ \A g \in GuestId :
                 /\ u[g].st = IF g \in freed THEN "free" ELSE c[g].st
                 /\ u[g].iface = IF g \in freed THEN "none" ELSE c[g].iface
                 /\ ~c[g].gone /\ (g \in S => c[g].st # "live") => ~u[g].gone
<1> DEFINE told == [g \in DOMAIN c |-> IF g \in S /\ Live(c, g) THEN [c[g] EXCEPT !.gone = TRUE] ELSE c[g]]
           freed == {g \in S : c[g].st = "dead"}
<1>1. /\ ClientShape(told)
      /\ \A g \in GuestId :
           /\ told[g].st = c[g].st /\ told[g].iface = c[g].iface
           /\ ~c[g].gone /\ (g \in S => c[g].st # "live") => ~told[g].gone
  BY DEF ClientShape, ClientField, Live
<1>2. IdsDeleted(c, S) = Freed(told, freed)
  BY DEF IdsDeleted
<1> HIDE DEF told, freed
<1>3. ClientShape(Freed(told, freed))
  BY <1>1, FreedIs
<1>4. \A g \in GuestId :
           /\ Freed(told, freed)[g].st = IF g \in freed THEN "free" ELSE told[g].st
           /\ Freed(told, freed)[g].iface = IF g \in freed THEN "none" ELSE told[g].iface
           /\ g \in freed \/ ~told[g].gone => ~Freed(told, freed)[g].gone
  BY <1>1, FreedIs
<1>. QED BY <1>1, <1>2, <1>3, <1>4 DEF freed

\* done ends a callback and nothing else.
LEMMA CallbackDoneIs ==
  ASSUME NEW c, ClientShape(c), NEW s \in GuestId
  PROVE  LET u == CallbackDone(c, s)
             done == c[s].st = "live" /\ c[s].iface = "wl_callback"
         IN /\ ClientShape(u)
            /\ \A g \in GuestId :
                 /\ u[g].st = IF done /\ g = s THEN IF c[s].gone THEN "free" ELSE "dead" ELSE c[g].st
                 /\ u[g].iface = IF done /\ g = s /\ c[s].gone THEN "none" ELSE c[g].iface
                 /\ ~c[g].gone => ~u[g].gone
<1> DEFINE u == CallbackDone(c, s)
           done == c[s].st = "live" /\ c[s].iface = "wl_callback"
<1>1. CASE ~done
  BY <1>1 DEF CallbackDone, Live
<1>2. CASE done /\ c[s].gone
  <2>1. u = Freed(c, {s})
    BY <1>2 DEF CallbackDone, Live
  <2> HIDE DEF u
  <2>. QED BY <1>2, <2>1, FreedIs DEF u
<1>3. CASE done /\ ~c[s].gone
  <2>1. u = [c EXCEPT ![s].st = "dead"]
    BY <1>3 DEF CallbackDone, Live
  <2> HIDE DEF u
  <2>. QED BY <1>3, <2>1 DEF u, ClientShape, ClientField
<1>. QED BY <1>1, <1>2, <1>3

\* release changes no more than who uses a buffer.
LEMMA BuffersReleasedIs ==
  ASSUME NEW c, ClientShape(c), NEW S
  PROVE  LET u == BuffersReleased(c, S)
         IN /\ ClientShape(u)
            /\ \A g \in GuestId :
                 u[g].st = c[g].st /\ u[g].iface = c[g].iface /\ (~c[g].gone => ~u[g].gone)
BY DEF BuffersReleased, ClientShape, ClientField

\* The synthesized leave and release events change no more than focus and buttons.
LEMMA GrabsReleasedIs ==
  ASSUME NEW c, ClientShape(c)
  PROVE  LET u == GrabsReleased(c)
         IN /\ ClientShape(u)
            /\ \A g \in GuestId :
                 u[g].st = c[g].st /\ u[g].iface = c[g].iface /\ (~c[g].gone => ~u[g].gone)
<1> DEFINE Changed(g, f, p) == [c[g] EXCEPT !.focus = f, !.pressed = p]
<1>1. ASSUME NEW g \in GuestId
      PROVE  \E f, p : GrabsReleased(c)[g] = Changed(g, f, p)
  BY DEF GrabsReleased
<1>2. ASSUME NEW g \in GuestId, NEW f, NEW p
      PROVE  LET w == Changed(g, f, p)
             IN DOMAIN w = ClientField /\ w.st = c[g].st /\ w.iface = c[g].iface /\ (~c[g].gone => ~w.gone)
  BY DEF ClientShape, ClientField
<1>3. DOMAIN GrabsReleased(c) = GuestId
  BY DEF GrabsReleased
<1> HIDE DEF Changed
<1>. QED BY <1>1, <1>2, <1>3 DEF ClientShape

\* The answers synthesized where recovery ends reach live callbacks only.
LEMMA AnsweredIs ==
  ASSUME NEW c, ClientShape(c)
  PROVE  LET u == Answered(c)
         IN /\ ClientShape(u)
            /\ \A g \in GuestId \ Answerable :
                 u[g].st = c[g].st /\ u[g].iface = c[g].iface /\ (~c[g].gone => ~u[g].gone)
            /\ \A g \in GuestId \cap Answerable :
                 /\ objects.interfaces[g] = "wl_callback"
                 /\ c[g].st = "live" /\ c[g].iface = "wl_callback" /\ ~c[g].gone
                 => u[g].st = "free" /\ u[g].iface = "none" /\ ~u[g].gone
<1> DEFINE done == {g \in Answerable : "done" \in EventsOf(objects.interfaces[g])}
           told == [g \in GuestId |-> IF g \in done THEN CallbackDone(c, g)[g] ELSE c[g]]
           dead == {g \in Answerable : told[g].st = "dead"}
<1>1. Answered(c) = IdsDeleted(told, Answerable)
  BY DEF Answered
<1>2. ASSUME NEW g \in GuestId
      PROVE  LET w == CallbackDone(c, g)[g]
             IN /\ DOMAIN w = ClientField
                /\ c[g].st = "live" /\ c[g].iface = "wl_callback" /\ ~c[g].gone =>
                     w.st = "dead" /\ w.iface = "wl_callback" /\ ~w.gone
  BY CallbackDoneIs DEF ClientShape
<1>3. ClientShape(told)
  BY <1>2 DEF ClientShape
<1>4. \A g \in GuestId \ Answerable : told[g] = c[g]
  OBVIOUS
<1>5. \A g \in GuestId \cap Answerable :
        /\ objects.interfaces[g] = "wl_callback"
        /\ c[g].st = "live" /\ c[g].iface = "wl_callback" /\ ~c[g].gone
        => told[g].st = "dead" /\ told[g].iface = "wl_callback" /\ ~told[g].gone
  BY <1>2 DEF EventsOf
<1> HIDE DEF told, done
<1>6. ClientShape(IdsDeleted(told, Answerable))
  BY <1>3, IdsDeletedIs
<1>7. \A g \in GuestId :
        /\ IdsDeleted(told, Answerable)[g].st = IF g \in dead THEN "free" ELSE told[g].st
        /\ IdsDeleted(told, Answerable)[g].iface = IF g \in dead THEN "none" ELSE told[g].iface
        /\ ~told[g].gone /\ (g \in Answerable => told[g].st # "live") => ~IdsDeleted(told, Answerable)[g].gone
  BY <1>3, IdsDeletedIs
<1>. QED BY <1>1, <1>4, <1>5, <1>6, <1>7

\* What sending a request does to the client: the child is made, a destructor
\* ends its object, and nothing else lives or dies.
LEMMA SentIs ==
  ASSUME ClientShape(cl), NEW r, NEW s \in GuestId, NEW a, NEW v, NEW g,
         r.child # "none" => g \in GuestId
  PROVE  LET u == Sent(r, s, a, v, g)
             new == r.child # "none"
             freed == s \in ServerGuestId \/ cl[s].gone
         IN /\ ClientShape(u)
            /\ \A x \in GuestId :
                 /\ u[x].st = IF new /\ x = g THEN "live"
                              ELSE IF r.dtor /\ x = s THEN IF freed THEN "free" ELSE "dead"
                              ELSE cl[x].st
                 /\ u[x].iface = IF new /\ x = g THEN r.child
                                 ELSE IF r.dtor /\ x = s /\ freed THEN "none" ELSE cl[x].iface
                 /\ ~cl[x].gone => ~u[x].gone
<1> DEFINE u == Sent(r, s, a, v, g)
           new == r.child # "none"
           freed == s \in ServerGuestId \/ cl[s].gone
           gone == IF r.dtor THEN Destroyed(cl, s, ServerGuestId) ELSE cl
           object == ClientObject(r.child, s, a, FirstAttr(r, cl[s].attr, v))
           made == IF r.child = "none" THEN gone ELSE [gone EXCEPT ![g] = object]
           told == [made EXCEPT ![s].attr = AttrAfter(r, @, v)]
<1>1. /\ ClientShape(gone)
      /\ \A x \in GuestId :
           /\ gone[x].st = IF r.dtor /\ x = s THEN IF freed THEN "free" ELSE "dead" ELSE cl[x].st
           /\ gone[x].iface = IF r.dtor /\ x = s /\ freed THEN "none" ELSE cl[x].iface
           /\ ~cl[x].gone => ~gone[x].gone
  <2>1. CASE ~r.dtor
    BY <2>1
  <2>2. CASE r.dtor
    <3>1. gone = Destroyed(cl, s, ServerGuestId)
      BY <2>2
    <3> HIDE DEF gone
    <3>. QED BY <2>2, <3>1, DestroyedIs
  <2>. QED BY <2>1, <2>2
<1>2. DOMAIN object = ClientField /\ object.st = "live" /\ object.iface = r.child /\ ~object.gone
  BY ClientObjectIs
<1> HIDE DEF gone, object
<1>3. /\ ClientShape(made)
      /\ \A x \in GuestId :
           /\ made[x].st = IF new /\ x = g THEN "live"
                           ELSE IF r.dtor /\ x = s THEN IF freed THEN "free" ELSE "dead"
                           ELSE cl[x].st
           /\ made[x].iface = IF new /\ x = g THEN r.child
                              ELSE IF r.dtor /\ x = s /\ freed THEN "none" ELSE cl[x].iface
           /\ ~cl[x].gone => ~made[x].gone
  BY <1>1, <1>2 DEF ClientShape
<1> HIDE DEF made
<1>4. /\ ClientShape(told)
      /\ \A x \in GuestId :
           told[x].st = made[x].st /\ told[x].iface = made[x].iface /\ (~made[x].gone => ~told[x].gone)
  BY <1>3 DEF ClientShape, ClientField
<1>5. u = CASE r.name = "attach" -> [told EXCEPT ![s].att = a]
            [] r.name = "commit" /\ cl[s].att # 0 -> [told EXCEPT ![s].att = 0, ![cl[s].att].busy = TRUE]
            [] r.name = "create_immed" -> [told EXCEPT ![s].spent = TRUE]
            [] OTHER -> told
  BY DEF Sent, told, made, object, gone
<1> HIDE DEF told, u
<1>6. /\ ClientShape(u)
      /\ \A x \in GuestId :
           u[x].st = told[x].st /\ u[x].iface = told[x].iface /\ (~told[x].gone => ~u[x].gone)
  BY <1>4, <1>5 DEF ClientShape, ClientField
<1>. QED BY <1>3, <1>4, <1>6 DEF u

\* Objects of ids the client has given up are orphans.
LEMMA OrphanedIs ==
  ASSUME NEW k, HostShape(k), NEW S
  PROVE  LET u == Orphaned(k, S)
         IN /\ HostShape(u)
            /\ \A h \in HostId :
                 /\ u[h].owner = IF k[h].owner \in S THEN Orphan ELSE k[h].owner
                 /\ u[h].iface = k[h].iface /\ (u[h].dead <=> k[h].dead)
BY DEF Orphaned, HostShape, HostField

\* A destroyed object of the compositor.
LEMMA HostDestroyedIs ==
  ASSUME NEW k, HostShape(k), NEW s
  PROVE  LET u == HostDestroyed(k, s)
         IN /\ HostShape(u)
            /\ \A h \in HostId :
                 /\ u[h].owner = k[h].owner /\ u[h].iface = k[h].iface
                 /\ u[h].dead <=> k[h].dead \/ h = s
BY DEF HostDestroyed, HostShape, HostField

\* A commit leaves every object with its owner and its interface.
LEMMA HostCommittedIs ==
  ASSUME NEW k, HostShape(k), NEW s
  PROVE  LET u == HostCommitted(k, s)
         IN /\ HostShape(u)
            /\ \A h \in HostId :
                 u[h].owner = k[h].owner /\ u[h].iface = k[h].iface /\ (u[h].dead <=> k[h].dead)
BY DEF HostCommitted, HostShape, HostField

\* What a compositor that processes a request leaves: the object it makes,
\* and which one it destroys.
LEMMA ProcessedIs ==
  ASSUME HostShape(host), NEW r, NEW hs, NEW ha, NEW v, NEW g
  PROVE  LET u == Processed(r, hs, ha, v, g)
             new == r.child # "none"
             n == objects.next_host_id
         IN /\ HostShape(u)
            /\ \A h \in HostId :
                 /\ u[h].owner = IF new /\ h = n THEN g ELSE host[h].owner
                 /\ u[h].iface = IF new /\ h = n THEN r.child ELSE host[h].iface
                 /\ u[h].dead => (host[h].dead /\ ~(new /\ h = n)) \/ (r.dtor /\ h = hs)
                 /\ host[h].dead /\ ~(new /\ h = n) => u[h].dead
<1> DEFINE u == Processed(r, hs, ha, v, g)
           new == r.child # "none"
           n == objects.next_host_id
           object == HostObject(r.child, g, hs, ha, FirstAttr(r, host[hs].attr, v))
           made == IF r.child = "none" THEN host ELSE [host EXCEPT ![n] = object]
           told == [made EXCEPT ![hs].attr = AttrAfter(r, @, v)]
<1>1. DOMAIN object = HostField /\ object.iface = r.child /\ object.owner = g /\ ~object.dead
  BY HostObjectIs
<1> HIDE DEF object
<1>2. /\ HostShape(made)
      /\ \A h \in HostId :
           /\ made[h].owner = IF new /\ h = n THEN g ELSE host[h].owner
           /\ made[h].iface = IF new /\ h = n THEN r.child ELSE host[h].iface
           /\ made[h].dead <=> host[h].dead /\ ~(new /\ h = n)
  BY <1>1 DEF HostShape
<1> HIDE DEF made
<1>3. /\ HostShape(told)
      /\ \A h \in HostId :
           told[h].owner = made[h].owner /\ told[h].iface = made[h].iface /\ (told[h].dead <=> made[h].dead)
  BY <1>2 DEF HostShape, HostField
<1>4. u = CASE r.name = "attach" -> [told EXCEPT ![hs].att = ha]
            [] r.name = "commit" -> HostCommitted(told, hs)
            [] r.dtor -> HostDestroyed(told, hs)
            [] OTHER -> told
  BY DEF Processed, told, made, object
<1> HIDE DEF told, u
<1>5. /\ HostShape(u)
      /\ \A h \in HostId :
           /\ u[h].owner = told[h].owner /\ u[h].iface = told[h].iface
           /\ u[h].dead => told[h].dead \/ (r.dtor /\ h = hs)
           /\ told[h].dead => u[h].dead
  <2>1. CASE u = [told EXCEPT ![hs].att = ha]
    <3>1. HostShape(u) /\ \A h \in HostId : u[h].owner = told[h].owner /\ u[h].iface = told[h].iface
      BY <1>3, <2>1 DEF HostShape, HostField
    <3>2. \A h \in HostId : u[h].dead = told[h].dead
      BY <1>3, <2>1 DEF HostShape, HostField
    <3>. QED BY <3>1, <3>2
  <2>2. CASE u = HostCommitted(told, hs)
    BY <1>3, <2>2, HostCommittedIs
  <2>3. CASE u = HostDestroyed(told, hs) /\ r.dtor
    BY <1>3, <2>3, HostDestroyedIs
  <2>4. CASE u = told
    BY <1>3, <2>4
  <2>. QED BY <1>4, <2>1, <2>2, <2>3, <2>4
<1>. QED BY <1>2, <1>3, <1>5 DEF u

\* Objects the proxy creates take the next host ids.
LEMMA CreatedIs ==
  ASSUME HostShape(host), NEW made, Created(made),
         \A k \in 1..Len(made) : DOMAIN made[k] = HostField,
         Len(made) \in Nat, objects.next_host_id \in Nat
  PROVE  LET n == objects.next_host_id
         IN /\ HostShape(host')
            /\ \A h \in HostId :
                 host'[h] = IF up /\ h \in n..(n + Len(made) - 1) THEN made[h - n + 1] ELSE host[h]
<1> DEFINE n == objects.next_host_id
<1>1. \A h \in HostId :
        host'[h] = IF up /\ h \in n..(n + Len(made) - 1) THEN made[h - n + 1] ELSE host[h]
  BY DEF Created
<1>2. DOMAIN host' = HostId
  BY DEF Created, HostShape
<1>3. \A h \in HostId : DOMAIN host'[h] = HostField
  <2> SUFFICES ASSUME NEW h \in HostId, up, h \in n..(n + Len(made) - 1) PROVE DOMAIN made[h - n + 1] = HostField
    BY <1>1 DEF HostShape
  <2>1. h - n + 1 \in 1..Len(made)
    BY IdRanges
  <2>. QED BY <2>1
<1>. QED BY <1>1, <1>2, <1>3 DEF HostShape

------------------------------------------------------------------------------
\* The inductive invariant, and the requests the client may send.

\* What the recipes are made of: no recipe is of the display.
Attributes == [AttrName -> Value \cup Nat]
Recipes ==
  [ id : ClientGuestId \ {1}, kind : RecipeKind, interface : Interface,
    parent : GuestId \cup {0}, arg : GuestId \cup {0}, attr : Attributes ]

\* Where the task is: a replay is at a recipe of the graph or just past it.
Control ==
  /\ scenario \in DOMAIN Scenarios /\ adv \in Played.advertised
  /\ boot \in Nat /\ at \in Nat
  /\ pc \in {"run", "frozen", "recover", "replay", "configure", "ack"}
  /\ pc \in {"run", "frozen", "recover"} => at = 0
  /\ pc = "replay" => at \in 1..(Len(graph) + 1)
  /\ pc \in {"configure", "ack"} => at \in 1..Len(graph)
  /\ pc = "frozen" => ~up

\* Every object of the compositor is a guest id's, the proxy's or an orphan.
Owned(k) == \A h \in HostId : k[h].owner \in GuestId \cup {0, Proxy, Orphan}

\* The types of the trackers.
Trackers ==
  /\ graph \in Seq(Recipes)
  /\ buffer_flow \in [pending_attach : [GuestId -> GuestId \cup {0}], in_flight : SUBSET GuestId]
  /\ pending_frames \subseteq ClientGuestId \ {1}
  /\ planes \in [GuestId -> [dmabuf : GuestId \cup {0}, n : Nat]]
  /\ reclaim \in [pending : BOOLEAN, ddm : BOOLEAN, source : Nat]

\* The display on the side of the client,
Display(c) == c[1].st = "live" /\ c[1].iface = "wl_display"

\* of the compositor,
HostDisplay(k) == k[1].iface = "wl_display" /\ ~k[1].dead

\* Nothing has come near the host id h: no guest id is mapped to it, it will
\* not be allocated again, and its object is still the proxy's source.
Untouched(t, u, k, h) ==
  /\ h \in ClientHostId \ {1} /\ h < t.next_host_id
  /\ \A g \in GuestId : ~Maps(t, g, h)
  /\ u => k[h].owner = Proxy /\ k[h].iface = "wl_data_source" /\ ~k[h].dead

OwnSource == reclaim.source # 0 => Untouched(objects, up, host, reclaim.source)

\* and in the table.
TableDisplay(t) == t.interfaces[1] = "wl_display"

\* The inductive invariant.
TInv ==
  /\ Control /\ TableInv(objects) /\ TableDisplay(objects) /\ Trackers
  /\ ClientShape(cl) /\ Display(cl)
  /\ HostShape(host) /\ Owned(host) /\ HostDisplay(host)
  /\ OwnSource

\* What is known of a request the client may send.
Sendable(r, s, a, v, g) ==
  /\ r \in Asked(scenario) /\ s \in GuestId /\ cl[s].st = "live" /\ cl[s].iface = r.on
  /\ a \in GuestId \cup {0} /\ v \in Value \cup {0}
  /\ IF r.child = "none" THEN g = 0 ELSE g \in ClientGuestId /\ cl[g].st \in {"new", "free"}

\* Whatever the client sends next in a scenario is sendable.
LEMMA SendableIs ==
  ASSUME Control, NEW r, NEW s, NEW a, NEW v, NEW g,
         r \in IF boot < Len(Played.startup) THEN {Played.startup[boot + 1]} ELSE Played.requests,
         s \in Senders(r), a \in ArgsFor(r), v \in ValuesFor(r), g \in NewIdsFor(r, s, a), Booted
  PROVE  Sendable(r, s, a, v, g) /\ boot' \in Nat
<1>1. r \in Asked(scenario)
  <2>1. CASE boot < Len(Played.startup)
    <3>1. Played.startup \in Seq(Asked(scenario)) /\ boot \in Nat
      BY RequestsAssumption DEF Control, Played
    <3>2. boot + 1 \in 1..Len(Played.startup) /\ DOMAIN Played.startup = 1..Len(Played.startup)
      BY <2>1, <3>1
    <3>. QED BY <2>1, <3>2 DEF Asked, Played
  <2>. QED BY <2>1 DEF Asked, Played
<1>2. s \in GuestId /\ cl[s].st = "live" /\ cl[s].iface = r.on
  BY DEF Senders, LiveOf, Live
<1>3. a \in GuestId \cup {0} /\ v \in Value \cup {0}
  BY DEF ArgsFor, ValuesFor, LiveOf
<1>4. IF r.child = "none" THEN g = 0 ELSE g \in ClientGuestId /\ cl[g].st \in {"new", "free"}
  <2>1. r.child # "none" => g \in NextIds(cl, Played.guests)
    BY DEF NewIdsFor
  <2>2. Played.guests \subseteq ClientGuestId
    BY ScenariosAssumption DEF Control, Played
  <2>. QED BY <2>1, <2>2 DEF NewIdsFor, NextIds
<1>5. boot' \in Nat
  BY DEF Booted, Control
<1>. QED BY <1>1, <1>2, <1>3, <1>4, <1>5 DEF Sendable

\* A request is relayed for some sender, arguments and new id.
LEMMA RequestIs ==
  ASSUME Control, Request
  PROVE  \E r, s, a, v, g : Sendable(r, s, a, v, g) /\ boot' \in Nat /\ Relayed(r, s, a, v, g)
BY SendableIs DEF Request, Sends

\* So is one that is lost in a wait of the recovery.
LEMMA LoseRequestIs ==
  ASSUME Control, LoseRequest
  PROVE  \E r, s, a, v, g : Sendable(r, s, a, v, g) /\ boot' \in Nat /\ Lost(r, s, a, v, g)
BY SendableIs DEF LoseRequest, Sends

\* What the scenarios say of a request that can be sent.
LEMMA SendableRequest ==
  ASSUME Control, NEW r, NEW s, NEW a, NEW v, NEW g, Sendable(r, s, a, v, g)
  PROVE  /\ r.child \in Interface \cup Unresolvable \cup {"none"}
         /\ r.child \notin {"wl_display", "wl_data_offer"}
         /\ r.child = "wl_callback" <=> r.name \in {"frame", "sync"}
         /\ KindOf(r) # "none" => r.child # "none"
         /\ r.dtor => r.child = "none" /\ r.on \notin {"wl_display", "wl_callback"}
BY RequestsAssumption DEF Control, Sendable

------------------------------------------------------------------------------
\* Requests.

\* A new id is not the id of the display.
LEMMA NewIdIs ==
  ASSUME Display(cl), NEW r, NEW s, NEW a, NEW v, NEW g, Sendable(r, s, a, v, g), r.child # "none"
  PROVE  g \in ClientGuestId \ {1} /\ g \in GuestId \ {1}
BY DEF Display, Sendable, GuestId

\* capture_recipe makes a recipe of the id that was created.
LEMMA CapturedIs ==
  ASSUME Control, Trackers, Display(cl), NEW r, NEW s, NEW a, NEW v, NEW g, Sendable(r, s, a, v, g),
         r.child \notin Unresolvable
  PROVE  \/ Captured(r, s, a, v, g) = graph
         \/ \E x \in Recipes : /\ Captured(r, s, a, v, g) = record(graph, x)
                               /\ x.id = g /\ x.interface = r.child /\ r.child # "none"
                               /\ KindOf(r) # "none"
<1> DEFINE kind == KindOf(r)
           dmabuf == kind = "DmabufBuffer"
           attr == CASE kind = "ShmPool" -> [NoAttr EXCEPT !["size"] = v]
                     [] dmabuf -> [NoAttr EXCEPT !["planes"] = planes[s].n]
                     [] OTHER -> NoAttr
           parent == RecipeParent(kind, s)
           x == [ id |-> g, kind |-> kind, interface |-> r.child, arg |-> a,
                  parent |-> parent, attr |-> attr ]
<1>1. CASE kind = "none" \/ (dmabuf /\ planes[s].dmabuf = 0)
  BY <1>1 DEF Captured, RecipesOf
<1>2. CASE ~(kind = "none" \/ (dmabuf /\ planes[s].dmabuf = 0))
  <2>1. Captured(r, s, a, v, g) = record(graph, x)
    BY <1>2 DEF Captured, RecipesOf
  <2>2. kind \in RecipeKind
    BY <1>2 DEF KindOf, RecipeKind
  <2>3. r.child # "none" /\ r.child \in Interface
    BY <1>2, SendableRequest
  <2>4. g \in ClientGuestId \ {1}
    BY <2>3, NewIdIs
  <2>5. parent \in GuestId \cup {0} /\ a \in GuestId \cup {0}
    BY DEF RecipeParent, Sendable, Trackers
  <2>6. attr \in Attributes
    <3>1. planes[s].n \in Nat /\ v \in Value \cup {0}
      BY DEF Sendable, Trackers
    <3>2. NoAttr \in Attributes /\ [NoAttr EXCEPT !["size"] = v] \in Attributes
          /\ [NoAttr EXCEPT !["planes"] = planes[s].n] \in Attributes
      BY <3>1 DEF NoAttr, Attributes, AttrName
    <3>. QED BY <3>2
  <2> HIDE DEF attr, parent, kind
  <2>7. x \in Recipes
    BY <2>2, <2>3, <2>4, <2>5, <2>6 DEF Recipes
  <2>. QED BY <2>1, <2>3, <2>7, <1>2 DEF kind
<1>. QED BY <1>1, <1>2

\* An update of one attribute leaves a recipe what it was otherwise.
LEMMA AttributeSet ==
  ASSUME NEW x \in Recipes, NEW name \in AttrName, NEW v \in Value \cup Nat
  PROVE  LET y == WithAttr(x, name, v)
         IN y \in Recipes /\ y.id = x.id /\ y.interface = x.interface /\ y.kind = x.kind
<1> DEFINE f == [x.attr EXCEPT ![name] = v]
<1>1. f \in Attributes
  BY DEF Recipes, Attributes
<1> HIDE DEF f
<1>2. [x EXCEPT !.attr = f] \in Recipes
  BY <1>1 DEF Recipes
<1>3. WithAttr(x, name, v) = [x EXCEPT !.attr = f]
  BY DEF f, WithAttr
<1>. QED BY <1>2, <1>3 DEF Recipes

\* An update by a later request keeps recipes in any set of recipes that tells
\* them apart by id and interface only.
LEMMA UpdatedIs ==
  ASSUME NEW S, S \subseteq Recipes,
         \A x \in S, y \in Recipes : y.id = x.id /\ y.interface = x.interface => y \in S,
         NEW r, NEW s, NEW v \in Value \cup {0}, NEW old \in Seq(S)
  PROVE  Updated(old, r, s, v) \in Seq(S) /\ Len(Updated(old, r, s, v)) = Len(old)
<1>1. ASSUME NEW name \in AttrName, NEW w \in Value \cup Nat
      PROVE  \A x \in S : WithAttr(x, name, w) \in S
  <2>1. \A x \in S : x \in Recipes
    OBVIOUS
  <2>. QED BY <2>1, AttributeSet
<1>2. ASSUME NEW name \in AttrName, NEW w \in Value \cup Nat, NEW kind
      PROVE  /\ update_recipe(old, s, kind, name, w) \in Seq(S)
             /\ Len(update_recipe(old, s, kind, name, w)) = Len(old)
  BY <1>1, RecipeUpdated
<1>3. v \in Value \cup Nat /\ corrected_app_id(v) \in Value \cup Nat
  BY AppIdAssumption DEF corrected_app_id
<1>4. {"title", "app_id", "size", "destination"} \subseteq AttrName
  BY DEF AttrName
<1>5. \/ Updated(old, r, s, v) = old
      \/ Updated(old, r, s, v) = update_recipe(old, s, "ShmPool", "size", v)
      \/ Updated(old, r, s, v) = update_recipe(old, s, "XdgToplevel", "title", v)
      \/ Updated(old, r, s, v) = update_recipe(old, s, "XdgToplevel", "app_id", corrected_app_id(v))
      \/ Updated(old, r, s, v) = update_recipe(old, s, "Viewport", "destination", v)
  BY DEF Updated, update_shm_pool_size, update_toplevel_title, update_toplevel_app_id,
         update_viewport_destination
<1>. QED BY <1>2, <1>3, <1>4, <1>5

\* The display stays the display.
LEMMA DisplayKept ==
  ASSUME NEW c, ClientShape(c), Display(c), NEW S, NEW s \in GuestId
  PROVE  /\ ClientShape(IdsDeleted(c, S)) /\ Display(IdsDeleted(c, S))
         /\ ClientShape(CallbackDone(c, s)) /\ Display(CallbackDone(c, s))
<1>1. 1 \in GuestId
  BY IdRanges
<1>2. ClientShape(IdsDeleted(c, S)) /\ Display(IdsDeleted(c, S))
  BY <1>1, IdsDeletedIs DEF Display
<1>3. ClientShape(CallbackDone(c, s)) /\ Display(CallbackDone(c, s))
  BY <1>1, CallbackDoneIs DEF Display
<1>. QED BY <1>2, <1>3

\* The client keeps its shape and its display whatever it sends.
LEMMA SentKeeps ==
  ASSUME Control, ClientShape(cl), Display(cl),
         NEW r, NEW s, NEW a, NEW v, NEW g, Sendable(r, s, a, v, g)
  PROVE  ClientShape(Sent(r, s, a, v, g)) /\ Display(Sent(r, s, a, v, g))
<1>1. 1 \in GuestId
  BY IdRanges
<1>2. r.child # "none" => g \in GuestId \ {1}
  BY NewIdIs
<1>3. s \in GuestId /\ ~(r.dtor /\ s = 1)
  BY SendableRequest DEF Sendable, Display
<1>4. ClientShape(Sent(r, s, a, v, g))
  BY <1>2, <1>3, SentIs
<1>5. Sent(r, s, a, v, g)[1].st = cl[1].st /\ Sent(r, s, a, v, g)[1].iface = cl[1].iface
  BY <1>1, <1>2, <1>3, SentIs
<1>. QED BY <1>4, <1>5 DEF Display

\* Objects of ids the client gave up become orphans; nothing else changes.
LEMMA SettledIs ==
  ASSUME NEW k, HostShape(k), Owned(k), ClientShape(cl)
  PROVE  /\ HostShape(Settled(k)) /\ Owned(Settled(k))
         /\ \A h \in HostId :
              /\ Settled(k)[h].iface = k[h].iface
              /\ Settled(k)[h].dead <=> k[h].dead
              /\ Settled(k)[h].owner = IF k[h].owner \in Holds(cl) \ Holds(cl') THEN Orphan ELSE k[h].owner
              /\ k[h].owner = Proxy => Settled(k)[h].owner = Proxy
<1>1. Holds(cl) \subseteq GuestId /\ Proxy \notin GuestId
  BY IdRanges DEF Holds, ClientShape, Proxy
<1>2. HostShape(Settled(k))
  BY OrphanedIs DEF Settled
<1>3. \A h \in HostId :
        /\ Settled(k)[h].iface = k[h].iface
        /\ Settled(k)[h].dead <=> k[h].dead
        /\ Settled(k)[h].owner = IF k[h].owner \in Holds(cl) \ Holds(cl') THEN Orphan ELSE k[h].owner
  BY OrphanedIs DEF Settled
<1>4. Owned(Settled(k))
  BY <1>3 DEF Owned
<1>. QED BY <1>1, <1>2, <1>3, <1>4

\* The table after a new_id was mapped.
LEMMA WithNewIdIs ==
  ASSUME TableInv(objects), NEW r, NEW g,
         r.child # "none" => g \in GuestId \ {1} /\ r.child \in Interface
  PROVE  LET m == WithNewId(r, g)
             new == r.child # "none"
             n == objects.next_host_id
         IN /\ TableInv(m)
            /\ m.interfaces = IF new THEN [objects.interfaces EXCEPT ![g] = r.child] ELSE objects.interfaces
            /\ m.next_host_id = IF new THEN n + 1 ELSE n
            /\ \A x \in GuestId, y \in Nat \ {NoId} :
                 Maps(m, x, y) <=> IF new /\ x = g THEN y = n ELSE Maps(objects, x, y) /\ (new => y # n)
<1>1. CASE r.child = "none"
  BY <1>1 DEF WithNewId
<1>2. CASE r.child # "none"
  <2> DEFINE n == objects.next_host_id
             a == allocate_host_ids(objects, 1)
             m == map(a, g, n, r.child)
  <2>1. objects \in ShadowTableType /\ n \in Nat /\ n >= 2
    BY DEF TableInv, ShadowTableType
  <2>2. TableInv(a) /\ a.next_host_id = n + 1 /\ a \in ShadowTableType
    BY <2>1, AllocateKeeps, AllocateIs
  <2>3. \A x, y : Maps(a, x, y) <=> Maps(objects, x, y)
    BY AllocateKeeps
  <2>4. WithNewId(r, g) = m
    BY <1>2 DEF WithNewId, allocate_host_id
  <2>5. a.interfaces = objects.interfaces
    BY <2>1, AllocateInterfaces
  <2> HIDE DEF a
  <2>6. n < a.next_host_id
    BY <2>1, <2>2
  <2>7. /\ TableInv(m)
        /\ m.next_host_id = a.next_host_id
        /\ \A x \in GuestId, y \in Nat \ {NoId} :
              Maps(m, x, y) <=> IF x = g THEN y = n ELSE Maps(a, x, y) /\ y # n
    BY <1>2, <2>1, <2>2, <2>6, MapKeeps
  <2>8. m.interfaces = [a.interfaces EXCEPT ![g] = r.child]
    BY <1>2, <2>1, <2>2, MapInterfaces
  <2> HIDE DEF m, n
  <2>. QED BY <1>2, <2>2, <2>3, <2>4, <2>5, <2>7, <2>8 DEF n
<1>. QED BY <1>1, <1>2

\* The trackers stay of their types whatever is observed of a request.
LEMMA GraphAfterIs ==
  ASSUME Control, Trackers, Display(cl), NEW r, NEW s, NEW a, NEW v, NEW g,
         Sendable(r, s, a, v, g), r.child \notin Unresolvable
  PROVE  Updated(Captured(r, s, a, v, g), r, s, v) \in Seq(Recipes)
<1>1. graph \in Seq(Recipes)
  BY DEF Trackers
<1>2. Captured(r, s, a, v, g) \in Seq(Recipes)
  <2>1. CASE Captured(r, s, a, v, g) = graph
    BY <1>1, <2>1
  <2>2. CASE \E x \in Recipes : Captured(r, s, a, v, g) = record(graph, x)
    BY <1>1, <2>2, Recorded
  <2>. QED BY <2>1, <2>2, CapturedIs
<1>3. v \in Value \cup {0}
  BY DEF Sendable
<1>. QED BY <1>2, <1>3, UpdatedIs

\* A destroyed object takes its recipe with it.
LEMMA RemovedIs ==
  ASSUME NEW old \in Seq(Recipes), NEW id
  PROVE  remove(old, id) \in Seq(Recipes)
<1>1. remove(old, id) \in Seq({x \in Recipes : x.id # id})
  BY Removed
<1>. QED BY <1>1, RecipesIn

\* No request takes a tracker out of its type.
LEMMA TrackersAfterIs ==
  ASSUME Control, Trackers, Display(cl), NEW r, NEW s, NEW a, NEW v, NEW g,
         Sendable(r, s, a, v, g), NEW passed \in BOOLEAN,
         graph' \in Seq(Recipes), ObserveBuffers(r, s, a), ObserveCallbacks(r, g),
         planes' = PlanesAfter(r, s, g, passed), reclaim' = reclaim
  PROVE  Trackers'
<1>1. s \in GuestId /\ a \in GuestId \cup {0}
  BY DEF Sendable
<1>2. buffer_flow' \in [pending_attach : [GuestId -> GuestId \cup {0}], in_flight : SUBSET GuestId]
  <2>1. CASE buffer_flow' = on_attach(buffer_flow, s, a)
    BY <1>1, <2>1 DEF on_attach, Trackers
  <2>2. CASE buffer_flow' = on_commit(buffer_flow, s)
    BY <1>1, <2>2 DEF on_commit, Trackers
  <2>3. CASE buffer_flow' = buffer_flow
    BY <2>3 DEF Trackers
  <2>. QED BY <2>1, <2>2, <2>3 DEF ObserveBuffers
<1>3. pending_frames' \subseteq ClientGuestId \ {1}
  <2>1. r.name \in {"frame", "sync"} => g \in ClientGuestId \ {1}
    BY NewIdIs, SendableRequest
  <2>. QED BY <2>1 DEF ObserveCallbacks, on_frame_requested, on_sync_requested, Trackers
<1>4. planes' \in [GuestId -> [dmabuf : GuestId \cup {0}, n : Nat]]
  <2> DEFINE Entry == [dmabuf : GuestId \cup {0}, n : Nat]
  <2>1. planes \in [GuestId -> Entry]
    BY DEF Trackers
  <2>2. [dmabuf |-> s, n |-> 0] \in Entry /\ [dmabuf |-> 0, n |-> 0] \in Entry
    BY <1>1
  <2>3. [planes[s] EXCEPT !.n = @ + 1] \in Entry
    BY <1>1, <2>1
  <2>4. planes' \in {planes, [planes EXCEPT ![g] = [dmabuf |-> s, n |-> 0]],
                     [planes EXCEPT ![s] = [dmabuf |-> 0, n |-> 0]],
                     [planes EXCEPT ![s] = [planes[s] EXCEPT !.n = @ + 1]]}
    BY DEF PlanesAfter
  <2> HIDE DEF Entry
  <2>5. planes' \in [GuestId -> Entry]
    BY <2>1, <2>2, <2>3, <2>4
  <2>. QED BY <2>5 DEF Entry
<1>. QED BY <1>2, <1>3, <1>4 DEF Trackers

\* What a request leaves alone: control stays where it is.
LEMMA ControlKept ==
  ASSUME Control, UNCHANGED <<scenario, adv, pc, at, up>>, boot' \in Nat,
         pc \in {"run", "frozen", "recover"} \/ Len(graph') = Len(graph)
  PROVE  Control'
BY DEF Control, Played

\* A request that stays with the proxy keeps the invariant.
LEMMA DropRequestKeeps ==
  ASSUME TInv, NEW r, NEW s, NEW a, NEW v, NEW g, Sendable(r, s, a, v, g),
         UNCHANGED <<scenario, adv, pc, at, up>>, boot' \in Nat, UNCHANGED proxyVars,
         cl' = Sent(r, s, a, v, g), host' = Settled(host)
  PROVE  TInv'
<1> USE DEF proxyVars
<1>1. Control' /\ TableInv(objects)' /\ TableDisplay(objects)' /\ Trackers'
  BY ControlKept DEF TInv, TableInv, TableDisplay, Maps, Trackers
<1>2. ClientShape(cl)' /\ Display(cl)'
  BY SentKeeps DEF TInv
<1>3. /\ HostShape(host') /\ Owned(host')
      /\ \A h \in HostId :
           /\ host'[h].iface = host[h].iface
           /\ host'[h].dead <=> host[h].dead
           /\ host[h].owner = Proxy => host'[h].owner = Proxy
  BY SettledIs DEF TInv
<1>4. OwnSource'
  <2>1. reclaim.source # 0 => Untouched(objects, up, host', reclaim.source)
    BY <1>3, IdRanges DEF TInv, OwnSource, Untouched, HostId
  <2>. QED BY <2>1 DEF OwnSource, Untouched, Maps
<1>. QED BY <1>1, <1>2, <1>3, <1>4, IdRanges DEF TInv, HostShape, Owned, HostDisplay

\* So does one that is passed on,
LEMMA PassRequestKeeps ==
  ASSUME TInv, NEW r, NEW s, NEW a, NEW v, NEW g, Sendable(r, s, a, v, g),
         UNCHANGED <<scenario, adv, pc, at, up>>, boot' \in Nat, pc \in {"run", "frozen"},
         PassRequest(r, s, a, v, g)
  PROVE  TInv'
<1> DEFINE n == objects.next_host_id
           new == r.child # "none"
           m == WithNewId(r, g)
<1>1. Control /\ Trackers /\ Display(cl) /\ ClientShape(cl) /\ HostShape(host) /\ Owned(host)
      /\ TableInv(objects) /\ TableDisplay(objects) /\ OwnSource /\ HostDisplay(host)
  BY DEF TInv
<1>2. r.child \notin Unresolvable /\ (new => g \in GuestId \ {1} /\ r.child \in Interface)
  BY <1>1, NewIdIs, SendableRequest DEF PassRequest, Understood
<1>3. /\ TableInv(m)
      /\ m.interfaces = IF new THEN [objects.interfaces EXCEPT ![g] = r.child] ELSE objects.interfaces
      /\ m.next_host_id = IF new THEN n + 1 ELSE n
      /\ \A x \in GuestId, y \in Nat \ {NoId} :
           Maps(m, x, y) <=> IF new /\ x = g THEN y = n ELSE Maps(objects, x, y) /\ (new => y # n)
  BY <1>1, <1>2, WithNewIdIs
<1>4. objects' = m
  BY DEF PassRequest
<1>5. Control'
  BY <1>1, ControlKept
<1>6. Trackers'
  <2>1. graph' \in Seq(Recipes)
    BY <1>1, <1>2, GraphAfterIs DEF PassRequest
  <2>. QED BY <1>1, <2>1, TrackersAfterIs DEF PassRequest
<1>7. ClientShape(cl') /\ Display(cl')
  BY <1>1, SentKeeps DEF PassRequest
<1>8. PICK hs \in host_id(m, s), ha \in host_id(m, a) :
        host' = Settled(IF pc = "run" /\ up THEN Processed(r, hs, ha, ValueSent(r, v), g) ELSE host)
  BY DEF PassRequest
<1> DEFINE k == IF pc = "run" /\ up THEN Processed(r, hs, ha, ValueSent(r, v), g) ELSE host
<1>9. /\ HostShape(k)
      /\ \A h \in HostId :
           LET made == pc = "run" /\ up /\ new /\ h = n
           IN /\ k[h].owner = IF made THEN g ELSE host[h].owner
              /\ k[h].iface = IF made THEN r.child ELSE host[h].iface
              /\ k[h].dead => host[h].dead \/ (r.dtor /\ h = hs)
  BY <1>1, ProcessedIs
<1>10. Owned(k)
  BY <1>1, <1>2, <1>9 DEF Owned
<1>11. Maps(m, s, hs)
  BY <1>3, HostIdIs DEF TableInv, Sendable
<1> HIDE DEF k, m
<1>12. /\ HostShape(host') /\ Owned(host')
       /\ \A h \in HostId :
           /\ host'[h].iface = k[h].iface
           /\ host'[h].dead <=> k[h].dead
           /\ k[h].owner = Proxy => host'[h].owner = Proxy
  <2>1. host' = Settled(k)
    BY <1>8 DEF k
  <2>. QED BY <1>1, <1>9, <1>10, <2>1, SettledIs
<1>13. OwnSource'
  <2>1. reclaim' = reclaim
    BY DEF PassRequest
  <2> SUFFICES ASSUME reclaim.source # 0
               PROVE  Untouched(m, up, host', reclaim.source)
    BY <1>4, <2>1 DEF OwnSource, Untouched, Maps
  <2> DEFINE h == reclaim.source
  <2>2. Untouched(objects, up, host, h)
    BY <1>1 DEF OwnSource
  <2>3. h \in HostId /\ h \in Nat \ {NoId} /\ h < n /\ h # n /\ n \in Nat
    BY <1>1, <2>2, IdRanges DEF Untouched, HostId, TableInv, ShadowTableType, NoId
  <2>4. \A x \in GuestId : ~Maps(m, x, h)
    BY <1>3, <2>2, <2>3 DEF Untouched
  <2>5. h # hs
    BY <1>11, <2>4 DEF Sendable
  <2>6. up => host'[h].owner = Proxy /\ host'[h].iface = "wl_data_source" /\ ~host'[h].dead
    BY <1>9, <1>12, <2>2, <2>3, <2>5 DEF Untouched
  <2>. QED BY <1>3, <2>2, <2>3, <2>4, <2>6 DEF Untouched
<1>14. HostDisplay(host')
  <2>1. ~(pc = "run" /\ up /\ new /\ 1 = n) /\ (r.dtor => hs # 1)
    <3>1. n >= 2 /\ n \in Nat /\ 1 \in GuestId
      BY <1>1, IdRanges DEF TableInv, ShadowTableType
    <3>2. r.dtor => s # 1
      BY <1>1, SendableRequest DEF Sendable, Display
    <3>3. m.guest_to_host[1] = 1 /\ m.guest_to_host[s] = hs
      BY <1>3, <1>11 DEF TableInv, Maps
    <3>4. hs = 1 => s = 1
      BY <1>3, <3>1, <3>3 DEF TableInv, NoId, Sendable
    <3>. QED BY <3>1, <3>2, <3>4
  <2>. QED BY <1>1, <1>9, <1>12, <2>1, IdRanges DEF HostDisplay
<1>15. TableDisplay(m)
  BY <1>1, <1>2, <1>3, IdRanges DEF TableDisplay
<1>. QED BY <1>3, <1>4, <1>5, <1>6, <1>7, <1>12, <1>13, <1>14, <1>15
     DEF TInv, ClientShape, Display, HostShape, Owned, HostDisplay, TableInv, TableDisplay, Maps

\* The table after the mapping of a refused new_id was rolled back.
LEMMA RolledBackIs ==
  ASSUME TableInv(objects), NEW r, NEW g,
         r.child # "none" => g \in GuestId \ {1} /\ r.child \in Interface
  PROVE  LET u == RolledBack(WithNewId(r, g), r, g)
         IN /\ TableInv(u)
            /\ u.interfaces = IF r.child # "none" THEN [objects.interfaces EXCEPT ![g] = NoInterface]
                              ELSE objects.interfaces
            /\ u.next_host_id = objects.next_host_id
            /\ \A x \in GuestId, y \in Nat \ {NoId} :
                 Maps(u, x, y) => Maps(objects, x, y) /\ (r.child # "none" => x # g)
<1>1. CASE r.child = "none"
  BY <1>1 DEF RolledBack, WithNewId
<1>2. CASE r.child # "none"
  <2> DEFINE h == objects.next_host_id
             a == allocate_host_ids(objects, 1)
             m == map(a, g, h, r.child)
             f == unallocate_host_id(m, h)
             u == remove_guest(f, g)
  <2>1. /\ TableInv(u)
        /\ u.next_host_id = h
        /\ \A x \in GuestId, y \in Nat \ {NoId} : Maps(u, x, y) => x # g /\ Maps(objects, x, y)
    BY <1>2, RejectKeeps DEF allocate_host_id
  <2>2. RolledBack(WithNewId(r, g), r, g) = u
    BY <1>2 DEF RolledBack, WithNewId, allocate_host_id
  <2>3. u.interfaces = [objects.interfaces EXCEPT ![g] = NoInterface]
    <3>1. objects \in ShadowTableType /\ h \in Nat /\ g \in GuestId
      BY <1>2 DEF TableInv, ShadowTableType
    <3>2. a \in ShadowTableType /\ TableInv(a) /\ a.next_host_id = h + 1 /\ a.interfaces = objects.interfaces
      BY <3>1, AllocateIs, AllocateKeeps, AllocateInterfaces
    <3> HIDE DEF a
    <3>3. /\ m \in ShadowTableType /\ m.next_host_id = h + 1
          /\ m.interfaces = [a.interfaces EXCEPT ![g] = r.child]
      <4>1. h >= 2 /\ h < a.next_host_id
        BY <3>1, <3>2 DEF TableInv
      <4>2. TableInv(m) /\ m.next_host_id = a.next_host_id
        BY <1>2, <3>1, <3>2, <4>1, MapKeeps
      <4>3. m.interfaces = [a.interfaces EXCEPT ![g] = r.child]
        BY <1>2, <3>1, <3>2, MapInterfaces
      <4>. QED BY <3>2, <4>2, <4>3 DEF TableInv
    <3> HIDE DEF m
    <3>4. f.interfaces = m.interfaces /\ f \in ShadowTableType
      <4>1. f.interfaces = m.interfaces
        BY <3>1, <3>3, OtherInterfaces
      <4>2. f = [m EXCEPT !.next_host_id = h] /\ h \in Nat
        BY <3>1, <3>3 DEF unallocate_host_id, ShadowTableType
      <4>3. f \in ShadowTableType
        BY <3>3, <4>2 DEF ShadowTableType
      <4>. QED BY <4>1, <4>3
    <3> HIDE DEF f
    <3>5. u.interfaces = [f.interfaces EXCEPT ![g] = NoInterface]
      BY <3>1, <3>4, RemoveInterfaces
    <3>. QED BY <1>2, <3>1, <3>2, <3>3, <3>4, <3>5 DEF ShadowTableType
  <2> HIDE DEF u
  <2>. QED BY <1>2, <2>1, <2>2, <2>3
<1>. QED BY <1>1, <1>2

\* and one whose arguments cannot be translated.
LEMMA RefuseRequestKeeps ==
  ASSUME TInv, NEW r, NEW s, NEW a, NEW v, NEW g, Sendable(r, s, a, v, g),
         UNCHANGED <<scenario, adv, pc, at, up>>, boot' \in Nat, pc \in {"run", "frozen"},
         RefuseRequest(r, s, a, v, g)
  PROVE  TInv'
<1> DEFINE new == r.child # "none"
           m == RolledBack(WithNewId(r, g), r, g)
           sent == Sent(r, s, a, v, g)
<1>1. Control /\ Trackers /\ Display(cl) /\ ClientShape(cl) /\ HostShape(host) /\ Owned(host)
      /\ TableInv(objects) /\ TableDisplay(objects) /\ OwnSource /\ HostDisplay(host)
  BY DEF TInv
<1>2. r.child \notin Unresolvable /\ (new => g \in GuestId \ {1} /\ r.child \in Interface)
  BY <1>1, NewIdIs, SendableRequest DEF RefuseRequest, Understood
<1>3. s \in GuestId /\ (r.dtor => s \in GuestId \ {1}) /\ (r.name = "frame" => new)
  BY <1>1, SendableRequest DEF Sendable, Display
<1>4. /\ TableInv(m) /\ TableDisplay(m) /\ m.next_host_id = objects.next_host_id
      /\ \A x \in GuestId, y \in Nat \ {NoId} : Maps(m, x, y) => Maps(objects, x, y)
  <2>1. /\ TableInv(m) /\ m.next_host_id = objects.next_host_id
        /\ \A x \in GuestId, y \in Nat \ {NoId} : Maps(m, x, y) => Maps(objects, x, y)
    BY <1>1, <1>2, RolledBackIs
  <2>2. m.interfaces = IF new THEN [objects.interfaces EXCEPT ![g] = NoInterface] ELSE objects.interfaces
    BY <1>1, <1>2, RolledBackIs
  <2> HIDE DEF m
  <2>3. TableDisplay(m)
    BY <1>1, <1>2, <2>2, IdRanges DEF TableDisplay
  <2>. QED BY <2>1, <2>3
<1>5. objects' = IF r.dtor THEN remove_guest(m, s) ELSE m
  BY DEF RefuseRequest
<1> HIDE DEF m
<1>6. /\ TableInv(objects') /\ TableDisplay(objects') /\ objects'.next_host_id = objects.next_host_id
      /\ \A x \in GuestId, y \in Nat \ {NoId} : Maps(objects', x, y) => Maps(objects, x, y)
  <2>1. CASE ~r.dtor
    BY <1>4, <1>5, <2>1
  <2>2. CASE r.dtor
    <3>1. objects' = remove_guest(m, s) /\ m \in ShadowTableType
      BY <1>4, <1>5, <2>2 DEF TableInv
    <3>2. TableInv(objects') /\ objects'.next_host_id = m.next_host_id
      BY <1>3, <1>4, <2>2, <3>1, RemoveKeeps, RemoveIs
    <3>3. \A x \in GuestId, y \in Nat \ {NoId} : Maps(objects', x, y) => Maps(m, x, y)
      BY <1>3, <1>4, <2>2, <3>1, RemoveKeeps
    <3>4. TableDisplay(objects')
      BY <1>3, <1>4, <2>2, <3>1, RemoveInterfaces, IdRanges, ZenonT(60) DEF TableDisplay, ShadowTableType
    <3>. QED BY <1>4, <3>2, <3>3, <3>4
  <2>. QED BY <2>1, <2>2
<1>7. Control'
  BY <1>1, ControlKept
<1>8. Trackers'
  <2> DEFINE noted == remove(Updated(Captured(r, s, a, v, g), r, s, v), g)
  <2>1. noted \in Seq(Recipes)
    BY <1>1, <1>2, GraphAfterIs, RemovedIs
  <2>2. graph' = IF r.dtor THEN remove(noted, s) ELSE noted
    BY DEF RefuseRequest
  <2> HIDE DEF noted
  <2>3. graph' \in Seq(Recipes)
    BY <2>1, <2>2, RemovedIs
  <2>. QED BY <1>1, <2>3, TrackersAfterIs DEF RefuseRequest
<1>9. ClientShape(cl') /\ Display(cl')
  <2>1. ClientShape(sent) /\ Display(sent)
    BY <1>1, SentKeeps
  <2>2. \/ cl' = sent
        \/ cl' = IdsDeleted(sent, {s})
        \/ r.name = "frame" /\ cl' = IdsDeleted(CallbackDone(sent, g), {g})
    BY DEF RefuseRequest
  <2> HIDE DEF sent
  <2>3. r.name = "frame" => ClientShape(CallbackDone(sent, g)) /\ Display(CallbackDone(sent, g))
    BY <1>2, <1>3, <2>1, DisplayKept
  <2>4. 1 \in GuestId
    BY IdRanges
  <2>. QED BY <2>1, <2>2, <2>3, <2>4, DisplayKept
<1>10. /\ HostShape(host') /\ Owned(host')
       /\ \A h \in HostId :
           /\ host'[h].iface = host[h].iface
           /\ host'[h].dead <=> host[h].dead
           /\ host[h].owner = Proxy => host'[h].owner = Proxy
  BY <1>1, SettledIs DEF RefuseRequest
<1>11. OwnSource'
  <2>1. reclaim' = reclaim
    BY DEF RefuseRequest
  <2> SUFFICES ASSUME reclaim.source # 0
               PROVE  Untouched(objects', up, host', reclaim.source)
    BY <2>1 DEF OwnSource, Untouched, Maps
  <2> DEFINE h == reclaim.source
  <2>2. Untouched(objects, up, host, h)
    BY <1>1 DEF OwnSource
  <2>3. h \in HostId /\ h \in Nat \ {NoId}
    BY <2>2, IdRanges DEF Untouched, HostId, NoId
  <2>. QED BY <1>6, <1>10, <2>2, <2>3 DEF Untouched
<1>12. HostDisplay(host')
  BY <1>1, <1>10, IdRanges DEF HostDisplay
<1>. QED BY <1>6, <1>7, <1>8, <1>9, <1>10, <1>11, <1>12
     DEF TInv, ClientShape, Display, HostShape, Owned, HostDisplay, TableInv, TableDisplay, Maps

------------------------------------------------------------------------------
\* Events.

\* The parts of TInv of the next state, as conditions on the primed variables.
LEMMA TInvNext ==
  ASSUME Control', Trackers', TableInv(objects'), TableDisplay(objects'), ClientShape(cl'), Display(cl'),
         HostShape(host'), Owned(host'), HostDisplay(host'),
         reclaim'.source # 0 => Untouched(objects', up', host', reclaim'.source)
  PROVE  TInv'
BY DEF TInv, TableInv, TableDisplay, ClientShape, Display, HostShape, Owned, HostDisplay, OwnSource, Untouched, Maps

\* The ids of the own source: what is needed to see that a step leaves it alone.
LEMMA SourceIs ==
  ASSUME TInv, reclaim.source # 0
  PROVE  /\ Untouched(objects, up, host, reclaim.source)
         /\ reclaim.source \in HostId \ {1} /\ reclaim.source \in Nat \ {NoId}
         /\ reclaim.source \in ClientHostId /\ reclaim.source \notin ServerHostId
         /\ reclaim.source < objects.next_host_id
         /\ \A g \in GuestId : ~Maps(objects, g, reclaim.source)
BY IdRanges DEF TInv, OwnSource, Untouched, HostId, NoId

\* An event is for some guest id other than the display, unless it is the
\* display's own.
LEMMA HearsIs ==
  ASSUME TInv, NEW h \in HostId, NEW g \in Hears(h)
  PROVE  g \in GuestId /\ (h # 1 => g # 1) /\ Maps(objects, g, h) /\ h # reclaim.source
<1>1. g \in guest_id(objects, h) /\ h # reclaim.source
  BY DEF Hears
<1>2. g \in GuestId /\ Maps(objects, g, h)
  BY <1>1, GuestIdIs DEF TInv, TableInv
<1>3. h # 1 => g # 1
  BY <1>2 DEF Maps, TInv, TableInv
<1>. QED BY <1>1, <1>2, <1>3

\* done.
LEMMA HostDoneKeeps ==
  ASSUME TInv, pc = "run", UNCHANGED <<scenario, pc, at, adv, up, boot>>, NEW h \in HostId, HostDone(h)
  PROVE  TInv'
<1>1. Control /\ Trackers /\ Display(cl) /\ ClientShape(cl) /\ HostShape(host) /\ Owned(host)
      /\ TableInv(objects) /\ TableDisplay(objects) /\ HostDisplay(host)
  BY DEF TInv
<1>2. PICK g \in Hears(h) : pending_frames' = pending_frames \ {g} /\ cl' = CallbackDone(cl, g)
  BY DEF HostDone, on_done_received
<1>3. g \in GuestId
  BY HearsIs
<1>4. Control'
  BY <1>1, ControlKept DEF Control
<1>5. Trackers'
  BY <1>1, <1>2 DEF HostDone, Trackers
<1>6. ClientShape(cl') /\ Display(cl')
  BY <1>1, <1>2, <1>3, DisplayKept
<1>7. /\ HostShape(host')
      /\ \A x \in HostId :
           /\ host'[x].owner = host[x].owner /\ host'[x].iface = host[x].iface
           /\ host'[x].dead <=> host[x].dead \/ x = h
  BY <1>1, HostDestroyedIs DEF HostDone
<1>8. host[h].iface = "wl_callback"
  BY DEF HostDone, HostHas
<1>9. Owned(host') /\ HostDisplay(host')
  BY <1>1, <1>7, <1>8, IdRanges DEF Owned, HostDisplay
<1>10. reclaim'.source # 0 => Untouched(objects', up', host', reclaim'.source)
  BY <1>7, <1>8, SourceIs DEF HostDone, Untouched
<1>. QED BY <1>1, <1>4, <1>5, <1>6, <1>7, <1>9, <1>10, TInvNext DEF HostDone

\* delete_id.
LEMMA HostDeletesIdKeeps ==
  ASSUME TInv, pc = "run", UNCHANGED <<scenario, pc, at, adv, up, boot>>, NEW h \in HostId, HostDeletesId(h)
  PROVE  TInv'
<1>1. Control /\ Trackers /\ Display(cl) /\ ClientShape(cl) /\ HostShape(host) /\ Owned(host)
      /\ TableInv(objects) /\ TableDisplay(objects) /\ HostDisplay(host)
  BY DEF TInv
<1>2. h # 1 /\ host[h].dead /\ host' = [host EXCEPT ![h] = NoObject]
      /\ UNCHANGED <<buffer_flow, pending_frames, planes, reclaim>>
  BY <1>1 DEF HostDeletesId, HostDisplay
<1>3. /\ HostShape(host')
      /\ \A x \in HostId \ {h} : host'[x] = host[x]
      /\ host'[h].owner = 0
  BY <1>1, <1>2, NoObjectIs DEF HostShape
<1>4. Owned(host') /\ HostDisplay(host')
  BY <1>1, <1>2, <1>3, IdRanges DEF Owned, HostDisplay
<1>5. Control'
  BY <1>1, ControlKept DEF Control
<1>6. CASE UNCHANGED <<objects, graph, cl>>
  <2>1. Trackers'
    BY <1>1, <1>2, <1>6 DEF Trackers
  <2>2. reclaim'.source # 0 => Untouched(objects', up', host', reclaim'.source)
    BY <1>2, <1>3, <1>6, SourceIs DEF Untouched
  <2>. QED BY <1>1, <1>3, <1>4, <1>5, <1>6, <2>1, <2>2, TInvNext
<1>7. ASSUME NEW g \in guest_id(objects, h), objects' = remove_guest(objects, g),
             graph' = remove(graph, g), cl' = IdsDeleted(cl, {g})
      PROVE  TInv'
  <2>1. g \in GuestId \ {1}
    BY <1>1, <1>2, GuestIdIs DEF TableInv, Maps
  <2>2. /\ TableInv(objects') /\ TableDisplay(objects') /\ objects'.next_host_id = objects.next_host_id
        /\ \A x \in GuestId, y \in Nat \ {NoId} : Maps(objects', x, y) <=> x # g /\ Maps(objects, x, y)
    <3>1. TableInv(objects) /\ objects \in ShadowTableType
      BY <1>1 DEF TableInv
    <3>2. objects'.next_host_id = objects.next_host_id
      BY <1>7, <2>1, <3>1, RemoveIs
    <3>3. /\ TableInv(objects')
          /\ \A x \in GuestId, y \in Nat \ {NoId} : Maps(objects', x, y) <=> x # g /\ Maps(objects, x, y)
      BY <1>7, <2>1, <3>1, RemoveKeeps
    <3>4. TableDisplay(objects')
      <4>1. objects'.interfaces = [objects.interfaces EXCEPT ![g] = NoInterface]
        BY <1>7, <2>1, <3>1, RemoveInterfaces
      <4>. QED BY <1>1, <2>1, <4>1, IdRanges DEF TableDisplay
    <3>. QED BY <3>2, <3>3, <3>4
  <2>3. Trackers'
    BY <1>1, <1>2, <1>7, RemovedIs DEF Trackers
  <2>4. ClientShape(cl') /\ Display(cl')
    BY <1>1, <1>7, <2>1, DisplayKept
  <2>5. reclaim'.source # 0 => Untouched(objects', up', host', reclaim'.source)
    BY <1>2, <1>3, <2>2, SourceIs DEF Untouched
  <2>. QED BY <1>3, <1>4, <1>5, <2>2, <2>3, <2>4, <2>5, TInvNext
<1>. QED BY <1>6, <1>7 DEF HostDeletesId

\* release.
LEMMA HostReleasesKeeps ==
  ASSUME TInv, pc = "run", UNCHANGED <<scenario, pc, at, adv, up, boot>>, NEW h \in HostId, HostReleases(h)
  PROVE  TInv'
<1>1. Control /\ Trackers /\ Display(cl) /\ ClientShape(cl) /\ HostShape(host) /\ Owned(host)
      /\ TableInv(objects) /\ TableDisplay(objects) /\ HostDisplay(host)
  BY DEF TInv
<1>2. PICK g \in Hears(h) : buffer_flow' = on_release(buffer_flow, g) /\ cl' = BuffersReleased(cl, {g})
  BY DEF HostReleases
<1>3. Control'
  BY <1>1, ControlKept DEF Control
<1>4. Trackers'
  BY <1>1, <1>2 DEF HostReleases, Trackers, on_release
<1>5. ClientShape(cl') /\ Display(cl')
  BY <1>1, <1>2, BuffersReleasedIs, IdRanges DEF Display
<1>6. /\ HostShape(host')
      /\ \A x \in HostId :
           /\ host'[x].owner = host[x].owner /\ host'[x].iface = host[x].iface
           /\ host'[x].dead <=> host[x].dead
  BY <1>1 DEF HostReleases, HostShape, HostField
<1>7. Owned(host') /\ HostDisplay(host')
  BY <1>1, <1>6, IdRanges DEF Owned, HostDisplay
<1>8. reclaim'.source # 0 => Untouched(objects', up', host', reclaim'.source)
  BY <1>6, SourceIs DEF HostReleases, Untouched
<1>. QED BY <1>1, <1>3, <1>4, <1>5, <1>6, <1>7, <1>8, TInvNext DEF HostReleases

\* The compositor destroys a server id.
LEMMA HostForgetsKeeps ==
  ASSUME TInv, pc = "run", UNCHANGED <<scenario, pc, at, adv, up, boot>>, NEW h \in HostId, HostForgets(h)
  PROVE  TInv'
<1>1. Control /\ Trackers /\ Display(cl) /\ ClientShape(cl) /\ HostShape(host) /\ Owned(host)
      /\ TableInv(objects) /\ TableDisplay(objects) /\ HostDisplay(host)
  BY DEF TInv
<1>2. h # 1 /\ h \in ServerHostId /\ host' = [host EXCEPT ![h] = NoObject] /\ UNCHANGED <<proxyVars, cl>>
  BY <1>1 DEF HostForgets, HostDisplay
<1>3. /\ HostShape(host')
      /\ \A x \in HostId \ {h} : host'[x] = host[x]
      /\ host'[h].owner = 0
  BY <1>1, <1>2, NoObjectIs DEF HostShape
<1>4. Owned(host') /\ HostDisplay(host')
  BY <1>1, <1>2, <1>3, IdRanges DEF Owned, HostDisplay
<1>5. Control'
  BY <1>1, ControlKept DEF Control
<1>6. Trackers'
  BY <1>1, <1>2 DEF Trackers, proxyVars
<1>7. reclaim'.source # 0 => Untouched(objects', up', host', reclaim'.source)
  BY <1>2, <1>3, SourceIs DEF Untouched, proxyVars
<1>. QED BY <1>1, <1>2, <1>3, <1>4, <1>5, <1>6, <1>7, TInvNext DEF proxyVars

\* cancelled.
LEMMA HostCancelsSourceKeeps ==
  ASSUME TInv, pc = "run", UNCHANGED <<scenario, pc, at, adv, up, boot>>, HostCancelsSource
  PROVE  TInv'
<1>1. Control /\ Trackers /\ Display(cl) /\ ClientShape(cl) /\ HostShape(host) /\ Owned(host)
      /\ TableInv(objects) /\ TableDisplay(objects) /\ HostDisplay(host)
  BY DEF TInv
<1>2. reclaim.source # 1 /\ reclaim'.source = 0
  BY <1>1, SourceIs DEF HostCancelsSource, Trackers
<1>3. Control'
  BY <1>1, ControlKept DEF Control
<1>4. Trackers'
  BY <1>1 DEF HostCancelsSource, Trackers
<1>5. HostShape(host') /\ Owned(host') /\ HostDisplay(host')
  BY <1>1 DEF HostCancelsSource
<1>. QED BY <1>1, <1>2, <1>3, <1>4, <1>5, TInvNext DEF HostCancelsSource

\* A data_offer brings a server id.
LEMMA HostOffersKeeps ==
  ASSUME TInv, pc = "run", UNCHANGED <<scenario, pc, at, adv, up, boot>>,
         NEW h \in HostId, NEW n \in HostId, HostOffers(h, n)
  PROVE  TInv'
<1> DEFINE t == allocate_guest_server_id(objects)
           g == objects.next_guest_server_id
<1>1. Control /\ Trackers /\ Display(cl) /\ ClientShape(cl) /\ HostShape(host) /\ Owned(host)
      /\ TableInv(objects) /\ TableDisplay(objects) /\ HostDisplay(host)
  BY DEF TInv
<1>2. g \in GuestId \ {1} /\ n \in ServerHostId /\ n \in HostId \ {1} /\ n \in Nat /\ n >= 2 /\ n \notin ClientHostId
  BY IdRanges, ServerHostIdAssumption, ServerBaseAssumption, ServerGuestIdAssumption, ClientGuestIdAssumption
     DEF HostOffers, GuestId, HostId
<1>3. PICK d \in Hears(h) :
         /\ objects' = map(t, g, n, "wl_data_offer")
         /\ cl' = [cl EXCEPT ![g] = ClientObject("wl_data_offer", d, 0, NoAttr)]
         /\ host' = [host EXCEPT ![n] = HostObject("wl_data_offer", g, h, 0, NoAttr)]
  BY DEF HostOffers
<1>4. /\ TableInv(t) /\ t.interfaces = objects.interfaces /\ t.next_host_id = objects.next_host_id
      /\ \A x, y : Maps(t, x, y) <=> Maps(objects, x, y)
  BY <1>1, AllocateServerKeeps, OtherInterfaces DEF TableInv
<1> HIDE DEF t, g
<1>5. /\ TableInv(objects') /\ objects'.next_host_id = t.next_host_id
      /\ \A x \in GuestId, y \in Nat \ {NoId} :
           Maps(objects', x, y) <=> IF x = g THEN y = n ELSE Maps(t, x, y) /\ y # n
  BY <1>2, <1>3, <1>4, MapKeeps, OfferAssumption
<1>12. TableDisplay(objects')
  <2>1. objects'.interfaces = [t.interfaces EXCEPT ![g] = "wl_data_offer"]
    <3>1. t \in ShadowTableType
      BY <1>4 DEF TableInv
    <3>. QED BY <1>2, <1>3, <3>1, MapInterfaces, OfferAssumption
  <2>. QED BY <1>1, <1>2, <1>4, <2>1, IdRanges DEF TableDisplay
<1>6. ClientShape(cl') /\ Display(cl')
  BY <1>1, <1>2, <1>3, ClientObjectIs DEF ClientShape, Display
<1>7. /\ HostShape(host')
      /\ \A x \in HostId \ {n} : host'[x] = host[x]
      /\ host'[n].owner = g
  BY <1>1, <1>2, <1>3, HostObjectIs DEF HostShape
<1>8. Owned(host') /\ HostDisplay(host')
  BY <1>1, <1>2, <1>7, IdRanges DEF Owned, HostDisplay
<1>9. Control'
  BY <1>1, ControlKept DEF Control
<1>10. Trackers'
  BY <1>1 DEF HostOffers, Trackers
<1>11. reclaim'.source # 0 => Untouched(objects', up', host', reclaim'.source)
  <2> SUFFICES ASSUME reclaim.source # 0 PROVE Untouched(objects', up', host', reclaim.source)
    BY DEF HostOffers
  <2>1. reclaim.source # n
    BY <1>2, SourceIs
  <2>. QED BY <1>4, <1>5, <1>7, <2>1, SourceIs DEF Untouched
<1>. QED BY <1>5, <1>6, <1>7, <1>8, <1>9, <1>10, <1>11, <1>12, TInvNext DEF HostOffers

SameHost(k) ==
  /\ HostShape(k)
  /\ \A h \in HostId : /\ k[h].owner = host[h].owner /\ k[h].iface = host[h].iface
                       /\ k[h].dead <=> host[h].dead

\* The splice: new ids at the end of the table, the second of them the source.
LEMMA SpliceIs ==
  ASSUME TInv, pc = "run", UNCHANGED <<scenario, pc, at, adv, up, boot>>,
         UNCHANGED <<graph, buffer_flow, pending_frames, planes>>,
         NEW k, SameHost(k), WithSerial(k), ClientShape(cl'), Display(cl')
  PROVE  TInv'
<1>1. Control /\ Trackers /\ Display(cl) /\ ClientShape(cl) /\ HostShape(host) /\ Owned(host)
      /\ TableInv(objects) /\ TableDisplay(objects) /\ HostDisplay(host)
  BY DEF TInv
<1>2. Control'
  BY <1>1, ControlKept DEF Control
<1> USE DEF SameHost
<1>3. CASE host' = k /\ UNCHANGED <<objects, reclaim, expected>>
  <2>1. Trackers'
    BY <1>1, <1>3 DEF Trackers
  <2>2. Owned(host') /\ HostDisplay(host')
    BY <1>1, <1>3, IdRanges DEF Owned, HostDisplay
  <2>3. reclaim'.source # 0 => Untouched(objects', up', host', reclaim'.source)
    BY <1>3, SourceIs DEF Untouched
  <2>. QED BY <1>1, <1>2, <1>3, <2>1, <2>2, <2>3, TInvNext
<1>4. CASE attempt_clipboard_splice(k)
  <2> DEFINE n == objects.next_host_id
  <2>1. PICK ids \in 0..3, done \in BOOLEAN :
          /\ SpliceEnds(ids, done)
          /\ RoomFor(ids)
          /\ objects' = allocate_host_ids(objects, ids)
          /\ reclaim' = [reclaim EXCEPT !.pending = FALSE, !.source = IF done THEN n + 1 ELSE @]
          /\ host' = [h \in HostId |->
                        IF up /\ h \in n..(n + ids - 1) THEN HostObject(SpliceInterfaces[h - n + 1], Proxy, 0, 0, NoAttr)
                        ELSE k[h]]
    BY <1>4 DEF attempt_clipboard_splice
  <2>2. n \in Nat /\ n >= 2
    BY <1>1 DEF TableInv, ShadowTableType
  <2>3. /\ TableInv(objects') /\ TableDisplay(objects') /\ objects'.next_host_id = n + ids
        /\ \A x, y : Maps(objects', x, y) <=> Maps(objects, x, y)
    <3>1. objects \in ShadowTableType /\ TableInv(objects) /\ ids \in Nat
      BY <1>1 DEF TableInv
    <3>2. objects'.next_host_id = n + ids
      BY <2>1, <3>1, AllocateIs
    <3>3. objects'.interfaces = objects.interfaces
      BY <2>1, <3>1, AllocateInterfaces
    <3>4. TableInv(objects') /\ \A x, y : Maps(objects', x, y) <=> Maps(objects, x, y)
      BY <2>1, <3>1, AllocateKeeps
    <3>. QED BY <1>1, <3>2, <3>3, <3>4 DEF TableDisplay
  <2>4. Trackers'
    <3> DEFINE source == IF done THEN n + 1 ELSE reclaim.source
    <3>1. reclaim \in [pending : BOOLEAN, ddm : BOOLEAN, source : Nat]
      BY <1>1 DEF Trackers
    <3>2. source \in Nat
      BY <2>2, <3>1
    <3>3. reclaim' = [reclaim EXCEPT !.pending = FALSE, !.source = source]
      BY <2>1
    <3> HIDE DEF source, n
    <3>4. reclaim' \in [pending : BOOLEAN, ddm : BOOLEAN, source : Nat]
      BY <3>1, <3>2, <3>3
    <3>. QED BY <1>1, <3>4 DEF Trackers
  <2>5. /\ HostShape(host')
        /\ \A h \in HostId : up /\ h \in n..(n + ids - 1) =>
             /\ host'[h].owner = Proxy /\ host'[h].iface = SpliceInterfaces[h - n + 1] /\ ~host'[h].dead
        /\ \A h \in HostId : ~(up /\ h \in n..(n + ids - 1)) => host'[h] = k[h]
    BY <2>1, HostObjectIs DEF HostShape
  <2>6. Owned(host') /\ HostDisplay(host')
    BY <1>1, <2>2, <2>5, IdRanges DEF Owned, HostDisplay
  <2>7. reclaim'.source # 0 => Untouched(objects', up', host', reclaim'.source)
    <3>1. CASE done
      <4>1. reclaim'.source = n + 1
        BY <1>1, <2>1, <3>1 DEF Trackers
      <4>2. ids = 3
        BY <2>1, <3>1 DEF SpliceEnds
      <4>3. n + 1 \in ClientHostId \ {1} /\ n + 1 \in HostId
        <5>1. Played.hosts \subseteq ClientHostId
          BY <1>1, ScenariosAssumption DEF Control, Played
        <5>2. n + 1 \in n..(n + ids - 1)
          BY <2>2, <4>2
        <5>. QED BY <2>1, <2>2, <5>1, <5>2 DEF RoomFor, HostId
      <4>4. \A x \in GuestId : ~Maps(objects', x, n + 1)
        BY <1>1, <2>2, <2>3, <4>3 DEF TableInv
      <4>5. up => host'[n + 1].owner = Proxy /\ host'[n + 1].iface = "wl_data_source" /\ ~host'[n + 1].dead
        <5>1. n + 1 \in n..(n + ids - 1) /\ (n + 1) - n + 1 = 2
          BY <2>2, <4>2
        <5>2. SpliceInterfaces[2] = "wl_data_source"
          BY DEF SpliceInterfaces
        <5>. QED BY <2>5, <4>3, <5>1, <5>2
      <4>. QED BY <2>2, <2>3, <4>1, <4>2, <4>3, <4>4, <4>5 DEF Untouched
    <3>2. CASE ~done
      <4>1. reclaim'.source = reclaim.source
        BY <1>1, <2>1, <3>2 DEF Trackers
      <4>2. reclaim.source # 0 => ~(reclaim.source \in n..(n + ids - 1))
        BY <2>2, SourceIs
      <4>. QED BY <2>2, <2>3, <2>5, <4>1, <4>2, SourceIs DEF Untouched
    <3>. QED BY <3>1, <3>2
  <2>. QED BY <1>2, <2>3, <2>4, <2>5, <2>6, <2>7, TInvNext
<1>. QED BY <1>3, <1>4 DEF WithSerial

\* Focus and pressed buttons are not what TInv is about.
HostFocused(h, f)   == [host EXCEPT ![h].focus = f]
HostPressed(h, p)   == [host EXCEPT ![h].pressed = p]
ClientFocused(g, f) == [cl EXCEPT ![g].focus = f]
ClientPressed(g, p) == [cl EXCEPT ![g].pressed = p]

\* Focus and pressed buttons leave an object alone otherwise.
LEMMA FocusSet ==
  ASSUME TInv, NEW h, NEW g, NEW f, NEW p
  PROVE  /\ SameHost(HostFocused(h, f)) /\ SameHost(HostPressed(h, p)) /\ SameHost(host)
         /\ ClientShape(ClientFocused(g, f)) /\ Display(ClientFocused(g, f))
         /\ ClientShape(ClientPressed(g, p)) /\ Display(ClientPressed(g, p))
<1>1. HostShape(host) /\ ClientShape(cl) /\ Display(cl) /\ 1 \in GuestId
  BY IdRanges DEF TInv
<1>2. SameHost(HostFocused(h, f)) /\ SameHost(HostPressed(h, p)) /\ SameHost(host)
  BY <1>1 DEF SameHost, HostFocused, HostPressed, HostShape, HostField
<1>3. ClientShape(ClientFocused(g, f)) /\ Display(ClientFocused(g, f))
  BY <1>1 DEF ClientFocused, ClientShape, ClientField, Display
<1>4. ClientShape(ClientPressed(g, p)) /\ Display(ClientPressed(g, p))
  BY <1>1 DEF ClientPressed, ClientShape, ClientField, Display
<1>. QED BY <1>2, <1>3, <1>4

\* enter, with or without a splice.
LEMMA HostEntersKeeps ==
  ASSUME TInv, pc = "run", UNCHANGED <<scenario, pc, at, adv, up, boot>>,
         NEW h \in HostId, NEW s \in HostId, HostEnters(h, s)
  PROVE  TInv'
<1>1. PICK g, t : cl' = ClientFocused(g, t)
  BY DEF HostEnters, ClientFocused
<1>2. WithSerial(HostFocused(h, s)) /\ UNCHANGED <<graph, buffer_flow, pending_frames, planes>>
  BY DEF HostEnters, HostFocused
<1>. QED BY <1>1, <1>2, FocusSet, SpliceIs

\* leave.
LEMMA HostLeavesKeeps ==
  ASSUME TInv, pc = "run", UNCHANGED <<scenario, pc, at, adv, up, boot>>,
         NEW h \in HostId, HostLeaves(h)
  PROVE  TInv'
<1>1. PICK g : cl' = ClientFocused(g, 0)
  BY DEF HostLeaves, ClientFocused
<1>2. WithSerial(HostFocused(h, 0)) /\ UNCHANGED <<graph, buffer_flow, pending_frames, planes>>
  BY DEF HostLeaves, HostFocused
<1>. QED BY <1>1, <1>2, FocusSet, SpliceIs

\* button, with or without a splice.
LEMMA HostButtonKeeps ==
  ASSUME TInv, pc = "run", UNCHANGED <<scenario, pc, at, adv, up, boot>>,
         NEW h \in HostId, NEW b \in Buttons, HostButton(h, b)
  PROVE  TInv'
<1>1. PICK g, p : cl' = ClientPressed(g, p)
  BY DEF HostButton, ClientPressed
<1>2. PICK p1 : WithSerial(HostPressed(h, p1)) /\ UNCHANGED <<graph, buffer_flow, pending_frames, planes>>
  BY DEF HostButton, HostPressed
<1>. QED BY <1>1, <1>2, FocusSet, SpliceIs

\* key or touch, with or without a splice.
LEMMA HostKeyKeeps ==
  ASSUME TInv, pc = "run", UNCHANGED <<scenario, pc, at, adv, up, boot>>, NEW h \in HostId, HostKeyOrTouch(h)
  PROVE  TInv'
<1>1. WithSerial(host) /\ UNCHANGED <<graph, buffer_flow, pending_frames, planes>> /\ cl' = cl
  BY DEF HostKeyOrTouch
<1>2. SameHost(host) /\ ClientShape(cl') /\ Display(cl')
  BY <1>1, FocusSet DEF TInv
<1>. QED BY <1>1, <1>2, SpliceIs

\* Every event keeps the invariant.
LEMMA EventKeeps ==
  ASSUME TInv, Event
  PROVE  TInv'
<1>1. pc = "run" /\ UNCHANGED <<scenario, pc, at, adv, up, boot>>
  BY DEF Event
<1>2. ASSUME NEW h \in HostId, HostDone(h) PROVE TInv'
  BY <1>1, <1>2, HostDoneKeeps
<1>3. ASSUME NEW h \in HostId, HostDeletesId(h) PROVE TInv'
  BY <1>1, <1>3, HostDeletesIdKeeps
<1>4. ASSUME NEW h \in HostId, HostReleases(h) PROVE TInv'
  BY <1>1, <1>4, HostReleasesKeeps
<1>5. ASSUME NEW h \in HostId, HostForgets(h) PROVE TInv'
  BY <1>1, <1>5, HostForgetsKeeps
<1>6. ASSUME NEW h \in HostId, HostLeaves(h) PROVE TInv'
  BY <1>1, <1>6, HostLeavesKeeps
<1>7. ASSUME NEW h \in HostId, HostKeyOrTouch(h) PROVE TInv'
  BY <1>1, <1>7, HostKeyKeeps
<1>8. ASSUME NEW h \in HostId, NEW n \in HostId, HostOffers(h, n) PROVE TInv'
  BY <1>1, <1>8, HostOffersKeeps
<1>9. ASSUME NEW h \in HostId, NEW n \in HostId, HostEnters(h, n) PROVE TInv'
  BY <1>1, <1>9, HostEntersKeeps
<1>10. ASSUME NEW h \in HostId, NEW b \in Buttons, HostButton(h, b) PROVE TInv'
  BY <1>1, <1>10, HostButtonKeeps
<1>11. ASSUME HostCancelsSource PROVE TInv'
  BY <1>1, <1>11, HostCancelsSourceKeeps
<1>. QED BY <1>2, <1>3, <1>4, <1>5, <1>6, <1>7, <1>8, <1>9, <1>10, <1>11 DEF Event

------------------------------------------------------------------------------
\* Recovery.

\* Recovery while it stays as it was, but for the control and new ids.
LEMMA TableKept ==
  ASSUME TInv, NEW n \in Nat, objects' = allocate_host_ids(objects, n),
         UNCHANGED <<graph, buffer_flow, pending_frames, planes, reclaim, host, cl, up>>,
         Control'
  PROVE  TInv'
<1>1. Control /\ Trackers /\ Display(cl) /\ ClientShape(cl) /\ HostShape(host) /\ Owned(host)
      /\ TableInv(objects) /\ TableDisplay(objects) /\ HostDisplay(host) /\ objects \in ShadowTableType
  BY DEF TInv, TableInv
<1>2. objects'.next_host_id = objects.next_host_id + n /\ objects.next_host_id \in Nat
  BY <1>1, AllocateIs DEF ShadowTableType
<1>3. objects'.interfaces = objects.interfaces
  BY <1>1, AllocateInterfaces
<1>4. TableInv(objects') /\ \A x, y : Maps(objects', x, y) <=> Maps(objects, x, y)
  BY <1>1, AllocateKeeps
<1>5. TableDisplay(objects')
  BY <1>1, <1>3 DEF TableDisplay
<1>6. Trackers'
  BY <1>1 DEF Trackers
<1>7. reclaim'.source # 0 => Untouched(objects', up', host', reclaim'.source)
  BY <1>2, <1>4, SourceIs DEF Untouched
<1>. QED BY <1>1, <1>4, <1>5, <1>6, <1>7, TInvNext

\* A step that leaves the table, the peers and the trackers alone.
LEMMA NothingMoved ==
  ASSUME TInv, UNCHANGED <<proxyVars, host, cl>>, up' => up, Control'
  PROVE  TInv'
<1>1. Control /\ Trackers /\ Display(cl) /\ ClientShape(cl) /\ HostShape(host) /\ Owned(host)
      /\ TableInv(objects) /\ TableDisplay(objects) /\ HostDisplay(host)
  BY DEF TInv
<1>2. Trackers'
  BY <1>1 DEF Trackers, proxyVars
<1>3. reclaim'.source # 0 => Untouched(objects', up', host', reclaim'.source)
  BY SourceIs DEF Untouched, proxyVars
<1>. QED BY <1>1, <1>2, <1>3, TInvNext DEF proxyVars

\* The proxy notices the end of file.
LEMMA SeeEofKeeps ==
  ASSUME TInv, SeeEof
  PROVE  TInv'
<1>1. Control'
  BY DEF TInv, SeeEof, Control, peerVars, Played
<1>. QED BY <1>1, NothingMoved DEF SeeEof, peerVars

\* A compositor that has just started knows the display only.
LEMMA FreshHostIs ==
  LET k == FreshHost(HostId)
  IN /\ HostShape(k) /\ Owned(k) /\ HostDisplay(k)
     /\ \A h \in HostId \ {1} : k[h] = NoObject
     /\ k[1].owner = 1
<1> DEFINE display == HostObject("wl_display", 1, 0, 0, NoAttr)
<1>1. DOMAIN display = HostField /\ display.iface = "wl_display" /\ display.owner = 1 /\ ~display.dead
  BY HostObjectIs
<1>2. DOMAIN NoObject = HostField /\ NoObject.owner = 0
  BY NoObjectIs
<1>3. FreshHost(HostId) = [h \in HostId |-> IF h = 1 THEN display ELSE NoObject]
  BY DEF FreshHost
<1> HIDE DEF display
<1>. QED BY <1>1, <1>2, <1>3, IdRanges DEF HostShape, Owned, HostDisplay

\* A new connection: an empty table of mappings and a fresh compositor.
LEMMA ReconnectKeeps ==
  ASSUME TInv, Reconnect
  PROVE  TInv'
<1>1. Control /\ Trackers /\ Display(cl) /\ ClientShape(cl) /\ TableInv(objects) /\ TableDisplay(objects)
      /\ objects \in ShadowTableType
  BY DEF TInv, TableInv
<1>2. /\ TableInv(objects')
      /\ objects'.interfaces = [objects.interfaces EXCEPT ![1] = "wl_display"]
  BY <1>1, BumpKeeps, OtherInterfaces DEF Reconnect
<1>3. TableDisplay(objects')
  BY <1>1, <1>2, IdRanges DEF TableDisplay, ShadowTableType
<1>4. Control'
  BY <1>1 DEF Reconnect, Control, Played, trackers
<1>5. Trackers' /\ reclaim'.source = 0
  BY <1>1 DEF Reconnect, ReclaimReset, Trackers, trackers
<1>6. HostShape(host') /\ Owned(host') /\ HostDisplay(host')
  BY FreshHostIs DEF Reconnect
<1>. QED BY <1>1, <1>2, <1>3, <1>4, <1>5, <1>6, TInvNext DEF Reconnect

\* Recovery with nothing to rebuild.
LEMMA RecoverNothingKeeps ==
  ASSUME TInv, RecoverNothing
  PROVE  TInv'
<1>1. Control /\ Trackers /\ Display(cl) /\ ClientShape(cl) /\ HostShape(host) /\ Owned(host)
      /\ TableInv(objects) /\ TableDisplay(objects) /\ HostDisplay(host)
  BY DEF TInv
<1>2. ClientShape(cl') /\ Display(cl')
  BY <1>1, GrabsReleasedIs, IdRanges DEF RecoverNothing, synthesize_grab_releases, Display
<1>3. Control'
  BY <1>1 DEF RecoverNothing, Control, Played, peerVars
<1>4. Trackers'
  BY <1>1 DEF RecoverNothing, Trackers
<1>5. reclaim'.source # 0 => Untouched(objects', up', host', reclaim'.source)
  BY SourceIs DEF RecoverNothing, Untouched, peerVars
<1>. QED BY <1>1, <1>2, <1>3, <1>4, <1>5, TInvNext DEF RecoverNothing

\* No registry: two ids are used up for nothing.
LEMMA FetchFailsKeeps ==
  ASSUME TInv, FetchFails
  PROVE  TInv'
<1>1. Control'
  BY DEF TInv, FetchFails, Control, Played, peerVars, trackers
<1>. QED BY <1>1, TableKept DEF FetchFails, peerVars, trackers

\* The next recipe's number is one recovery may be at.
LEMMA AtIs ==
  ASSUME TInv, Replaying
  PROVE  /\ pc = "replay" /\ at \in 1..Len(graph) /\ Len(graph) \in Nat
         /\ Recipe \in Recipes
         /\ \A next \in {"replay", "configure"} :
              Done(next) /\ UNCHANGED <<peerVars, graph>> => Control'
<1>1. graph \in Seq(Recipes) /\ Control /\ pc = "replay" /\ at <= Len(graph) /\ Len(graph) \in Nat
  BY DEF TInv, Trackers, Replaying
<1>2. at \in 1..Len(graph)
  BY <1>1 DEF Control
<1>3. Recipe \in Recipes
  BY <1>1, <1>2 DEF Recipe
<1>4. ASSUME NEW next \in {"replay", "configure"}, Done(next), UNCHANGED <<peerVars, graph>>
      PROVE  Control'
  BY <1>1, <1>2, <1>4 DEF Control, Done, Played, peerVars
<1>. QED BY <1>1, <1>2, <1>3, <1>4

\* A recipe that is skipped.
LEMMA ReplaySkipsKeeps ==
  ASSUME TInv, ReplaySkips
  PROVE  TInv'
<1>1. Control'
  BY AtIs DEF ReplaySkips, proxyVars
<1>. QED BY <1>1, NothingMoved DEF ReplaySkips, peerVars

\* A recipe that cannot be replayed uses ids up for nothing.
LEMMA ReplayFailsKeeps ==
  ASSUME TInv, ReplayFails
  PROVE  TInv'
<1>1. Control'
  BY AtIs DEF ReplayFails, trackers
<1>2. PICK n \in Nat : objects' = allocate_host_ids(objects, n)
  BY DEF ReplayFails
<1>. QED BY <1>1, <1>2, TableKept DEF ReplayFails, peerVars, trackers

\* Recovery creates n objects and maps an id to the m-th of them.
LEMMA RemappedIs ==
  ASSUME TableInv(objects), NEW g \in GuestId \ {1}, NEW i \in Interface, NEW n \in Nat, NEW m \in Nat, m < n
  PROVE  LET t == objects.next_host_id
             u == map(allocate_host_ids(objects, n), g, t + m, i)
         IN /\ TableInv(u)
            /\ u.next_host_id = t + n
            /\ u.interfaces = [objects.interfaces EXCEPT ![g] = i]
            /\ \A x \in GuestId, y \in Nat \ {NoId} :
                 Maps(u, x, y) <=> IF x = g THEN y = t + m ELSE Maps(objects, x, y) /\ y # t + m
<1> DEFINE t == objects.next_host_id
           h == t + m
           a == allocate_host_ids(objects, n)
           u == map(a, g, h, i)
<1>1. objects \in ShadowTableType /\ t \in Nat /\ t >= 2
  BY DEF TableInv, ShadowTableType
<1>2. /\ TableInv(a) /\ a.next_host_id = t + n /\ a \in ShadowTableType
      /\ a.interfaces = objects.interfaces
  BY <1>1, AllocateKeeps, AllocateIs, AllocateInterfaces
<1>3. \A x, y : Maps(a, x, y) <=> Maps(objects, x, y)
  BY AllocateKeeps
<1>4. h \in Nat /\ h >= 2 /\ h < a.next_host_id
  BY <1>1, <1>2
<1> HIDE DEF a, h
<1>5. /\ TableInv(u)
      /\ u.next_host_id = a.next_host_id
      /\ \A x \in GuestId, y \in Nat \ {NoId} :
           Maps(u, x, y) <=> IF x = g THEN y = h ELSE Maps(a, x, y) /\ y # h
  BY <1>2, <1>4, MapKeeps
<1>6. u.interfaces = [a.interfaces EXCEPT ![g] = i]
  BY <1>2, <1>4, MapInterfaces
<1> HIDE DEF u
<1>7. /\ TableInv(u)
      /\ u.next_host_id = t + n
      /\ u.interfaces = [objects.interfaces EXCEPT ![g] = i]
      /\ \A x \in GuestId, y \in Nat \ {NoId} :
           Maps(u, x, y) <=> IF x = g THEN y = h ELSE Maps(objects, x, y) /\ y # h
  BY <1>2, <1>3, <1>5, <1>6
<1>. QED BY <1>7 DEF u, a, h

\* A sequence of objects the proxy may create.
Creation(made) ==
  /\ Len(made) \in Nat
  /\ \A k \in 1..Len(made) : DOMAIN made[k] = HostField /\ made[k].owner \in GuestId \cup {Proxy}

\* Recovery creates objects, maps an id to one of them and moves on.
LEMMA RemappedKeeps ==
  ASSUME TInv, NEW g \in GuestId \ {1}, NEW i \in Interface, NEW m \in Nat, NEW made,
         m < Len(made), Creation(made), Created(made),
         objects' = map(allocate_host_ids(objects, Len(made)), g, objects.next_host_id + m, i),
         UNCHANGED <<graph, buffer_flow, pending_frames, planes, reclaim, cl, up>>, Control'
  PROVE  TInv'
<1>1. Control /\ Trackers /\ Display(cl) /\ ClientShape(cl) /\ HostShape(host) /\ Owned(host)
      /\ TableInv(objects) /\ TableDisplay(objects) /\ HostDisplay(host)
  BY DEF TInv
<1> DEFINE t == objects.next_host_id
           n == Len(made)
<1>2. t \in Nat /\ t >= 2 /\ n \in Nat
  BY <1>1 DEF TableInv, ShadowTableType, Creation
<1>3. /\ TableInv(objects')
      /\ objects'.next_host_id = t + n
      /\ objects'.interfaces = [objects.interfaces EXCEPT ![g] = i]
      /\ \A x \in GuestId, y \in Nat \ {NoId} :
           Maps(objects', x, y) <=> IF x = g THEN y = t + m ELSE Maps(objects, x, y) /\ y # t + m
  BY <1>1, <1>2, RemappedIs
<1>4. TableDisplay(objects')
  BY <1>1, <1>3, IdRanges DEF TableDisplay, TableInv, ShadowTableType
<1>5. /\ HostShape(host')
      /\ \A h \in HostId : host'[h] = IF up /\ h \in t..(t + n - 1) THEN made[h - t + 1] ELSE host[h]
  BY <1>1, <1>2, CreatedIs DEF Creation
<1>6. \A h \in HostId : h \in t..(t + n - 1) => made[h - t + 1].owner \in GuestId \cup {Proxy}
  <2> SUFFICES ASSUME NEW h \in HostId, h \in t..(t + n - 1) PROVE h - t + 1 \in 1..n
    BY DEF Creation
  <2>. QED BY <1>2, IdRanges
<1>7. Owned(host') /\ HostDisplay(host')
  <2>1. ASSUME NEW h \in HostId PROVE host'[h].owner \in GuestId \cup {0, Proxy, Orphan}
    <3>1. CASE up /\ h \in t..(t + n - 1)
      BY <1>5, <1>6, <3>1
    <3>2. CASE ~(up /\ h \in t..(t + n - 1))
      BY <1>1, <1>5, <3>2 DEF Owned
    <3>. QED BY <3>1, <3>2
  <2>2. host'[1] = host[1]
    BY <1>2, <1>5, IdRanges
  <2>. QED BY <1>1, <2>1, <2>2 DEF Owned, HostDisplay
<1>8. Trackers'
  BY <1>1 DEF Trackers
<1>9. reclaim'.source # 0 => Untouched(objects', up', host', reclaim'.source)
  <2> SUFFICES ASSUME reclaim.source # 0 PROVE Untouched(objects', up', host', reclaim.source)
    OBVIOUS
  <2>1. Untouched(objects, up, host, reclaim.source) /\ reclaim.source < t /\ reclaim.source \in Nat \ {NoId}
        /\ reclaim.source \in HostId
    BY SourceIs
  <2>. QED BY <1>2, <1>3, <1>5, <2>1 DEF Untouched
<1>. QED BY <1>1, <1>3, <1>4, <1>5, <1>7, <1>8, <1>9, TInvNext

\* What find_guest_id_by_interface_name finds under registry is no display.
LEMMA FoundIs ==
  ASSUME TableInv(objects), TableDisplay(objects),
         NEW name, name \notin {"wl_display", NoInterface},
         NEW g \in find_guest_id_by_interface_name(objects, name)
  PROVE  g \in GuestId \ {1} /\ name \in Interface /\ objects.interfaces[g] = name
<1>1. g \in GuestId /\ objects.interfaces[g] = name
  BY DEF find_guest_id_by_interface_name
<1>2. objects.interfaces[g] \in Interface \cup {NoInterface}
  BY <1>1 DEF TableInv, ShadowTableType
<1>. QED BY <1>1, <1>2 DEF TableDisplay

\* The registry and its sync callback.
RegistryMade(g) ==
  << HostObject("wl_registry", g, 1, 0, NoAttr),
     [HostObject("wl_callback", Proxy, 1, 0, NoAttr) EXCEPT !.owed = FALSE, !.dead = TRUE] >>

\* They are objects the proxy may create.
LEMMA RegistryMadeIs ==
  ASSUME NEW g \in GuestId
  PROVE  /\ Creation(RegistryMade(g)) /\ Len(RegistryMade(g)) = 2
         /\ RegistryMade(g)[1].iface = "wl_registry" /\ RegistryMade(g)[1].owner = g /\ ~RegistryMade(g)[1].dead
         /\ RegistryMade(g)[2].iface = "wl_callback" /\ RegistryMade(g)[2].owner = Proxy
<1> DEFINE one == HostObject("wl_registry", g, 1, 0, NoAttr)
           sync == HostObject("wl_callback", Proxy, 1, 0, NoAttr)
           two == [sync EXCEPT !.owed = FALSE, !.dead = TRUE]
<1>1. DOMAIN one = HostField /\ one.iface = "wl_registry" /\ one.owner = g /\ ~one.dead
  BY HostObjectIs
<1>2. DOMAIN sync = HostField /\ sync.iface = "wl_callback" /\ sync.owner = Proxy
  BY HostObjectIs
<1> HIDE DEF one, sync
<1>3. DOMAIN two = HostField /\ two.iface = "wl_callback" /\ two.owner = Proxy
  BY <1>2 DEF HostField
<1>4. RegistryMade(g) = <<one, two>>
  BY DEF RegistryMade, one, two, sync
<1> HIDE DEF two
<1>5. Len(<<one, two>>) = 2 /\ <<one, two>>[1] = one /\ <<one, two>>[2] = two
  OBVIOUS
<1>6. \A k \in 1..2 : k = 1 \/ k = 2
  OBVIOUS
<1>. QED BY <1>1, <1>3, <1>4, <1>5, <1>6 DEF Creation

\* The registry recovery fetches is mapped to the id the client has for it, or to none.
LEMMA FetchRegistryIs ==
  ASSUME TInv, FetchRegistry
  PROVE  /\ Control'
         /\ \E g \in GuestId \ {1} :
              /\ objects.interfaces[g] = "wl_registry" /\ "wl_registry" \in Interface
              /\ objects' = map(allocate_host_ids(objects, 2), g, objects.next_host_id, "wl_registry")
              /\ Created(RegistryMade(g))
<1>1. Control /\ TableInv(objects) /\ TableDisplay(objects) /\ graph \in Seq(Recipes)
  BY DEF TInv, Trackers
<1>2. Control'
  BY <1>1 DEF FetchRegistry, Control, Played, peerVars, trackers
<1>3. PICK g \in find_guest_id_by_interface_name(objects, "wl_registry") :
        objects' = RegistryMapped(g) /\ Created(RegistryMade(g))
  BY DEF FetchRegistry, RegistryMade
<1>4. g \in GuestId \ {1} /\ "wl_registry" \in Interface /\ objects.interfaces[g] = "wl_registry"
  BY <1>1, FoundIs DEF NoInterface
<1>. QED BY <1>2, <1>3, <1>4 DEF RegistryMapped

\* The registry is fetched.
LEMMA FetchRegistryKeeps ==
  ASSUME TInv, FetchRegistry
  PROVE  TInv'
<1>1. PICK g \in GuestId \ {1} :
              /\ objects.interfaces[g] = "wl_registry" /\ "wl_registry" \in Interface
              /\ objects' = map(allocate_host_ids(objects, 2), g, objects.next_host_id, "wl_registry")
              /\ Created(RegistryMade(g))
  BY FetchRegistryIs
<1> DEFINE made == RegistryMade(g)
<1>2. Creation(made) /\ Len(made) = 2
  BY RegistryMadeIs
<1>3. objects.next_host_id + 0 = objects.next_host_id
  BY DEF TInv, TableInv, ShadowTableType
<1>4. Created(made) /\ objects' = map(allocate_host_ids(objects, Len(made)), g, objects.next_host_id + 0, "wl_registry")
  BY <1>1, <1>2, <1>3
<1> HIDE DEF made
<1>5. UNCHANGED <<graph, buffer_flow, pending_frames, planes, reclaim, cl, up>> /\ Control'
  BY FetchRegistryIs DEF FetchRegistry, trackers, peerVars
<1>6. 0 \in Nat /\ 0 < Len(made)
  BY <1>2
<1>. QED BY <1>1, <1>2, <1>4, <1>5, <1>6, RemappedKeeps

\* What a replayed recipe creates, with private objects of the proxy's own first.
Replays(private, made) ==
  /\ Creation(made) /\ Len(made) = private + 1 /\ Created(made)
  /\ objects' = map(allocate_host_ids(objects, Len(made)), Recipe.id,
                    objects.next_host_id + private, Recipe.interface)
  /\ RoomFor(private + 1)
  /\ made[private + 1].owner = Recipe.id /\ made[private + 1].iface = Recipe.interface
  /\ ~made[private + 1].dead
  /\ private = 1 => made[1].owner = Proxy /\ made[1].iface = "zwp_linux_buffer_params_v1"
                    /\ ~made[1].dead

\* A replayed recipe maps its id to the last of the objects it creates.
LEMMA ReplayMapsIs ==
  ASSUME TInv, ReplayMaps
  PROVE  /\ Control' /\ Recipe \in Recipes /\ pc = "replay" /\ at \in 1..Len(graph)
         /\ \E private \in {0, 1} : \E made : Replays(private, made)
<1>1. Replaying /\ UNCHANGED <<graph, peerVars>>
  BY DEF ReplayMaps, trackers
<1>2. Done("configure") \/ Done("replay")
  BY DEF ReplayMaps
<1>3. Control' /\ Recipe \in Recipes /\ pc = "replay" /\ at \in 1..Len(graph)
  BY <1>1, <1>2, AtIs
<1> DEFINE private == IF Recipe.kind = "DmabufBuffer" THEN 1 ELSE 0
           n == objects.next_host_id
           params(hp) == HostObject("zwp_linux_buffer_params_v1", Proxy, hp, 0, Recipe.attr)
           object(hp, ha) == HostObject(Recipe.interface, Recipe.id, IF private = 1 THEN n ELSE hp, ha, Recipe.attr)
<1>4. PICK hp, ha :
        Created(IF private = 1 THEN <<params(hp), object(hp, ha)>> ELSE <<object(hp, ha)>>)
  BY DEF ReplayMaps
<1>5. objects' = map(allocate_host_ids(objects, private + 1), Recipe.id, n + private, Recipe.interface)
  BY DEF ReplayMaps, Remapped
<1>6. RoomFor(private + 1)
  BY DEF ReplayMaps
<1> DEFINE p == params(hp)
           o == object(hp, ha)
<1>7. DOMAIN p = HostField /\ p.iface = "zwp_linux_buffer_params_v1" /\ p.owner = Proxy /\ ~p.dead
  BY HostObjectIs
<1>8. DOMAIN o = HostField /\ o.iface = Recipe.interface /\ o.owner = Recipe.id /\ ~o.dead
  BY HostObjectIs
<1>9. Recipe.id \in GuestId
  BY <1>3 DEF Recipes, GuestId
<1>10. Created(IF private = 1 THEN <<p, o>> ELSE <<o>>) /\ private \in {0, 1}
  BY <1>4
<1> HIDE DEF p, o, private, params, object, n
<1>11. CASE private = 1
  <2> DEFINE made == <<p, o>>
  <2>1. Len(made) = 2 /\ made[1] = p /\ made[2] = o /\ \A k \in 1..2 : k = 1 \/ k = 2
    OBVIOUS
  <2>2. Created(made)
    BY <1>10, <1>11
  <2> HIDE DEF made
  <2>3. Creation(made)
    BY <1>7, <1>8, <1>9, <2>1 DEF Creation
  <2>4. objects' = map(allocate_host_ids(objects, Len(made)), Recipe.id, n + 1, Recipe.interface)
        /\ RoomFor(2)
    BY <1>5, <1>6, <1>11, <2>1
  <2>5. Replays(1, made)
    BY <1>7, <1>8, <2>1, <2>2, <2>3, <2>4 DEF n, Replays
  <2>. QED BY <1>3, <2>5
<1>12. CASE private = 0
  <2> DEFINE made == <<o>>
  <2>1. Len(made) = 1 /\ made[1] = o /\ \A k \in 1..1 : k = 1
    OBVIOUS
  <2>2. Created(made)
    BY <1>10, <1>12
  <2> HIDE DEF made
  <2>3. Creation(made)
    BY <1>8, <1>9, <2>1 DEF Creation
  <2>4. objects' = map(allocate_host_ids(objects, Len(made)), Recipe.id, n + 0, Recipe.interface)
        /\ RoomFor(1)
    BY <1>5, <1>6, <1>12, <2>1
  <2>5. Replays(0, made)
    BY <1>8, <2>1, <2>2, <2>3, <2>4 DEF n, Replays
  <2>. QED BY <1>3, <2>5
<1>. QED BY <1>10, <1>11, <1>12

\* A recipe is replayed.
LEMMA ReplayMapsKeeps ==
  ASSUME TInv, ReplayMaps
  PROVE  TInv'
<1>1. PICK private \in {0, 1} : \E made : Replays(private, made)
  BY ReplayMapsIs
<1>. PICK made : Replays(private, made)
  BY <1>1
<1>2. Recipe.id \in GuestId \ {1} /\ Recipe.interface \in Interface /\ Control'
  BY ReplayMapsIs DEF Recipes, GuestId
<1>3. /\ private \in Nat /\ private < Len(made) /\ Creation(made) /\ Created(made)
      /\ objects' = map(allocate_host_ids(objects, Len(made)), Recipe.id,
                        objects.next_host_id + private, Recipe.interface)
  BY DEF Replays
<1>4. UNCHANGED <<graph, buffer_flow, pending_frames, planes, reclaim, cl, up>>
  BY DEF ReplayMaps, trackers, peerVars
<1>. QED BY <1>2, <1>3, <1>4, RemappedKeeps

\* The waits only move on.
LEMMA WaitsKeep ==
  ASSUME TInv, HostConfigures \/ ConfigureFails \/ ClientAcks \/ AckTimesOut
  PROVE  TInv'
<1>1. \/ pc = "configure" /\ Waits("ack")
      \/ pc \in {"configure", "ack"} /\ Waits("replay")
  BY DEF HostConfigures, ConfigureFails, ClientAcks, AckTimesOut
<1>2. UNCHANGED <<proxyVars, peerVars, host, expected, cl>>
  BY <1>1 DEF Waits
<1>3. Control'
  <2>1. graph \in Seq(Recipes) /\ Control
    BY DEF TInv, Trackers
  <2>. QED BY <1>1, <1>2, <2>1 DEF Waits, Done, Control, Played, peerVars, proxyVars
<1>. QED BY <1>2, <1>3, NothingMoved DEF peerVars

\* An event is read by a wait and thrown away.
LEMMA LoseEventKeeps ==
  ASSUME TInv, LoseEvent
  PROVE  TInv'
<1>1. Control /\ Trackers /\ Display(cl) /\ ClientShape(cl) /\ HostShape(host) /\ Owned(host)
      /\ TableInv(objects) /\ TableDisplay(objects) /\ HostDisplay(host)
  BY DEF TInv
<1>2. PICK h, s : host' = HostFocused(h, s)
  BY DEF LoseEvent, HostFocused
<1>3. HostShape(host') /\ \A x \in HostId : /\ host'[x].owner = host[x].owner /\ host'[x].iface = host[x].iface
                                            /\ host'[x].dead <=> host[x].dead
  BY <1>2, FocusSet, ZenonT(60) DEF SameHost
<1>4. Owned(host') /\ HostDisplay(host')
  BY <1>1, <1>3, IdRanges DEF Owned, HostDisplay
<1>5. UNCHANGED <<pc, at, proxyVars, peerVars, cl>>
  BY DEF LoseEvent
<1>6. Control' /\ Trackers'
  BY <1>1, <1>5 DEF Control, Played, Trackers, proxyVars, peerVars
<1>7. reclaim'.source # 0 => Untouched(objects', up', host', reclaim'.source)
  BY <1>3, <1>5, SourceIs DEF Untouched, proxyVars, peerVars
<1>. QED BY <1>1, <1>3, <1>4, <1>5, <1>6, <1>7, TInvNext DEF proxyVars

\* A request is read by a wait and thrown away.
LEMMA LoseRequestKeeps ==
  ASSUME TInv, LoseRequest
  PROVE  TInv'
<1>1. Control
  BY DEF TInv
<1>2. PICK r, s, a, v, g : Sendable(r, s, a, v, g) /\ boot' \in Nat /\ Lost(r, s, a, v, g)
  BY <1>1, LoseRequestIs
<1>3. UNCHANGED <<scenario, pc, at, proxyVars, adv, up, expected>>
  BY DEF LoseRequest
<1>. QED BY <1>2, <1>3, DropRequestKeeps DEF Lost

\* The synthesized answers keep the shape of the client and its display.
LEMMA AnsweredKeeps ==
  ASSUME TInv
  PROVE  LET u == GrabsReleased(Answered(BuffersReleased(cl, Releasable)))
         IN ClientShape(u) /\ Display(u)
<1> DEFINE b == BuffersReleased(cl, Releasable)
           w == Answered(b)
           u == GrabsReleased(w)
<1>1. 1 \in GuestId \ Answerable
  BY IdRanges DEF TInv, Trackers, Answerable
<1>2. ClientShape(b) /\ Display(b)
  BY <1>1, BuffersReleasedIs DEF TInv, Display
<1> HIDE DEF b
<1>3. ClientShape(w)
  BY <1>2, AnsweredIs
<1>4. w[1].st = b[1].st /\ w[1].iface = b[1].iface
  BY <1>1, <1>2, AnsweredIs
<1> HIDE DEF w
<1>5. ClientShape(u)
  BY <1>3, GrabsReleasedIs
<1>6. u[1].st = w[1].st /\ u[1].iface = w[1].iface
  BY <1>1, <1>3, GrabsReleasedIs
<1>. QED BY <1>2, <1>4, <1>5, <1>6 DEF Display, w, b

\* Recovery ends.
LEMMA FinishRecoveryKeeps ==
  ASSUME TInv, FinishRecovery
  PROVE  TInv'
<1>1. Control /\ Trackers /\ HostShape(host) /\ Owned(host) /\ ClientShape(cl)
      /\ TableInv(objects) /\ TableDisplay(objects) /\ HostDisplay(host)
  BY DEF TInv
<1>2. ClientShape(cl') /\ Display(cl')
  BY AnsweredKeeps DEF FinishRecovery, synthesize_grab_releases
<1>3. /\ HostShape(host') /\ Owned(host')
      /\ \A h \in HostId :
           /\ host'[h].iface = host[h].iface
           /\ host'[h].dead <=> host[h].dead
           /\ host[h].owner = Proxy => host'[h].owner = Proxy
  BY <1>1, SettledIs DEF FinishRecovery
<1>4. HostDisplay(host')
  BY <1>1, <1>3, IdRanges DEF HostDisplay
<1>5. Control'
  BY <1>1 DEF FinishRecovery, Control, Played, peerVars
<1>6. Trackers' /\ reclaim'.source = reclaim.source
  <2> DEFINE ddm == "wl_data_device_manager" \in adv
  <2>1. reclaim' = [reclaim EXCEPT !.pending = TRUE, !.ddm = ddm] /\ ddm \in BOOLEAN
    BY DEF FinishRecovery
  <2> HIDE DEF ddm
  <2>2. reclaim' \in [pending : BOOLEAN, ddm : BOOLEAN, source : Nat] /\ reclaim'.source = reclaim.source
    BY <1>1, <2>1 DEF Trackers
  <2>3. buffer_flow' \in [pending_attach : [GuestId -> GuestId \cup {0}], in_flight : SUBSET GuestId]
    BY <1>1 DEF FinishRecovery, Trackers, drain_in_flight
  <2>. QED BY <1>1, <2>2, <2>3 DEF FinishRecovery, Trackers, drain_awaiting_done
<1>7. reclaim'.source # 0 => Untouched(objects', up', host', reclaim'.source)
  <2>1. objects' = objects /\ up' = up
    BY DEF FinishRecovery, peerVars
  <2>. QED BY <1>3, <1>6, <2>1, SourceIs DEF Untouched
<1>. QED BY <1>1, <1>2, <1>3, <1>4, <1>5, <1>6, <1>7, TInvNext DEF FinishRecovery

\* The compositor dies, at any time.
LEMMA HostDiesKeeps ==
  ASSUME TInv, HostDies
  PROVE  TInv'
<1>1. Control'
  BY DEF TInv, HostDies, Control, Played, proxyVars
<1>. QED BY <1>1, NothingMoved DEF HostDies

------------------------------------------------------------------------------
\* Every step, and the theorems.

\* Every request keeps the invariant.
LEMMA RequestKeeps ==
  ASSUME TInv, Request
  PROVE  TInv'
<1>1. Control
  BY DEF TInv
<1>2. PICK r, s, a, v, g : Sendable(r, s, a, v, g) /\ boot' \in Nat /\ Relayed(r, s, a, v, g)
  BY <1>1, RequestIs
<1>3. pc \in {"run", "frozen"} /\ UNCHANGED <<scenario, pc, at, adv, up>>
  BY DEF Request
<1>4. CASE DropRequest(r, s, a, v, g)
  BY <1>2, <1>3, <1>4, DropRequestKeeps DEF DropRequest
<1>5. CASE RefuseRequest(r, s, a, v, g)
  BY <1>2, <1>3, <1>5, RefuseRequestKeeps
<1>6. CASE PassRequest(r, s, a, v, g)
  BY <1>2, <1>3, <1>6, PassRequestKeeps
<1>. QED BY <1>2, <1>4, <1>5, <1>6 DEF Relayed

\* Every step of the recovery keeps it.
LEMMA RecoverKeeps ==
  ASSUME TInv, Recover
  PROVE  TInv'
BY SeeEofKeeps, ReconnectKeeps, RecoverNothingKeeps, FetchRegistryKeeps, FetchFailsKeeps,
   ReplaySkipsKeeps, ReplayFailsKeeps, ReplayMapsKeeps, WaitsKeep, LoseEventKeeps,
   LoseRequestKeeps, FinishRecoveryKeeps DEF Recover

\* It holds at first.
LEMMA TInvInit ==
  ASSUME Init
  PROVE  TInv
<1>1. Control
  BY DEF Init, Control
<1>2. TableInv(objects) /\ TableDisplay(objects)
  BY NewTable, IdRanges DEF Init, TableDisplay, new_table, map
<1>3. Trackers
  <2>1. graph \in Seq(Recipes)
    BY DEF Init
  <2>2. buffer_flow \in [pending_attach : [GuestId -> GuestId \cup {0}], in_flight : SUBSET GuestId]
    BY DEF Init, new_buffer_flow
  <2>3. planes \in [GuestId -> [dmabuf : GuestId \cup {0}, n : Nat]]
    BY DEF Init
  <2>. QED BY <2>1, <2>2, <2>3 DEF Init, Trackers, new_pending_frames
<1>4. ClientShape(cl) /\ Display(cl)
  <2>1. \A g \in GuestId : cl[g] = IF g = 1 THEN ClientObject("wl_display", 0, 0, NoAttr) ELSE Blank("new")
    BY DEF Init
  <2>2. DOMAIN cl = GuestId
    BY DEF Init
  <2>. QED BY <2>1, <2>2, IdRanges, BlankIs, ClientObjectIs DEF ClientShape, Display
<1>5. HostShape(host) /\ Owned(host) /\ HostDisplay(host)
  BY FreshHostIs DEF Init
<1>6. OwnSource
  BY DEF Init, OwnSource
<1>. QED BY <1>1, <1>2, <1>3, <1>4, <1>5, <1>6 DEF TInv

\* Every step of the connection keeps it.
LEMMA TInvStep ==
  ASSUME TInv, [Next]_vars
  PROVE  TInv'
<1>1. CASE UNCHANGED vars
  <2>1. UNCHANGED <<proxyVars, host, cl, up>> /\ Control'
    BY <1>1 DEF vars, proxyVars, TInv, Control, Played
  <2>. QED BY <2>1, NothingMoved
<1>. QED BY <1>1, RequestKeeps, EventKeeps, RecoverKeeps, HostDiesKeeps DEF Next

\* It says what the two theorems do.
LEMMA TInvImplies ==
  ASSUME TInv
  PROVE  TypeOK /\ SourceIsOwn
<1>1. Control /\ Trackers /\ ClientShape(cl) /\ Owned(host) /\ OwnSource
      /\ TableInv(objects) /\ objects \in ShadowTableType
  BY DEF TInv, TableInv
<1>2. at \in 0..(Len(graph) + 1)
  <2>1. Len(graph) \in Nat /\ at \in Nat
    BY <1>1 DEF Trackers, Control
  <2>. QED BY <1>1, <2>1 DEF Control
<1>3. \A i \in DOMAIN graph :
       /\ graph[i].kind \in RecipeKind /\ graph[i].id \in ClientGuestId
       /\ {graph[i].parent, graph[i].arg} \subseteq GuestId \cup {0}
  <2>1. \A i \in DOMAIN graph : graph[i] \in Recipes
    BY <1>1 DEF Trackers
  <2>. QED BY <2>1 DEF Recipes
<1>4. TypeOK
  BY <1>1, <1>2, <1>3 DEF TypeOK, Control, Trackers, ClientShape, Owned, GuestId
<1>5. SourceIsOwn
  <2> SUFFICES ASSUME reclaim.source # 0
               PROVE  /\ guest_id(objects, reclaim.source) = {}
                      /\ up => host[reclaim.source].owner = Proxy /\ host[reclaim.source].iface = "wl_data_source"
    BY DEF SourceIsOwn
  <2>1. Untouched(objects, up, host, reclaim.source)
    BY <1>1 DEF OwnSource
  <2>2. reclaim.source \in HostId
    BY <2>1 DEF Untouched, HostId
  <2>3. guest_id(objects, reclaim.source) = {}
    BY <1>1, <2>1, <2>2, GuestIdIs DEF Untouched
  <2>. QED BY <2>1, <2>3 DEF Untouched
<1>. QED BY <1>4, <1>5

\* The invariant holds.
LEMMA TInvHolds == Spec => []TInv
BY TInvInit, TInvStep, PTL DEF Spec

(***************************************************************************)
(* The types of the connection hold: run_connection and                    *)
(* recover_state_after_reconnect never leave the table, a tracker, a peer's*)
(* object or the place in the replay outside of its type.                  *)
(***************************************************************************)
THEOREM ConnectionTypesHold == Spec => []TypeOK
BY TInvHolds, TInvImplies, PTL

(***************************************************************************)
(* The source with which the proxy has reclaimed the clipboard stays its   *)
(* own: no guest id is ever mapped to its host id, so no event of it       *)
(* reaches the client, and while the compositor lives the object is the    *)
(* proxy's wl_data_source.                                                 *)
(***************************************************************************)
THEOREM SourceStaysOwn == Spec => []SourceIsOwn
BY TInvHolds, TInvImplies, PTL
==============================================================================
