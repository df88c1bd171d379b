---------------------------- MODULE WaylandPeers ----------------------------
(***************************************************************************)
(* The two programs the proxy sits between, as far as the proxy's promises *)
(* concern them.  Neither is part of the repository: the client behaves as *)
(* libwayland-client does, the compositor as libwayland-server does.       *)
(*                                                                         *)
(* cl[g] is the client's object of id g:                                   *)
(*   st      "new" (never used), "free" (used and free again), "live",     *)
(*           "dead" (destroyed, its delete_id still to come)               *)
(*   parent, arg  the objects it was made from, 0 once those ids are free  *)
(*   attr    what the client last set (title, size, ...)                   *)
(*   att     surfaces: the buffer attached and not yet committed           *)
(*   busy    buffers: committed, the release still to come                 *)
(*   spent   dmabuf params: its one buffer has been made                   *)
(*   focus, pressed  devices: the surface entered and the buttons held     *)
(*   gone    a delete_id arrived while the object was live                 *)
(* host[h] is the compositor's object of id h, with the same fields, and:  *)
(*   owner   the guest id it stands for, Proxy or Orphan                   *)
(*   owed    a done or a release is still to be sent                       *)
(*   dead    destroyed; for a client-range id, its delete_id is to come    *)
(***************************************************************************)
EXTENDS Integers, FiniteSets, RecreationGraph

Proxy == -1
Orphan == -2

Blank(st) ==
  [st |-> st, iface |-> "none", parent |-> 0, arg |-> 0, attr |-> NoAttr, att |-> 0,
   busy |-> FALSE, spent |-> FALSE, focus |-> 0, pressed |-> {}, gone |-> FALSE]

ClientObject(iface, parent, arg, attr) ==
  [Blank("live") EXCEPT !.iface = iface, !.parent = parent, !.arg = arg, !.attr = attr]

NoObject ==
  [iface |-> "none", owner |-> 0, parent |-> 0, arg |-> 0, attr |-> NoAttr, att |-> 0,
   owed |-> FALSE, focus |-> 0, pressed |-> {}, dead |-> FALSE]

HostObject(iface, owner, parent, arg, attr) ==
  [NoObject EXCEPT !.iface = iface, !.owner = owner, !.parent = parent, !.arg = arg,
                   !.attr = attr, !.owed = (iface = "wl_callback")]

Live(cl, g) == cl[g].st = "live"
Holds(cl) == {g \in DOMAIN cl : cl[g].st \in {"live", "dead"}}

-----------------------------------------------------------------------------
\* The client side.

\* Ids become free: whatever referred to them no longer does.
Freed(cl, S) ==
  [g \in DOMAIN cl |->
     IF g \in S THEN Blank("free")
     ELSE [cl[g] EXCEPT !.parent = IF @ \in S THEN 0 ELSE @,
                        !.arg = IF @ \in S THEN 0 ELSE @]]

\* wl_proxy_destroy: an id whose delete_id has come already, or that the
\* server allocated, is free at once; any other waits for its delete_id.
Destroyed(cl, g, serverIds) ==
  LET unref == [x \in DOMAIN cl |->
                  [cl[x] EXCEPT !.focus = IF @ = g THEN 0 ELSE @,
                                !.att = IF @ = g THEN 0 ELSE @]]
  IN IF cl[g].gone \/ g \in serverIds THEN Freed(unref, {g})
     ELSE [unref EXCEPT ![g] = [@ EXCEPT !.st = "dead", !.busy = FALSE, !.focus = 0,
                                         !.pressed = {}, !.att = 0]]

\* wl_display.delete_id for every id in S.
IdsDeleted(cl, S) ==
  Freed([g \in DOMAIN cl |-> IF g \in S /\ Live(cl, g) THEN [cl[g] EXCEPT !.gone = TRUE] ELSE cl[g]],
        {g \in S : cl[g].st = "dead"})

\* wl_callback.done: the client destroys a callback once it has fired.
CallbackDone(cl, g) ==
  IF Live(cl, g) /\ cl[g].iface = "wl_callback"
  THEN IF cl[g].gone THEN Freed(cl, {g}) ELSE [cl EXCEPT ![g].st = "dead"]
  ELSE cl

BuffersReleased(cl, S) ==
  [g \in DOMAIN cl |-> IF g \in S THEN [cl[g] EXCEPT !.busy = FALSE] ELSE cl[g]]

\* libwayland reuses freed ids before it takes a fresh one.
NextIds(cl, ids) ==
  LET free == {g \in ids : cl[g].st = "free"}
      fresh == {g \in ids : cl[g].st = "new"}
  IN IF free # {} THEN free ELSE {g \in fresh : \A x \in fresh : g <= x}

-----------------------------------------------------------------------------
\* The compositor side.

FreshHost(ids) == [h \in ids |-> IF h = 1 THEN HostObject("wl_display", 1, 0, 0, NoAttr) ELSE NoObject]

\* The client gives up the ids in S: the objects made for them are orphans.
Orphaned(host, S) ==
  [h \in DOMAIN host |-> IF host[h].owner \in S THEN [host[h] EXCEPT !.owner = Orphan] ELSE host[h]]

\* A destructor is processed: focus on the object is lost.
HostDestroyed(host, h) ==
  [x \in DOMAIN host |->
     [host[x] EXCEPT !.dead = @ \/ x = h,
                     !.owed = @ /\ x # h,
                     !.focus = IF @ = h THEN 0 ELSE @,
                     !.att = IF @ = h THEN 0 ELSE @]]

\* commit: the attached buffer is the compositor's until it releases it.
HostCommitted(host, s) ==
  [h \in DOMAIN host |->
     [host[h] EXCEPT !.att = IF h = s THEN 0 ELSE @,
                     !.owed = @ \/ h = host[s].att]]
=============================================================================
