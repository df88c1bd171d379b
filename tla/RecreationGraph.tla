-------------------------- MODULE RecreationGraph --------------------------
(***************************************************************************)
(* The recreation graph (src/recreation.rs): the recipes from which        *)
(* recovery recreates the client's objects on a fresh compositor, in the   *)
(* order in which they were recorded.                                      *)
(*                                                                         *)
(* A recipe is a record: id (the guest id), kind (the variant of           *)
(* Recreatable), interface, parent and arg (guest ids, 0 when the variant  *)
(* has none) and attr, the values follow-up requests have set: title and   *)
(* app_id of a toplevel, size of a pool, destination of a viewport, planes *)
(* of a dmabuf buffer.  A plane is only counted; a retained fd is part of  *)
(* the recipe that owns it.  Value 0 is None.                              *)
(***************************************************************************)
EXTENDS Naturals, Sequences

AttrName == {"title", "app_id", "size", "destination", "planes"}
NoAttr == [a \in AttrName |-> 0]

RecipeKind ==
  {"Global", "Surface", "XdgSurface", "XdgToplevel", "ShmPool", "ShmBuffer",
   "DmabufBuffer", "SeatDevice", "Viewport", "FractionalScale"}

\* Wrong: children before the parents they are made from.
RecordFirst(graph, recipe) == <<recipe>> \o graph

record(graph, recipe) == Append(graph, recipe)

\* Option<&Recreatable>: the most recent recipe of the id.
recipe_for(graph, id) ==
  {graph[i] : i \in {i \in DOMAIN graph :
     graph[i].id = id /\ \A j \in DOMAIN graph : graph[j].id = id => j <= i}}

\* Wrong: recipes of deleted objects stay.
RemoveNothing(graph, id) == graph

\* retain
remove(graph, id) ==
  LET Retained[n \in 0..Len(graph)] ==
        IF n = 0 THEN <<>>
        ELSE IF graph[n].id = id THEN Retained[n - 1] ELSE Append(Retained[n - 1], graph[n])
  IN Retained[Len(graph)]

\* Overwrites one attribute of the most recent recipe of this id and kind.
update_recipe(graph, id, kind, name, v) ==
  LET mine == {i \in DOMAIN graph : graph[i].id = id /\ graph[i].kind = kind}
  IN [i \in DOMAIN graph |->
        IF i \in mine /\ \A j \in mine : j <= i
        THEN [graph[i] EXCEPT !.attr[name] = v] ELSE graph[i]]

update_shm_pool_size(graph, id, v)        == update_recipe(graph, id, "ShmPool", "size", v)
update_toplevel_title(graph, id, v)       == update_recipe(graph, id, "XdgToplevel", "title", v)
update_toplevel_app_id(graph, id, v)      == update_recipe(graph, id, "XdgToplevel", "app_id", v)
update_viewport_destination(graph, id, v) == update_recipe(graph, id, "Viewport", "destination", v)
=============================================================================
