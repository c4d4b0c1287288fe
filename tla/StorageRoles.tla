----------------------------- MODULE StorageRoles -----------------------------
(***************************************************************************)
(* Which PVE storage may play which role of a build: what the helper says  *)
(* of it (discover_storages, _storage_or_error, _resolve_image_cache) and  *)
(* what the engine then demands of it (preflight, main).                   *)
(*                                                                         *)
(* A storage as PVE shows it is a record: disable and content of its       *)
(* configuration, its status on this node ("absent" if PVE does not list   *)
(* it there), whether its type keeps files, what `pvesm path' makes of a   *)
(* name of each content type ("plain", "odd": absolute, but with .. or     *)
(* under another name, "none": refused or not absolute), and avail, which  *)
(* may be Unknown.                                                         *)
(***************************************************************************)
EXTENDS Integers

CONSTANT Unknown  \* no number of available bytes is reported

StorageRoleNames == {"image", "template", "backup"}

Demands(role) ==
  CASE role = "image"    -> {"iso", "snippets"}
    [] role = "template" -> {"images"}
    [] role = "backup"   -> {"backup"}

StorageEnabled(s) == ~s.disable /\ s.status # "disabled"
StorageActive(s)  == s.status = "active"

\* _image_storage_path_reasons() and _resolve_image_cache().
SafePaths(s) == \A type \in Demands("image") : s.path[type] = "plain"

\* The paths are probed only of a storage that is fit otherwise.
Allowed(s, role) ==
  /\ StorageEnabled(s)
  /\ StorageActive(s)
  /\ Demands(role) \subseteq s.content
  /\ role = "image" => SafePaths(s)

\* prepare_plan(): room for all items, as far as PVE tells.
HasRoom(s, bytes) == s.avail = Unknown \/ s.avail >= bytes

\* _storage_content_remediations(): the command is offered ...
Remediable(s) ==
  /\ StorageEnabled(s) /\ StorageActive(s)
  /\ s.files
  /\ ~(Demands("image") \subseteq s.content)

\* ... and what the storage's content is once it was run.
Remedied(s) == [s EXCEPT !.content = @ \cup Demands("image")]

\* preflight() of the engine.
EngineAllows(s, role) == StorageActive(s) /\ Demands(role) \subseteq s.content

\* resolve_storage_content_dir().
EngineFindsPaths(s) == \A type \in Demands("image") : s.path[type] # "none"

=============================================================================
