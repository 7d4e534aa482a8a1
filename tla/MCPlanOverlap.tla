--------------------------- MODULE MCPlanOverlap ---------------------------
(* Three services, two of which mount the artifact, a task that does, and   *)
(* every way to resolve an instruction: equal, updated, different,          *)
(* dependent, heedless of what it depends on, not resolvable.               *)
EXTENDS PlanOverlap

CONSTANTS db, web, cache, bundle, site   \* model values

Instruction(type, name, arg, files) == [type |-> type, name |-> name, arg |-> arg, files |-> files]

MCNames == {db, web, cache, bundle, site}

MCInstructions ==
  {Instruction("add_service", db, "small", {}),
   Instruction("add_service", db, "large", {}),
   Instruction("add_service", web, "small", {site}),
   Instruction("add_services", cache, "small", {site}),
   Instruction("run_sh", bundle, "pack", {site}),
   Instruction("upload_files", site, "v1", {}),
   Instruction("upload_files", site, "v2", {}),
   Instruction("exec", db, "migrate", {}),
   Instruction("remove_service", web, "", {})}
=============================================================================
