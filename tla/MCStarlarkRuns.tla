--------------------------- MODULE MCStarlarkRuns ---------------------------
(* Services that mount artifacts, and a task that makes one artifact from  *)
(* another; scripts that deploy them, update them and remove one, so that  *)
(* runs find parts of their script in the enclave plan, changed, dependent *)
(* on a change with or without being run again for it, or not resolvable.  *)
EXTENDS StarlarkRuns

CONSTANTS db, web, cache, bundle, site   \* model values

MCNames == {db, web, cache, bundle, site}

Instruction(type, name, arg, files) == [type |-> type, name |-> name, arg |-> arg, files |-> files]

Db(size) == Instruction("add_service", db, size, {})
Migrate  == Instruction("exec", db, "migrate", {})
Site(v)  == Instruction("upload_files", site, v, {})
Web      == Instruction("add_service", web, "small", {site})
Bundle   == Instruction("run_sh", bundle, "pack", {site})
Cache    == Instruction("add_services", cache, "small", {bundle})
Purge    == Instruction("remove_service", web, "", {})

Deploy  == <<Db("small"), Migrate>>
Resize  == <<Db("large")>>
Publish(v) == <<Site(v), Web>>
Serve(v)   == <<Site(v), Bundle, Cache>>

MCScripts  == {Deploy, Resize, Publish("v1"), Publish("v2"), Serve("v1"), Serve("v2"), <<Purge>>, <<Web>>}
TwoScripts == {Deploy, Resize}
=============================================================================
