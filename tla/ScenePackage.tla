---------------------------- MODULE ScenePackage ----------------------------
(***************************************************************************)
(* From a Blender scene to a verified package of the files it needs: which *)
(* objects a frame range shows (visibility/), the dependency graph of the  *)
(* scene (intelligence/dependency_graph.py), the closure of what the       *)
(* shown objects require and the files behind it (packaging/resolver.py),  *)
(* and the plan, the copy, the validation and the publication of the       *)
(* package (packaging/builder.py, validator.py).                           *)
(*                                                                         *)
(* The extractor names objects by their Blender name, so an object's       *)
(* identifier is its label.  An identifier of the graph is <<prefix,       *)
(* name>>; objects are bare, their prefix is "".  What the camera's        *)
(* geometry lets through is an input.  A file's digest is its content.     *)
(***************************************************************************)
EXTENDS Integers, Sequences, FiniteSets, SequencesExt, TLC, Trial, Sorting

Nothing == "none"
Bare(x) == <<"", x>>
ObjectsOf(s) == ToSet(s.objects)
Ids(s) == {o.id : o \in ObjectsOf(s)}
ObjectOf(s, id) == CHOOSE o \in ObjectsOf(s) : o.id = id
Linked(x) == {x} \ {Nothing}

-----------------------------------------------------------------------------
(* Which objects a range of frames shows.  o.curve maps the frames of the  *)
(* hide_render curve's keyframes to "hidden here"; o.hidden is the static  *)
(* flag.                                                                   *)

Keys(o) == DOMAIN o.curve
FirstKey(o) == CHOOSE f \in Keys(o) : \A g \in Keys(o) : f <= g
LastKey(o) == CHOOSE f \in Keys(o) : \A g \in Keys(o) : f >= g
InRange(o, from, to) == {f \in Keys(o) : from <= f /\ f <= to}
\* The value a curve holds at a frame: that of the last keyframe up to it.
HeldAt(o, frame) ==
  LET past == {f \in Keys(o) : f <= frame}
  IN o.curve[IF past = {} THEN FirstKey(o) ELSE CHOOSE f \in past : \A g \in past : f >= g]
NextValue(o, frame) ==
  LET later == {f \in Keys(o) : f >= frame}
  IN o.curve[IF later = {} THEN LastKey(o) ELSE CHOOSE f \in later : \A g \in later : f <= g]
\* mutant: only keyframes inside the range count
CurveInside(o, from, to) == \E f \in InRange(o, from, to) : ~o.curve[f]
\* EligibilityAnalyzer, on typed objects
CurveIndicatesVisible(o, from, to) ==
  \/ \E f \in InRange(o, from, to) : ~o.curve[f]
  \/ ~HeldAt(o, from)
  \/ o.interpolation # "CONSTANT" /\ ~NextValue(o, to)
IsEligibleInRange(o, from, to) ==
  IF Keys(o) = {} THEN ~o.hidden ELSE CurveIndicatesVisible(o, from, to)
\* RenderRequirementAnalyzer, on the dictionaries it turns a snapshot into
EvaluateEligibility(o, from, to) ==
  IF Keys(o) = {} THEN ~o.hidden
  ELSE IF InRange(o, from, to) = {} THEN ~HeldAt(o, from)
  ELSE \E f \in InRange(o, from, to) : ~o.curve[f]

-----------------------------------------------------------------------------
(* The dependency graph.  Collections, modifiers and actions are nodes     *)
(* without a file and without edges of their own; they are left out.      *)

Node(prefix, x, label, kind) == [id |-> <<prefix, x>>, label |-> label, kind |-> kind]
TexturesOf(s, o) == IF o.material = Nothing THEN {} ELSE {s.texture}
\* The first node under an identifier stays: an image the snapshot lists is
\* labelled by its path, any other by its name.
ImagePath(s) == IF s.imagePath = Nothing THEN s.texture ELSE s.imagePath
BuildNodes(s) ==
  {Node("", o.id, o.id, "object") : o \in ObjectsOf(s)}
  \cup (IF s.imagePath = Nothing THEN {} ELSE {Node("image", s.texture, s.imagePath, "image")})
  \cup UNION {
    {Node("material", m, m, "material") : m \in Linked(o.material)}
    \cup {Node("texture", t, t, "texture") : t \in TexturesOf(s, o)}
    \cup {Node("image", t, ImagePath(s), "image") : t \in TexturesOf(s, o)}
    \cup {Node("asset", r, r, "asset") : r \in Linked(o.reference)} : o \in ObjectsOf(s)}
BuildEdges(s) ==
  UNION {
    {<<Bare(o.id), Bare(p)>> : p \in Linked(o.parent)}
    \cup {<<Bare(p), Bare(o.id)>> : p \in Linked(o.parent) \cap Ids(s)}
    \cup {<<Bare(o.id), Bare(c)>> : c \in Linked(o.target)}
    \cup {<<Bare(o.id), <<"material", m>>>> : m \in Linked(o.material)}
    \cup {<<<<"material", o.material>>, <<"texture", t>>>> : t \in TexturesOf(s, o)}
    \cup {<<<<"texture", t>>, <<"image", t>>>> : t \in TexturesOf(s, o)}
    \cup {<<Bare(o.id), <<"asset", r>>>> : r \in Linked(o.reference)} : o \in ObjectsOf(s)}
Build(s) == [nodes |-> BuildNodes(s), edges |-> BuildEdges(s)]
NodeIds(g) == {n.id : n \in g.nodes}
FindMissingTargets(g) == {e[2] : e \in g.edges} \ NodeIds(g)
FindUnusedNodes(g) == {n \in g.nodes : n.kind # "object" /\ n.id \notin {e[2] : e \in g.edges}}

-----------------------------------------------------------------------------
(* What the shown objects require *)

\* Up the hierarchy until a parent is unknown or met before.
Climb(s, c) ==
  LET parent == ObjectOf(s, c.at).parent
  IN IF c.at \notin Ids(s) \/ parent \notin Ids(s) \ c.met THEN c
     ELSE [at |-> parent, met |-> c.met \cup {parent}]
Ancestors(s, id) ==
  LET chain[n \in 0 .. Cardinality(Ids(s))] ==
        IF n = 0 THEN [at |-> id, met |-> {id}] ELSE Climb(s, chain[n - 1])
  IN chain[Cardinality(Ids(s))].met

LightsOf(s) == {o.id : o \in {x \in ObjectsOf(s) : x.type = "LIGHT"}}
\* One pass over the objects in their order: a constraint brings in the
\* object it is on, or its target, when the other is already required.
RequireConstrained(s, required, o) ==
  LET withRig == required \cup (IF o.type = "ARMATURE" \/ o.simulated THEN {o.id} ELSE {})
  IN IF o.target # Nothing /\ {o.id, o.target} \cap withRig # {}
     THEN withRig \cup {o.id} \cup ({o.target} \cap Ids(s))
     ELSE withRig
AnalyzeInfluences(s, visible) ==
  LET hierarchy == UNION {Ancestors(s, id) : id \in visible}
  IN FoldLeft(LAMBDA required, o : RequireConstrained(s, required, o),
              visible \cup hierarchy \cup LightsOf(s), s.objects)
\* DependencyResolver: the materials of the required objects, their textures.
ResolveClosure(s, required) ==
  LET owners == {o \in ObjectsOf(s) : o.id \in required}
      textures == UNION {TexturesOf(s, o) : o \in owners}
  IN [objects |-> required, materials |-> UNION {Linked(o.material) : o \in owners},
      textures |-> textures, images |-> textures]
VisibleObjects(s, from, to, inView) ==
  {o.id : o \in {x \in ObjectsOf(s) : /\ EvaluateEligibility(x, from, to)
                                      /\ x.type # "CAMERA" /\ x.id \in inView}}
AnalyzeRequirements(s, from, to, inView) ==
  ResolveClosure(s, AnalyzeInfluences(s, VisibleObjects(s, from, to, inView)))

\* RequirementResolver: prefixed identifiers, and bare names for the labels.
ResolveRequirements(r) ==
  {Bare(x) : x \in r.objects \cup r.materials \cup r.textures \cup r.images}
  \cup {<<"material", m>> : m \in r.materials}
  \cup {<<"texture", t>> : t \in r.textures} \cup {<<"image", t>> : t \in r.images}

ExpandSeeds(seeds, g) ==
  (seeds \cap NodeIds(g)) \cup {n.id : n \in {x \in g.nodes : Bare(x.label) \in seeds}}
\* One element leaves the queue; its neighbours not yet visited join it.
Visit(b, g) ==
  LET current == CHOOSE x \in b.queue : TRUE
      near == {e[2] : e \in {x \in g.edges : x[1] = current}}
      visited == b.visited \cup {current}
  IN IF b.queue = {} THEN b
     ELSE [queue |-> (b.queue \cup near) \ visited, visited |-> visited]
\* Nothing is visited twice, so the queue is empty after so many steps.
Bfs(start, g) ==
  LET most == Cardinality(start \cup {e[2] : e \in g.edges})
      search[n \in 0 .. most] ==
        IF n = 0 THEN [queue |-> start, visited |-> {}] ELSE Visit(search[n - 1], g)
  IN search[most].visited
\* mutant: only the seeds and what they name directly
ClosureOneStep(seeds, g) ==
  LET start == ExpandSeeds(seeds, g)
  IN start \cup {e[2] : e \in {x \in g.edges : x[1] \in start}}
ComputeClosure(seeds, g) == Bfs(ExpandSeeds(seeds, g), g)

-----------------------------------------------------------------------------
(* The files behind the identifiers.  A directory maps paths to a content, *)
(* or Gone, or Outside: the path leaves the project.                       *)

Gone == "gone"
Outside == "outside"
Contents == {"one", "two"}
\* A source is <<directory, path>>: the scene's directory, or the first search
\* path that has the file when the scene's has none.
ResolvePath(p, dirs) ==
  LET has == {i \in DOMAIN dirs : dirs[i][p] \in Contents}
  IN <<IF dirs[1][p] # Gone \/ has = {} THEN 1 ELSE CHOOSE i \in has : \A j \in has : i <= j, p>>
ReadSource(source, dirs) == dirs[source[1]][source[2]]

ClassifyExternal(id, g) ==
  IF id \in NodeIds(g) THEN (CHOOSE n \in g.nodes : n.id = id).kind \in {"texture", "image", "asset"}
  ELSE id[1] \in {"texture", "image", "asset"}
RawPath(id, g) == IF id \in NodeIds(g) THEN (CHOOSE n \in g.nodes : n.id = id).label ELSE id[2]
RecordOf(id, seeds, g, dirs) ==
  LET external == ClassifyExternal(id, g)
      path == RawPath(id, g)
      source == ResolvePath(path, dirs)
      found == ReadSource(source, dirs)
      base == [id |-> id, conservative |-> id \notin NodeIds(g),
               reason |-> IF id \in seeds \/ Bare(path) \in seeds THEN "required" ELSE "dependency"]
  IN IF ~external
     THEN base @@ [status |-> "embedded", path |-> Nothing, sha |-> Nothing, package |-> Nothing]
     ELSE IF found \in Contents
     THEN base @@ [status |-> "resolved", path |-> source, sha |-> found, package |-> <<found, path>>]
     ELSE base @@ [status |-> "missing", path |-> source, sha |-> Nothing, package |-> Nothing]
\* The path of one file outside the project stops the whole resolution.
Escapes(ids, g, dirs) ==
  \E id \in ids : ClassifyExternal(id, g) /\ ReadSource(ResolvePath(RawPath(id, g), dirs), dirs) = Outside
ResolveAssets(ids, seeds, g, dirs) == {RecordOf(id, seeds, g, dirs) : id \in ids}

-----------------------------------------------------------------------------
(* The package *)

\* Records are sorted by identifier; only the order of files matters.
Names == <<"asset", "image", "texture", "lib", "maps", "tex">>
Place(x) == CHOOSE i \in DOMAIN Names : Names[i] = x
IdBefore(r, q) ==
  \/ Place(r.id[1]) < Place(q.id[1])
  \/ r.id[1] = q.id[1] /\ Place(r.id[2]) < Place(q.id[2])
\* mutant: a duplicate keeps the path it would have had on its own
DeduplicateUnmapped(sorted) ==
  FoldLeft(LAMBDA plan, r :
             [kept |-> IF \E x \in ToSet(plan.kept) : x.sha = r.sha THEN plan.kept ELSE Append(plan.kept, r),
              all |-> plan.all \cup {r}],
           [kept |-> <<>>, all |-> {}], sorted)
\* A file whose content was met before takes the path of the first with it.
AddRecord(plan, r) ==
  LET same == {x \in ToSet(plan.kept) : x.sha = r.sha}
  IN IF same = {} THEN [kept |-> Append(plan.kept, r), all |-> plan.all \cup {r}]
     ELSE [kept |-> plan.kept,
           all |-> plan.all \cup {[r EXCEPT !.package = (CHOOSE x \in same : TRUE).package]}]
Deduplicate(sorted) == FoldLeft(AddRecord, [kept |-> <<>>, all |-> {}], sorted)
CreatePlan(records) ==
  LET resolved == {r \in records : r.status = "resolved"}
      listed == SetToSeq(resolved)
      plan == Deduplicate(Pick(listed, Order(Len(listed), LAMBDA i, j : IdBefore(listed[i], listed[j]))))
  IN [all |-> plan.all \cup (records \ resolved), kept |-> ToSet(plan.kept),
      missing |-> {r \in records : r.status = "missing"}]

NoPackage == [files |-> <<>>, scene |-> FALSE, manifest |-> {}]
\* The sources fixed when the files were resolved are read now; those that are
\* gone are skipped.  The scene is copied only when it is a .blend file, and
\* Blender, when given, rewrites its paths.
BuildPackage(plan, now, env) ==
  LET copied == {r \in plan.kept : ReadSource(r.path, now) \in Contents}
  IN [files |-> [p \in {r.package : r \in copied} |->
                   ReadSource((CHOOSE r \in copied : r.package = p).path, now)],
      scene |-> env.blend, manifest |-> plan.all]
BuildFails(env) == env.blend /\ env.blender \in {"unavailable", "remap fails"}
Holds(package, r) == r.package \in DOMAIN package.files /\ package.files[r.package] = r.sha
Validate(plan, package, env) ==
  /\ \A r \in plan.kept : Holds(package, r)
  /\ package.scene
  /\ env.blender \in {Nothing, "accepts"}
\* From the manifest alone: one record for each package path.
ValidateManifest(package) ==
  LET external == {r \in package.manifest : r.status = "resolved"}
  IN \A p \in {r.package : r \in external} : \E r \in external : r.package = p /\ Holds(package, r)

Result(final, backup, outcome) == [final |-> final, backup |-> backup, outcome |-> outcome]
\* The old package moves aside, the new one takes its place and the old one
\* is deleted.  env.fault names the call that fails.
Publish(new, old, env) ==
  IF env.fault = "set aside" /\ old # NoPackage THEN Result(old, NoPackage, "raised")
  ELSE IF env.fault = "publish" THEN Result(old, NoPackage, "raised")
  ELSE IF env.fault = "publish and roll back" THEN Result(NoPackage, old, "raised")
  ELSE IF env.fault = "clean up" /\ old # NoPackage THEN Result(new, old, "raised")
  ELSE Result(new, NoPackage, "report")
\* mutant: the new package is published before it is validated
PublishUnchecked(plan, now, old, env) ==
  IF BuildFails(env) THEN Result(old, NoPackage, "raised")
  ELSE Publish(BuildPackage(plan, now, env), old, env)
BuildAndValidate(plan, now, old, env) ==
  LET new == BuildPackage(plan, now, env)
  IN IF BuildFails(env) \/ ~Validate(plan, new, env) THEN Result(old, NoPackage, "raised")
     ELSE Publish(new, old, env)

-----------------------------------------------------------------------------
(* The inputs *)

Frames == 1 .. 3
Curves == UNION {[S -> BOOLEAN] : S \in SUBSET Frames}
EligibilityTrials ==
  [kind : {"eligibility"}, hidden : BOOLEAN, curve : Curves, interpolation : {"CONSTANT", "BEZIER"},
   from : Frames, to : Frames]

Object(id, type, parent, target, material, reference) ==
  [id |-> id, type |-> type, parent |-> parent, target |-> target, material |-> material,
   reference |-> reference, hidden |-> FALSE, curve |-> <<>>, simulated |-> FALSE]
Scene(objects, imagePath) == [objects |-> objects, texture |-> "tex", imagePath |-> imagePath]
Scenes ==
  {Scene(<<Object("a", "MESH", pa, ta, ma, Nothing), Object("b", tb, pb, cb, Nothing, rb),
           Object("c", "MESH", Nothing, cc, mc, Nothing)>>, img) :
     pa \in {Nothing, "b", "lost"}, ta \in {Nothing, "c"}, ma \in {Nothing, "mat"},
     tb \in {"MESH", "LIGHT"}, pb \in {Nothing, "c"}, cb \in {Nothing, "a"}, rb \in {Nothing, "lib"},
     cc \in {Nothing, "b"}, mc \in {Nothing, "mat"}, img \in {Nothing, "maps"}}
SceneTrials ==
  [kind : {"scene"}, scene : Scenes, inView : {{"a"}, {"b"}, {"a", "c"}, {}}, optimise : BOOLEAN]

\* The objects a shown object cannot be drawn without, whatever their order.
Needs(s, ids) ==
  LET More(known) == known \cup UNION {{ObjectOf(s, i).parent, ObjectOf(s, i).target} \cap Ids(s) : i \in known}
      need[n \in 0 .. Cardinality(Ids(s))] == IF n = 0 THEN ids ELSE More(need[n - 1])
  IN need[Cardinality(Ids(s))]
FilesOf(s, o) ==
  Linked(o.reference) \cup (IF o.material = Nothing THEN {} ELSE {ImagePath(s)})

SomeDir == [p \in {"tex", "maps", "lib"} |-> IF p = "lib" THEN Gone ELSE "one"]
SceneSound(i) ==
  LET s == i.scene
      g == Build(s)
      visible == VisibleObjects(s, 1, 1, i.inView)
      seeds == IF i.optimise THEN ResolveRequirements(AnalyzeRequirements(s, 1, 1, i.inView))
               ELSE NodeIds(g)
      closure == ComputeClosure(seeds, g)
      plan == CreatePlan(ResolveAssets(closure, seeds, g, <<SomeDir>>))
  IN \* the closure is closed under the edges
     /\ \A e \in g.edges : e[1] \in closure => e[2] \in closure
     \* what is packaged without a node of its own was reported missing
     /\ {r.id : r \in {x \in plan.all : x.conservative}} \subseteq FindMissingTargets(g)
     \* every file a shown object needs is in the plan, found or missing
     /\ \A id \in Needs(s, visible \cup LightsOf(s)) : \A p \in FilesOf(s, ObjectOf(s, id)) :
          \E r \in plan.all : r.status \in {"resolved", "missing"} /\ r.path[2] = p
     \* a package without optimisation leaves no node out
     /\ ~i.optimise => NodeIds(g) \subseteq closure
     \* and one with it takes nothing that no object uses
     /\ i.optimise => {n.id : n \in FindUnusedNodes(g)} \cap closure = {}

EligibilitySound(i) ==
  LET shown == \E f \in i.from .. i.to : IF Keys(i) = {} THEN ~i.hidden ELSE ~HeldAt(i, f)
      typed == IsEligibleInRange(i, i.from, i.to)
      plain == EvaluateEligibility(i, i.from, i.to)
  IN i.from <= i.to =>
       \* the typed analysis keeps everything that is ever shown
       /\ shown => typed
       \* the plain one keeps nothing the typed one drops or that is not shown
       /\ plain => typed /\ shown
       \* and they agree while no keyframe lies after the first frame
       /\ InRange(i, i.from + 1, i.to) = {} /\ i.interpolation = "CONSTANT" => (plain <=> typed)

FileIds == {<<"asset", "lib">>, <<"image", "maps">>, <<"texture", "tex">>}
FileGraph == [nodes |-> {Node(id[1], id[2], id[2], id[1]) : id \in FileIds}, edges |-> {}]
OldPackage == [NoPackage EXCEPT !.scene = TRUE]
PackageTrials ==
  [kind : {"package"}, then : [{"tex", "maps", "lib"} -> Contents \cup {Gone, Outside}],
   now : [{"tex", "maps", "lib"} -> Contents \cup {Gone}],
   fallback : {Gone, "two"}, old : {NoPackage, OldPackage},
   env : {[blend |-> b, blender |-> x, fault |-> f] :
            b \in BOOLEAN, x \in {Nothing, "accepts", "rejects", "remap fails"},
            f \in {Nothing, "set aside", "publish", "publish and roll back", "clean up"}}]
\* Faults and changes of the files are tried one kind at a time.
PackageInputs ==
  {i \in PackageTrials :
     \/ i.env = [blend |-> TRUE, blender |-> Nothing, fault |-> Nothing] /\ i.old = OldPackage
     \/ i.then = i.now /\ i.then["maps"] = "one" /\ i.fallback = Gone}
PackageSound(i) ==
  LET fallback == [p \in {"tex", "maps", "lib"} |-> i.fallback]
      plan == CreatePlan(ResolveAssets(FileIds, {}, FileGraph, <<i.then, fallback>>))
      new == BuildPackage(plan, <<i.now, fallback>>, i.env)
      result == BuildAndValidate(plan, <<i.now, fallback>>, i.old, i.env)
  IN ~Escapes(FileIds, FileGraph, <<i.then, fallback>>) =>
     \* nothing is dropped without a trace
     /\ {r.id : r \in plan.all} = FileIds
     /\ \A id \in FileIds : ReadSource(ResolvePath(id[2], <<i.then, fallback>>), <<i.then, fallback>>) = Gone
                              <=> \E r \in plan.missing : r.id = id
     \* a published package holds the planned content of every file found,
     \* duplicates included, and its manifest alone says so
     /\ result.final \notin {i.old, NoPackage} =>
          /\ \A r \in plan.all : r.status = "resolved" => Holds(result.final, r)
          /\ ValidateManifest(result.final)
     /\ result.outcome = "report" => result.final = new
     \* the package published before is lost only to the new one
     /\ i.old # NoPackage => i.old \in {result.final, result.backup} \/ result.final = new

SceneKinds == {"eligibility", "scene", "package"}
ScenePackageSound(i) ==
  CASE i.kind = "eligibility" -> EligibilitySound(i)
    [] i.kind = "scene" -> SceneSound(i)
    [] OTHER -> PackageSound(i)

TryScenePackage ==
  \/ Try("adapter", EligibilityTrials)
  \/ Try("adapter", SceneTrials)
  \/ Try("adapter", PackageInputs)
=============================================================================
