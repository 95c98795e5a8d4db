----------------------------- MODULE Templates -----------------------------
(***************************************************************************)
(* Application templates: registering a blueprint, previewing it with the  *)
(* caller's values and deploying it.  JSON documents are maps of leaves    *)
(* and maps; defaults, values and the base of the payload are merged.      *)
(***************************************************************************)
EXTENDS Naturals, Sequences

CONSTANTS
    JsonKeys,     \* the keys the documents use
    Documents,    \* JSON objects: functions from keys to JSON values
    Null,         \* the JSON null, a leaf
    Source,       \* the key of the delivery source in a payload
    MaxTemplates  \* bound on the templates registered

ASSUME TemplatesAssumption == MaxTemplates \in Nat

VARIABLES
    catalog,  \* the templates table: a sequence, appended to and never changed
    rendered  \* the last preview or deploy

templateVars == <<catalog, rendered>>

\* A JSON value is [map |-> an object] or [leaf |-> anything else].
IsMap(v) == "map" \in DOMAIN v
EmptyDoc == [k \in {} |-> 0]

\* Mutant: a map of the overlay replaces the map of the base.
mergeShallow(base, overlay) ==
    [k \in DOMAIN base \cup DOMAIN overlay |->
       IF k \in DOMAIN overlay THEN overlay[k] ELSE base[k]]

\* mergeMaps: maps are merged, everything else of the overlay replaces.
RECURSIVE mergeMaps(_, _)
mergeMaps(base, overlay) ==
    [k \in DOMAIN base \cup DOMAIN overlay |->
       IF k \notin DOMAIN overlay THEN base[k]
       ELSE IF IsMap(overlay[k]) /\ k \in DOMAIN base /\ IsMap(base[k])
         THEN [map |-> mergeMaps(base[k].map, overlay[k].map)]
         ELSE overlay[k]]

\* A schema is the set of keys that must be there, each with a map or a leaf.
Validates(schema, doc) ==
    \A k \in DOMAIN schema : k \in DOMAIN doc /\ IsMap(doc[k]) = (schema[k] = "map")

\* The delivery template writes the values it names into the payload.
Execute(delivery, values) == [k \in DOMAIN values \cap delivery |-> values[k]]

\* renderTemplate: "failed", or the payload of the app to deploy.
renderTemplate(tpl, input) ==
    LET mergedValues == mergeMaps(tpl.defaults, input)
        specMap == Execute(tpl.delivery, mergedValues)
        mergedSpec == mergeMaps(tpl.base, specMap)
        complete == /\ Source \in DOMAIN mergedSpec
                    /\ ~IsMap(mergedSpec[Source]) /\ mergedSpec[Source].leaf # Null
    IN  IF Validates(tpl.schema, mergedValues) /\ specMap # EmptyDoc /\ complete
          THEN [ok |-> TRUE, values |-> mergedValues, app |-> mergedSpec]
          ELSE [ok |-> FALSE]

Schemas == [{Source} -> {"leaf"}] \cup {EmptyDoc}
Deliveries == {{Source}, JsonKeys}

TemplatesInit == catalog = <<>> /\ rendered = [ok |-> FALSE]

-----------------------------------------------------------------------------
\* CreateTemplate: the defaults satisfy the schema and render.
CreateTemplate(tpl) ==
    /\ Len(catalog) < MaxTemplates
    /\ tpl.defaults # EmptyDoc
    /\ Validates(tpl.schema, tpl.defaults)
    /\ renderTemplate(tpl, EmptyDoc).ok
    /\ catalog' = Append(catalog, tpl)
    /\ UNCHANGED rendered

\* RenderTemplate, and DeployTemplate up to the deploy of the app.
RenderTemplate(id, values) ==
    LET r == renderTemplate(catalog[id], values)
    IN  /\ r.ok
        /\ rendered' = [ok |-> TRUE, id |-> id, input |-> values, values |-> r.values,
                        app |-> r.app]
        /\ UNCHANGED catalog

TemplatesNext ==
    \/ \E d, b \in Documents, s \in Schemas, t \in Deliveries :
         CreateTemplate([defaults |-> d, base |-> b, schema |-> s, delivery |-> t])
    \/ \E id \in DOMAIN catalog, v \in Documents : RenderTemplate(id, v)

-----------------------------------------------------------------------------
\* The value at a path of keys, if there is one.
RECURSIVE Has(_, _)
Has(doc, p) == Head(p) \in DOMAIN doc
               /\ (Len(p) > 1 => IsMap(doc[Head(p)]) /\ Has(doc[Head(p)].map, Tail(p)))
RECURSIVE At_(_, _)
At_(doc, p) == IF Len(p) = 1 THEN doc[p[1]] ELSE At_(doc[p[1]].map, Tail(p))
Leaf(doc, p) == Has(doc, p) /\ ~IsMap(At_(doc, p))
Paths == {<<k>> : k \in JsonKeys} \cup {<<j, k>> : j, k \in JsonKeys}
LeavesOf(doc) == {<<p, At_(doc, p)>> : p \in {q \in Paths : Leaf(doc, q)}}

\* What is rendered has every leaf the caller gave, and exactly those of the
\* defaults that the caller gave nothing for: no value at the same path and no
\* leaf above it.  Read path by path, this is what merging is for (mergeMaps).
CallerWinsByPath ==
    rendered.ok =>
      LET in == rendered.input
          kept(p) == ~Has(in, p) /\ \A n \in 1..(Len(p) - 1) : ~Leaf(in, SubSeq(p, 1, n))
      IN  LeavesOf(rendered.values) =
            LeavesOf(in) \cup {x \in LeavesOf(catalog[rendered.id].defaults) : kept(x[1])}
=============================================================================
