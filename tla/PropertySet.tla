---------------------------- MODULE PropertySet ----------------------------
(***************************************************************************)
(* Sets of properties and the layers an action reads them through:         *)
(* tools/property_set.cpp, tools/property.h and the property accessors of  *)
(* core/action.cpp.                                                        *)
(*                                                                         *)
(* The five maps of a PropertySet are one function here, from a kind and a *)
(* key to the property.  Set on a new key leaves the exposed flag of the   *)
(* new property unset; nothing reads it: only addAction looks at exposed   *)
(* flags, of sets that are guarded and gain properties by Define alone.    *)
(***************************************************************************)
LOCAL INSTANCE Sequences
LOCAL INSTANCE Integers

\* A map of one entry; a map with entries set or added.
Entry(key, value) == [k \in {key} |-> value]
new ++ old == [k \in DOMAIN new \cup DOMAIN old |-> IF k \in DOMAIN new THEN new[k] ELSE old[k]]

Kind == {"bool", "double", "uint", "string", "custom"}

\* What a read that throws (std::map::at) stands for.
Thrown == "thrown"

Property(value, exposed) == [value |-> value, exposed |-> exposed]

Unguarded == [guarded |-> FALSE, props |-> << >>]
Guarded   == [guarded |-> TRUE, props |-> << >>]

Holds(ps, kind, key) == <<kind, key>> \in DOMAIN ps.props

\* hasProperty, whatever the kind.
Has(ps, key) == \E kind \in Kind : Holds(ps, kind, key)

\* Keys that are exposed, in some kind.
ExposedKeys(ps) == {p[2] : p \in {q \in DOMAIN ps.props : ps.props[q].exposed}}

\* set...Property(const Property &): whole, guarded or not.
Take(ps, kind, key, p) == [ps EXCEPT !.props = Entry(<<kind, key>>, p) ++ @]

Define(ps, kind, key, value, exposed) == Take(ps, kind, key, Property(value, exposed))

\* set...Property(key, value): refused by a guarded set that does not hold it.
Set(ps, kind, key, value) ==
    IF Holds(ps, kind, key) THEN [ps EXCEPT !.props[<<kind, key>>].value = value]
    ELSE IF ps.guarded THEN ps
    ELSE Define(ps, kind, key, value, FALSE)

\* get...Property.  getUintProperty asks the custom values and reads the
\* unsigned ones.
Get(ps, kind, key, default) ==
    LET asked == IF kind = "uint" THEN "custom" ELSE kind
    IN  IF ~Holds(ps, asked, key) THEN default
        ELSE IF Holds(ps, kind, key) THEN ps.props[<<kind, key>>].value
        ELSE Thrown

\* The first of the layers that holds the key, in whatever kind.
FirstLayer(layers, key) ==
    LET having == {i \in 1 .. Len(layers) : Has(layers[i], key)}
    IN  IF having = {} THEN Unguarded
        ELSE layers[CHOOSE i \in having : \A j \in having : i <= j]

\* Action::boolProperty and the others: what the session holds for this action,
\* what it holds for all, what the action holds.
Read(layers, kind, key, default) == Get(FirstLayer(layers, key), kind, key, default)

\* A property saved and loaded: Property<ContextPtr>::load makes a value and keeps
\* it nowhere.
ReloadedValue(kind, p) == IF kind = "custom" THEN [p EXCEPT !.value = "nil"] ELSE p

\* save, then load into ps.
Reloaded(ps, saved) ==
    [guarded |-> saved.guarded,
     props |-> [k \in DOMAIN saved.props |-> ReloadedValue(k[1], saved.props[k])]
               ++ ps.props]

=============================================================================
