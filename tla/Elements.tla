------------------------------ MODULE Elements ------------------------------
(* XML elements the way prose-xmpp builds and reads them with minidom, and    *)
(* the helpers of src/util/element_ext.rs. A namespace is folded into the     *)
(* element's name. An optional value is a set of at most one value, and a     *)
(* parser returns such a set: {} is the error (or the None) of the code.      *)
EXTENDS Naturals, Sequences, TLC

Option(S) ==
    {{}} \cup {{x} : x \in S}

The(option) ==
    CHOOSE x \in option : TRUE

UnwrapOr(option, default) ==
    IF option = {} THEN default ELSE The(option)

Or(option, other) ==
    IF option = {} THEN other ELSE option

\* An element: its attributes are <<name, value>> pairs, its text is the text
\* directly below it.
Element(name, attrs, text, children) ==
    [name |-> name, attrs |-> attrs, text |-> text, children |-> children]

Empty(name, attrs) ==
    Element(name, attrs, "", <<>>)

Leaf(name, text) ==
    Element(name, {}, text, <<>>)

Parent(name, children) ==
    Element(name, {}, "", children)

\* `attr(name, value)` of the builder, for a value that may be missing.
Attr(name, option) ==
    {<<name, x>> : x \in option}

\* `append_all` of an optional text element.
Leaves(name, option) ==
    IF option = {} THEN <<>> ELSE <<Leaf(name, The(option))>>

SE == INSTANCE SequencesExt

Flattened(seqs) ==
    SE!FlattenSeq(seqs)

\* The lists of at most n elements of S.
UpTo(n, S) ==
    UNION {[1 .. k -> S] : k \in 0 .. n}

Each(F(_), seq) ==
    [i \in DOMAIN seq |-> F(seq[i])]

AttrOf(e, name) ==
    {a[2] : a \in {b \in e.attrs : b[1] = name}}

Named(e, names) ==
    SelectSeq(e.children, LAMBDA c : c.name \in names)

FirstOf(seq) ==
    IF seq = <<>> THEN {} ELSE {seq[1]}

LastOf(seq) ==
    IF seq = <<>> THEN {} ELSE {seq[Len(seq)]}

\* `get_child(name).map(text)`
FirstText(e, name) ==
    {c.text : c \in FirstOf(Named(e, {name}))}

\* A loop over the children that overwrites what it found.
LastText(e, name) ==
    {c.text : c \in LastOf(Named(e, {name}))}

NonEmptyText(e) ==
    {e.text} \ {""}

\* `expect_is`: the rest of the parser runs on an element of that name only.
IfNamed(e, name, parsed) ==
    IF e.name = name THEN parsed ELSE {}

\* `option.map(parse).transpose()?`: a missing value is fine, a wrong one is not.
Transposed(option, Parse(_)) ==
    IF option = {} THEN {{}} ELSE {{x} : x \in Parse(The(option))}

\* `collect::<Result<Vec<_>, _>>()?`
Collected(Parse(_), seq) ==
    IF \E i \in DOMAIN seq : Parse(seq[i]) = {}
    THEN {}
    ELSE {[i \in DOMAIN seq |-> The(Parse(seq[i]))]}

\* `filter_map(parse)`
FilterMapped(Parse(_), seq) ==
    LET good == SelectSeq(seq, LAMBDA x : Parse(x) # {})
    IN  [i \in DOMAIN good |-> The(Parse(good[i]))]

AttrBool(name, value) ==
    {<<name, IF value THEN "true" ELSE "false">>}

AttrBoolOpt(name, option) ==
    IF option = {TRUE} THEN AttrBool(name, TRUE) ELSE {}

ParseBool(text) ==
    CASE text \in {"true", "1"} -> {TRUE}
      [] text \in {"false", "0"} -> {FALSE}
      [] OTHER -> {}

\* Numbers and timestamps are written in decimal and read back.
Written(option) ==
    {ToString(n) : n \in option}

ParseNumber(text, max) ==
    {n \in 0 .. max : ToString(n) = text}
=============================================================================
