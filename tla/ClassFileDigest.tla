--------------------------- MODULE ClassFileDigest ---------------------------
(***************************************************************************)
(* The public digest of a class, and which edits of the class it shows.    *)
(* SHA-256 is taken to be injective, so a digest is the value that is      *)
(* hashed.  A descriptor is a sequence of characters, because the code     *)
(* does not hash all of them.  The bytes of an attribute are the numbers   *)
(* of the constants it mentions, which are in the constant pool of the     *)
(* class: the bytes are hashed, not the constants.                         *)
(***************************************************************************)
EXTENDS Naturals, Sequences, SequencesExt

CONSTANTS
  Names,         \* of classes and members
  Descriptors,   \* sequences of characters
  Interfaces,    \* names, as sequences of characters
  Kinds,         \* which members are edited: methods, fields
  MaxMembers     \* methods, fields or interfaces of a class

ClassAssumption ==
  /\ Kinds \subseteq {"methods", "fields"}
  /\ \A d \in Descriptors \cup Interfaces: d \in Seq(Names \cup {"("}) /\ d # <<>>

VARIABLE class

\* The digest of nothing; no hash is all zeros
Zero == {}

Pool == <<"x", "y">>

Attribute(name, info) == [name |-> name, info |-> info]

\* Of members, and of the class itself
Attributes ==
  {{}, {Attribute("Deprecated", <<>>)}}
    \cup {{Attribute(n, <<i>>)} : n \in {"Code", "Signature"}, i \in DOMAIN Pool}

ClassAttributes ==
  {{}, {Attribute("Deprecated", <<>>)}}
    \cup {{Attribute(n, <<1>>)} : n \in {"SourceFile", "Signature"}}

Member == [name: Names, descriptor: Descriptors, public: BOOLEAN, attributes: Attributes]

\* digestSet() over a std::set
digestSet(digests) == digests \cup Zero

codeToo_Bug(attributes) ==
  digestSet({a.info : a \in {b \in attributes: b.info # <<>>}})

\* Code is skipped, and attributes that are empty; the name is not hashed
digestAttributes(attributes) ==
  digestSet({a.info : a \in {b \in attributes: b.name # "Code" /\ b.info # <<>>}})

\* append(utf8Info.bytes): the array is declared with one element
append(utf8) == Head(utf8)

digestField(f) ==
  <<f.name, digestAttributes(f.attributes), digestAttributes(f.attributes),
    append(f.descriptor), f.public>>

digestMethod(f) ==
  <<f.name, digestAttributes(f.attributes), append(f.descriptor), f.public>>

digestPublicMethods(ms) ==
  digestSet({digestMethod(m) : m \in {n \in ToSet(ms): n.public}})

digestPublicFields(fs) ==
  digestSet({digestField(f) : f \in {g \in ToSet(fs): g.public}})

\* digestInterface() hashes utf8Info.bytes of the name
digestInterfaces(is) == digestSet({append(i) : i \in ToSet(is)})

digestClassInfo(name) == IF name = "none" THEN Zero ELSE {name}

digest(c) ==
  <<digestClassInfo(c.this), digestClassInfo(c.super), digestAttributes(c.attributes),
    digestPublicMethods(c.methods), digestPublicFields(c.fields),
    digestInterfaces(c.interfaces), c.public>>

-----------------------------------------------------------------------------
(* Edits of a class                                                        *)

Init ==
  class = [this |-> CHOOSE n \in Names: TRUE, super |-> "none", public |-> TRUE,
           attributes |-> {}, methods |-> <<>>, fields |-> <<>>, interfaces |-> <<>>, pool |-> Pool]

Replace(s, i, new) == [s EXCEPT ![i] = new]

addMember(kind, m) ==
  /\ Len(class[kind]) < MaxMembers
  /\ class' = [class EXCEPT ![kind] = Append(@, m)]

removeMember(kind, i) ==
  /\ i \in DOMAIN class[kind]
  /\ class' = [class EXCEPT ![kind] = RemoveAt(@, i)]

reorder(kind) == class' = [class EXCEPT ![kind] = Reverse(@)]

editMember(kind, i, m) ==
  /\ i \in DOMAIN class[kind]
  /\ class' = [class EXCEPT ![kind] = Replace(@, i, m)]

editHeader ==
  \/ \E n \in Names \cup {"none"}: class' = [class EXCEPT !.super = n]
  \/ \E a \in ClassAttributes: class' = [class EXCEPT !.attributes = a]
  \/ \E p \in BOOLEAN: class' = [class EXCEPT !.public = p]
  \/ \E is \in {<<>>} \cup {<<n>> : n \in Interfaces}: class' = [class EXCEPT !.interfaces = is]

\* Other constants take the places of those in the pool
editConstants == class' = [class EXCEPT !.pool = Reverse(@)]

\* The constants are numbered in another way, as a compiler may do it; the
\* attributes mention the same constants as before
renumber ==
  LET other(i) == Len(class.pool) + 1 - i
      Moved(attributes) == {[a EXCEPT !.info = [j \in DOMAIN @ |-> other(@[j])]] : a \in attributes}
      MovedMembers(ms) == [i \in DOMAIN ms |-> [ms[i] EXCEPT !.attributes = Moved(@)]]
  IN class' = [class EXCEPT !.pool = Reverse(@), !.attributes = Moved(@),
                            !.methods = MovedMembers(@), !.fields = MovedMembers(@)]

Next ==
  \/ editHeader \/ editConstants \/ renumber
  \/ \E kind \in Kinds:
       \/ reorder(kind)
       \/ \E m \in Member: addMember(kind, m)
       \/ \E i \in 1..MaxMembers: removeMember(kind, i) \/ \E m \in Member: editMember(kind, i, m)

Spec == Init /\ [][Next]_class

-----------------------------------------------------------------------------

PublicMembers(c, kind) == {m \in ToSet(c[kind]): m.public}

\* Attributes that concern other classes
Outer(attributes) == {a \in attributes: a.name # "Code"}

\* An attribute with the constants it mentions
Meaning(c, a) == <<a.name, [i \in DOMAIN a.info |-> c.pool[a.info[i]]]>>

Meanings(c, attributes) == {Meaning(c, a) : a \in Outer(attributes)}

\* What other classes see of a class
Visible(c) ==
  [this |-> c.this, super |-> c.super, public |-> c.public,
   attributes |-> Meanings(c, c.attributes),
   interfaces |-> ToSet(c.interfaces),
   members |-> [kind \in Kinds |->
     {<<m.name, m.descriptor, Meanings(c, m.attributes)>> : m \in PublicMembers(c, kind)}]]

VisibleAttributes(c) ==
  Outer(c.attributes)
    \cup UNION {Outer(m.attributes) : m \in UNION {PublicMembers(c, kind) : kind \in Kinds}}

\* The numbers that visible attributes mention stand for the same constants
ConstantsStay(c, d) ==
  \A a \in VisibleAttributes(c) \cup VisibleAttributes(d):
    \A i \in ToSet(a.info): c.pool[i] = d.pool[i]

Texts(c) ==
  ToSet(c.interfaces) \cup {m.descriptor : m \in UNION {PublicMembers(c, kind) : kind \in Kinds}}

\* Interfaces and descriptors that are not the same differ in their first
\* characters, attributes that are not the same in their bytes, and none is
\* empty, as Deprecated is
ToldApart(c, d) ==
  /\ \A s, t \in Texts(c) \cup Texts(d): Head(s) = Head(t) => s = t
  /\ \A a, b \in VisibleAttributes(c) \cup VisibleAttributes(d):
       a.info # <<>> /\ (a.info = b.info => a.name = b.name)

ShowsVisibleEdit ==
  ConstantsStay(class, class') =>
    /\ Visible(class) = Visible(class') => digest(class) = digest(class')
    /\ ToldApart(class, class') /\ digest(class) = digest(class') => Visible(class) = Visible(class')

\* As long as the constants that are mentioned keep their numbers, an edit that
\* other classes do not see leaves the digest as it is: new bodies, private
\* members, another order of members, constants that only bodies mention.  One
\* that they see changes it, if the class files are ToldApart: what is hashed of
\* an interface or a descriptor is its first character, of an attribute its bytes
DigestShowsVisibleEdits == [][ShowsVisibleEdit]_class

PublicMethods(c) == {<<m.name, m.descriptor>> : m \in {n \in ToSet(c.methods): n.public}}

Distinguishes == digest(class) = digest(class') => PublicMethods(class) = PublicMethods(class')

\* Different classes have different digests, also when they differ in the
\* parameters of a public method
DistinguishesDifferentClasses == [][Distinguishes]_class

=============================================================================
