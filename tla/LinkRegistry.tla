----------------------------- MODULE LinkRegistry -----------------------------
(***************************************************************************)
(* What the shortener promises its users, without goroutines, locks,       *)
(* statements or crashes: a registry that only grows.  A link binds a code *)
(* to the URL a user sent; a user's URL has one code and a code belongs to *)
(* one link; only registered links are handed out; a link is named at most *)
(* once, after a page.                                                     *)
(***************************************************************************)
CONSTANTS Users, URLs, Codes, StoredTitle

Binding == [code : Codes, user : Users, url : URLs]

VARIABLES
    registry,  \* the links that exist
    issued,    \* the links handed out to their users
    named      \* the titles given so far

registryVars == <<registry, issued, named>>

RegistryTypeOK ==
    /\ registry \subseteq Binding
    /\ issued \subseteq registry
    /\ named \subseteq [code : Codes, title : StoredTitle]

Init ==
    /\ registry = {}
    /\ issued = {}
    /\ named = {}

Conflicts(a, b) == a.code = b.code \/ (a.user = b.user /\ a.url = b.url)

Register(new) ==
    /\ \A old \in registry : ~Conflicts(old, new)
    /\ registry' = registry \cup {new}
    /\ UNCHANGED <<issued, named>>

Issue(binding) ==
    /\ binding \in registry
    /\ issued' = issued \cup {binding}
    /\ UNCHANGED <<registry, named>>

Name(binding, title) ==
    /\ binding \in registry
    /\ title.page = binding.url
    /\ \A n \in named : n.code # binding.code
    /\ named' = named \cup {[code |-> binding.code, title |-> title]}
    /\ UNCHANGED <<registry, issued>>

Next ==
    \E binding \in Binding :
        \/ Register(binding)
        \/ Issue(binding)
        \/ \E title \in StoredTitle : Name(binding, title)

Spec == Init /\ [][Next]_registryVars

=============================================================================
