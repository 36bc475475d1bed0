----------------------------- MODULE MCBackend ------------------------------
(* Instances of Backend small enough for TLC: every family of routes with   *)
(* two users, two requests in flight, and the bound on requests it needs    *)
(* for its properties to be at stake.                                       *)
EXTENDS Backend

CONSTANTS ann, bob, p1, p2, mobile, laptop, number

MCTables == RelationTables \cup ModerationTables \cup ChatTables \cup FeedTables
            \cup GroupTables \cup SessionTables \cup SocialTables \cup CatalogTables
MCContents == {{}, {"phishing"}}

Scene(routes, requests) == [routes |-> routes, requests |-> requests]

MCScenes ==
    {Scene({f}, 3) : f \in {"relations", "moderation", "sessions", "tokens", "polls",
                            "uploads", "accounts"}} \cup
    {Scene({f}, 2) : f \in {"extras", "posts", "marks", "groups", "social", "catalog"}} \cup
    {Scene({"messages", "blocks"}, 2), Scene({"decisions", "messages"}, 2),
     Scene({"members", "blocks"}, 3)}

Symmetry == Permutations(Users) \cup Permutations(Workers)
=============================================================================
