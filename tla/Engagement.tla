---------------------------- MODULE Engagement -----------------------------
(***************************************************************************)
(* Favourites (internal/favorites) and reviews (internal/reviews) of one   *)
(* product, in a shop that serves several tenants.  The primary key of the  *)
(* table favorites is (user_id, product_id), without the tenant, and so is  *)
(* the unique constraint of reviews.                                       *)
(***************************************************************************)
EXTENDS Integers

CONSTANTS
    Shoppers, Tenants, FavHandlers,
    Ratings,        \* ratings that requests carry, as the integers JSON may hold
    RatingBits,     \* width of the conversion int32(req.Rating)
    NoTenant

VARIABLES
    favs,           \* [Shoppers -> the tenant of the favourite row, or NoTenant]
    reviews,        \* rows [user, tenant, rating]
    fav,            \* per handler, the toggle it serves
    told            \* the last answer each shopper had in each tenant (history)

engVars == <<favs, reviews, fav, told>>

Resting == [at |-> "idle", user |-> CHOOSE u \in Shoppers : TRUE,
            tenant |-> CHOOSE t \in Tenants : TRUE, exists |-> FALSE]

Init ==
    /\ favs = [u \in Shoppers |-> NoTenant]
    /\ reviews = {}
    /\ fav = [h \in FavHandlers |-> Resting]
    /\ told = [u \in Shoppers |-> [t \in Tenants |-> "nothing"]]

----------------------------------------------------------------------------
\* internal/db/gen/favorites.sql.go

CheckFavorite(u, t) == favs[u] = t

\* Mutant: DO UPDATE takes over the row of another tenant.
AddFavorite_Upsert(u, t) == favs' = [favs EXCEPT ![u] = t]

\* ON CONFLICT (user_id, product_id) DO NOTHING: a row of any tenant stays.
AddFavorite(u, t) == favs' = [favs EXCEPT ![u] = IF @ = NoTenant THEN t ELSE @]

RemoveFavorite(u, t) == favs' = [favs EXCEPT ![u] = IF @ = t THEN NoTenant ELSE @]

\* internal/db/gen/reviews.sql.go: one review per user and product, 1 to 5 stars.
CreateReview(u, t, rating) ==
    /\ rating \in 1..5 /\ \A r \in reviews : r.user # u
    /\ reviews' = reviews \union {[user |-> u, tenant |-> t, rating |-> rating]}

----------------------------------------------------------------------------
\* internal/favorites/handler.go

\* POST /favorites, first statement; an error of it counts as "no favourite".
Toggle(h, u, t) ==
    /\ fav[h].at = "idle"
    /\ \E exists \in {CheckFavorite(u, t), FALSE} :
           fav' = [fav EXCEPT ![h] = [at |-> "write", user |-> u, tenant |-> t, exists |-> exists]]
    /\ UNCHANGED <<favs, reviews, told>>

ToggleStatement(h) ==
    IF fav[h].exists THEN RemoveFavorite(fav[h].user, fav[h].tenant)
                     ELSE AddFavorite(fav[h].user, fav[h].tenant)

Answered(h, answer) ==
    /\ told' = [told EXCEPT ![fav[h].user][fav[h].tenant] = answer]
    /\ fav' = [fav EXCEPT ![h] = Resting]
    /\ UNCHANGED reviews

\* Second statement, and the answer.  An Add that met the row of another
\* tenant answers as if it had been stored; told leaves that answer out.
ToggleWrite(h) ==
    /\ fav[h].at = "write"
    /\ ToggleStatement(h)
    /\ Answered(h, IF fav[h].exists THEN "no"
                   ELSE IF favs[fav[h].user] \in {NoTenant, fav[h].tenant} THEN "yes" ELSE "nothing")

\* The second statement fails, with or without its effect: the answer is 500.
ToggleFails(h) ==
    /\ fav[h].at = "write"
    /\ ToggleStatement(h) \/ UNCHANGED favs
    /\ Answered(h, "nothing")

\* int32(req.Rating)
Int32(n) == ((n + 2^(RatingBits - 1)) % 2^RatingBits) - 2^(RatingBits - 1)

\* internal/reviews/handler.go: POST /products/{id}/reviews; what the
\* constraints of the table refuse answers 500.
Create(u, t, rating) ==
    /\ CreateReview(u, t, Int32(rating))
    /\ UNCHANGED <<favs, fav, told>>

Start(h) == \E u \in Shoppers, t \in Tenants : Toggle(h, u, t)
Review   == \E u \in Shoppers, t \in Tenants, rating \in Ratings : Create(u, t, rating)
Step(h)  == ToggleWrite(h) \/ ToggleFails(h)

----------------------------------------------------------------------------
\* What a toggle last answered to a shopper in a tenant is what the table
\* holds, however the two statements of concurrent toggles interleave, also
\* when the first one failed, and whatever happens in the other tenants.
LastAnswerHolds ==
    \A u \in Shoppers, t \in Tenants :
        /\ told[u][t] = "yes" => favs[u] = t
        /\ told[u][t] = "no" => favs[u] # t
=============================================================================
