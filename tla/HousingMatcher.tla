--------------------------- MODULE HousingMatcher ---------------------------
(***************************************************************************)
(* How a listing's facts are judged against the owner's requirements, and  *)
(* how photographs complete the facts: pipeline/housing/requirements.py    *)
(* and vision.py as functions.  A value nobody stated is Unstated; where a *)
(* value came from decides what it may prove.                              *)
(***************************************************************************)
EXTENDS Integers

Unstated == -1
Counts == Nat \cup {Unstated}

PropertyTypes == {"house", "apartment", "room", "hotel"}
Sources == {"text", "vision", "unknown"}
VisionStates == {"not_attempted", "pending", "done", "error"}

\* The columns of housing_live_facts that decide something.
Facts ==
    [offer : {"yes", "no", "unread"},
     bedrooms : Counts,
     bathrooms : Counts, bathroomsSource : Sources,
     type : PropertyTypes \cup {"unstated"}, typeSource : Sources,
     price : Counts,
     terrace : BOOLEAN,
     vision : VisionStates]

\* A revision of the requirements: four hard criteria, each optional, and one
\* of the preferences, which can only ask for photographs.  A rent may be asked
\* for with both of its bounds left open.
Definitions ==
    [bedrooms : Counts, bathrooms : Counts,
     type : PropertyTypes \cup {"unstated"},
     rent : BOOLEAN, rentMin : Counts, rentMax : Counts,
     terrace : BOOLEAN]

Criteria == {"bedrooms", "bathrooms", "type", "rent"}

Asked(q, c) ==
    \/ c = "bedrooms" /\ q.bedrooms # Unstated
    \/ c = "bathrooms" /\ q.bathrooms # Unstated
    \/ c = "type" /\ q.type # "unstated"
    \/ c = "rent" /\ q.rent

\* A text states the whole property; a photograph only its frame, so a count
\* or a type seen in one never refutes a criterion.
Violates(f, q, c) ==
    \/ /\ c = "bedrooms"
       /\ f.bedrooms # Unstated /\ f.bedrooms < q.bedrooms
    \/ /\ c = "bathrooms"
       /\ f.bathrooms # Unstated /\ f.bathrooms < q.bathrooms
       /\ f.bathroomsSource # "vision"
    \/ /\ c = "type"
       /\ f.type \notin {"unstated", q.type}
       /\ f.typeSource = "text"
    \/ /\ c = "rent"
       /\ f.price # Unstated
       /\ \/ q.rentMin # Unstated /\ f.price < q.rentMin
          \/ q.rentMax # Unstated /\ f.price > q.rentMax

Satisfies(f, q, c) ==
    /\ ~Violates(f, q, c)
    /\ \/ c = "bedrooms" /\ f.bedrooms # Unstated
       \/ c = "bathrooms" /\ f.bathrooms # Unstated /\ f.bathrooms >= q.bathrooms
       \/ c = "type" /\ f.type = q.type
       \/ c = "rent" /\ f.price # Unstated

Verdicts == {"hard_miss", "possible", "confirmed"}

\* match_requirements: one refuted criterion rejects, one open one keeps the
\* verdict at possible, preferences decide nothing.
Judge(f, q) ==
    IF \E c \in Criteria : Asked(q, c) /\ Violates(f, q, c) THEN "hard_miss"
    ELSE IF \A c \in Criteria : Asked(q, c) => Satisfies(f, q, c) THEN "confirmed"
    ELSE "possible"

Admits(verdict) == verdict # "hard_miss"

Open(f, q, c) == Asked(q, c) /\ ~Violates(f, q, c) /\ ~Satisfies(f, q, c)

\* What a photograph could answer (_request_photographs).
Answerable(f, q) ==
    \/ Open(f, q, "bathrooms")
    \/ Open(f, q, "type")
    \/ q.terrace /\ ~f.terrace

(***************************************************************************)
(* A reading of the photographs.  "unsure" is a reading below the          *)
(* confidence floor, or of pictures that do not show the listing.          *)
(***************************************************************************)
Readings ==
    [status : {"usable", "unsure", "error"},
     bathrooms : Counts, house : BOOLEAN, terrace : BOOLEAN]

\* HousingVisionExtractor.read asks the model for all the fields and builds the
\* reading without property_type_visible and terrace_visible.
Parsed(seen) == [seen EXCEPT !.house = FALSE, !.terrace = FALSE]

\* VisionReading.merged_into: fills only what the text left open, and never
\* replaces a count by a smaller one.
CountsBetter(f, r) ==
    /\ f.bathroomsSource # "text"
    /\ r.bathrooms # Unstated
    /\ f.bathrooms = Unstated \/ r.bathrooms > f.bathrooms

ShowsHouse(f, r) == f.typeSource # "text" /\ r.house

Merged(f, r) ==
    IF r.status # "usable" THEN f
    ELSE [f EXCEPT
            !.bathrooms = IF CountsBetter(f, r) THEN r.bathrooms ELSE @,
            !.bathroomsSource = IF CountsBetter(f, r) THEN "vision" ELSE @,
            !.type = IF ShowsHouse(f, r) THEN "house" ELSE @,
            !.typeSource = IF ShowsHouse(f, r) THEN "vision" ELSE @,
            !.terrace = @ \/ r.terrace]

FinalStatus(r) == IF r.status = "error" THEN "error" ELSE "done"
=============================================================================
