--------------------------------- MODULE Schema ---------------------------------
(***************************************************************************)
(* A PostgreSQL schema as the migrations see it: the set of its elements.  *)
(* An element is a table <<t>>, something of a table <<t, x>> (a column, an *)
(* index, rows worth keeping), an enum type <<"type", e>> or a label added  *)
(* to one later <<"type", e, l>>.  The columns a table was first made with  *)
(* are one element, <<t, "columns">>.  Declared is what the models of the  *)
(* application need.                                                       *)
(***************************************************************************)
EXTENDS Naturals, Sequences, SequencesExt, TLC

Table(t) == {<<t>>, <<t, "columns">>}
Of(t, names) == {<<t, n>> : n \in names}
Types(names) == {<<"type", n>> : n \in names}
Labels(type, names) == {<<"type", type, n>> : n \in names}

Under(db, elements) == {x \in db : \E e \in elements : IsPrefix(e, x)}

\* What tables and columns refer to: foreign keys and enum types.
ToUsers == {<<"users">>}
Links ==
    <<"temple_members">> :> ToUsers
 @@ <<"announcements">> :> ToUsers
 @@ <<"announcements", "source_festival_id">> :> {<<"festivals">>}
 @@ <<"gallery">> :> ToUsers
 @@ <<"contact_messages">> :> Types({"contactstatus"})
 @@ <<"expense_transactions">> :> Types({"expensecategory", "paymentmode"}) \union ToUsers
 @@ <<"expense_transactions", "status">> :> Types({"expensestatus"})
 @@ <<"expense_transactions", "festival_id">> :> {<<"festivals">>}
 @@ <<"income_transactions">> :> Types({"incomesourcetype", "paymentmode"}) \union ToUsers
 @@ <<"seva_tickets">> :> Types({"paymentstatus", "ticketstatus", "ticketsource"}) \union {<<"poojas">>} \union ToUsers
 @@ <<"seva_tickets", "booked_by_user_id">> :> ToUsers
 @@ <<"donors", "payment_mode">> :> Types({"paymentmode"})
 @@ <<"donations">> :> {<<"donors">>} \union Types({"paymentmode"}) \union ToUsers
 @@ <<"audit_logs">> :> ToUsers
 @@ <<"password_reset_tokens">> :> ToUsers
 @@ <<"occasion_blessings">> :> Types({"blessingpaymentstatus"}) \union ToUsers
 @@ <<"abhishekams">> :> Types({"abhishekampaymentstatus"}) \union ToUsers
 @@ <<"abhishekams", "visibility">> :> Types({"abhishekamvisibility"})
 @@ <<"expense_budgets">> :> Types({"expensecategory"}) \union ToUsers
 @@ <<"inventory_items">> :> Types({"itemkind", "assetcondition"}) \union ToUsers
 @@ <<"stock_movements">> :> {<<"inventory_items">>, <<"expense_transactions">>, <<"poojas">>, <<"festivals">>}
                               \union Types({"movementtype"}) \union ToUsers
 @@ <<"asset_verifications">> :> {<<"inventory_items">>} \union Types({"assetcondition"}) \union ToUsers
 @@ <<"letter_images">> :> {<<"temple_members">>} \union Types({"letterimagekind"}) \union ToUsers
 @@ <<"official_letters">> :> {<<"letter_images">>} \union Types({"letterkind", "letterstatus"}) \union ToUsers
 @@ <<"letter_signatories">> :> {<<"official_letters">>, <<"temple_members">>, <<"letter_images">>}
                                  \union Types({"signatoryrole", "signatorystatus"}) \union ToUsers

Needs(e) == (IF Len(e) > 1 /\ e[1] # "type" THEN {<<e[1]>>} ELSE IF Len(e) = 3 THEN {<<e[1], e[2]>>} ELSE {})
              \union (IF e \in DOMAIN Links THEN Links[e] ELSE {})
Sound(db) == \A e \in db : Needs(e) \subseteq db
-----------------------------------------------------------------------------
(* What each model declares beyond the columns its table was made with *)

User == Table("users") \union Of("users", {"terms_accepted_at", "email_verified_at", "token_version"})
TempleMember == Table("temple_members") \union Of("temple_members", {"show_on_website", "sort_order", "photo_url"})
Donor == Table("donors")
Donation == Table("donations") \union Of("donations", {"receipt_s3_key", "occasion"})
Announcement == Table("announcements") \union Of("announcements", {"source_festival_id"})
Festival == Table("festivals")
    \union Of("festivals", {"end_date", "location", "image_url", "auto_announce", "announce_days_before", "source_key"})
Pooja == Table("poojas") \union Of("poojas", {"sort_order", "daily_slot_cap", "public_blessings"})
Gallery == Table("gallery") \union Of("gallery", {"sort_order"})
Profile == {"tagline", "address", "pincode", "map_url", "whatsapp_number", "hero_image_url",
            "facebook_url", "instagram_url", "youtube_url"}
Trust == {"bank_account_name", "registration_number", "pan_number", "eighty_g_number"}
Temple == Table("temples") \union Of("temples", Profile \union Trust \union {"upi_vpa", "tv_sections"})
TempleTiming == Table("temple_timings")
AuditLog == Table("audit_logs")
ContactMessage == Table("contact_messages")
VisitorLog == Table("visitor_logs")
EmailOtp == Table("email_otps")
PasswordResetToken == Table("password_reset_tokens")
SevaTicket == Table("seva_tickets") \union Labels("paymentstatus", {"PENDING"})
    \union Of("seva_tickets", {"pdf_s3_key", "email", "booked_by_user_id", "occasion", "greeting_sent_at",
                               "photo_url", "photo_key", "show_publicly", "review_status"})
IncomeTransaction == Table("income_transactions") \union Labels("incomesourcetype", {"ABHISHEKAM"})
Workflow == {"submitted_by", "decided_at", "rejection_reason", "voided_by", "voided_at", "void_reason",
             "bill_key", "festival_id"}
NewCategories == Labels("expensecategory", {"POOJA_SUPPLIES", "ANNADANAM", "UTILITIES", "CONSTRUCTION", "ASSETS"})
ExpenseTransaction == Table("expense_transactions") \union Of("expense_transactions", Workflow \union {"status"})
    \union Table("expense_budgets") \union NewCategories
Stock == Table("inventory_items") \union Table("stock_movements") \union Table("asset_verifications")
NewKinds == Labels("letterkind", {"POWER_OF_ATTORNEY", "RESOLUTION", "AUTHORISATION"})
OfficialLetter == Table("letter_images") \union Table("official_letters") \union Table("letter_signatories")
    \union NewKinds

\* check_schema: every column of every model, and the labels of their enums.
Declared == UNION {User, TempleMember, Donor, Donation, Announcement, Festival, Pooja, Gallery, Temple, TempleTiming,
                   AuditLog, ContactMessage, VisitorLog, EmailOtp, PasswordResetToken, SevaTicket, IncomeTransaction,
                   ExpenseTransaction, Stock, OfficialLetter}
=============================================================================
