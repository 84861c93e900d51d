----------------------------- MODULE Catalogue -----------------------------
(***************************************************************************)
(* What the code declares about the records it keeps through the REST API  *)
(* and the admin pages: one group of definitions per table.                *)
(*                                                                         *)
(*   ...Db       the table as the migrations create it: foreign keys (no   *)
(*               ON DELETE anywhere), unique keys, NOT NULL columns        *)
(*   ...Model    the ORM class: columns, the same constraints, and the     *)
(*               columns the ORM fills by itself on INSERT                 *)
(*   ...Schema   what a Create and an Update body may name, and what Read  *)
(*               declares as never null                                    *)
(*   ...Service  references looked up on create and, again, on update, and *)
(*               what delete does: remove the row, reset a column, nothing *)
(*   ...Api      routes that change records                                *)
(*   ...Web      columns the create and the edit form of the admin page    *)
(*               post, and whether it has a delete button                  *)
(*                                                                         *)
(* A table's columns here are its references, its key columns, the column  *)
(* delete resets, and one column for each further way a column can be      *)
(* treated (NOT NULL or not in the migration, never null in Read or not):  *)
(* the others behave as these do.                                          *)
(***************************************************************************)

(* No foreign keys, and no admin page that writes.                          *)
NoRefs == <<>>
NoPages == [create |-> {}, edit |-> {}, delete |-> FALSE]

-----------------------------------------------------------------------------
(* products *)

ProductsDb ==
  [refs |-> NoRefs, keys |-> {}, required |-> {"is_active", "name"}]
ProductsModel ==
  [columns |-> {"is_active", "name"}, refs |-> NoRefs, keys |-> {},
   filled |-> {"is_active"}]
ProductsSchema ==
  [create |-> {"is_active", "name"}, patch |-> {"is_active", "name"},
   shown |-> {"is_active", "name"}]
ProductsService == [checked |-> {}, rechecked |-> {}, remove |-> "is_active"]
ProductsApi == {"create", "patch", "delete"}
ProductsWeb ==
  [create |-> {"is_active", "name"}, edit |-> {"is_active", "name"},
   delete |-> TRUE]

-----------------------------------------------------------------------------
(* prices *)

PricesDb ==
  [refs |-> [product_id |-> "products"], keys |-> {{"lookup_key"}},
   required |-> {"product_id", "is_active", "currency"}]
PricesModel ==
  [columns |-> {"product_id", "lookup_key", "is_active", "currency", "billing_scheme"},
   refs |-> [product_id |-> "products"], keys |-> {{"lookup_key"}},
   filled |-> {"is_active", "billing_scheme"}]
PricesSchema ==
  [create |-> {"product_id", "lookup_key", "is_active", "currency", "billing_scheme"},
   patch |-> {"lookup_key", "is_active", "currency", "billing_scheme"},
   shown |-> {"product_id", "is_active", "currency", "billing_scheme"}]
PricesService ==
  [checked |-> {"product_id"}, rechecked |-> {}, remove |-> "is_active"]
PricesApi == {"create", "patch", "delete"}
PricesWeb ==
  [create |-> {"product_id", "lookup_key", "is_active", "currency", "billing_scheme"},
   edit |-> {"lookup_key", "is_active", "currency", "billing_scheme"},
   delete |-> TRUE]

-----------------------------------------------------------------------------
(* customers *)

CustomersDb ==
  [refs |-> [person_id |-> "people"], keys |-> {{"person_id"}},
   required |-> {"is_active", "name"}]
CustomersModel ==
  [columns |-> {"person_id", "is_active", "name", "currency"},
   refs |-> [person_id |-> "people"], keys |-> {{"person_id"}},
   filled |-> {"is_active", "currency"}]
CustomersSchema ==
  [create |-> {"person_id", "is_active", "name", "currency"},
   patch |-> {"person_id", "is_active", "name", "currency"},
   shown |-> {"is_active", "name", "currency"}]
CustomersService == [checked |-> {}, rechecked |-> {}, remove |-> "is_active"]
CustomersApi == {"create", "patch", "delete"}
CustomersWeb ==
  [create |-> {"is_active", "name", "currency"},
   edit |-> {"is_active", "name", "currency"}, delete |-> TRUE]

-----------------------------------------------------------------------------
(* subscriptions *)

SubscriptionsDb ==
  [refs |-> [customer_id |-> "customers"], keys |-> {},
   required |-> {"customer_id", "is_active"}]
SubscriptionsModel ==
  [columns |-> {"customer_id", "is_active", "status"},
   refs |-> [customer_id |-> "customers"], keys |-> {},
   filled |-> {"is_active", "status"}]
SubscriptionsSchema ==
  [create |-> {"customer_id", "is_active", "status"},
   patch |-> {"is_active", "status"},
   shown |-> {"customer_id", "is_active", "status"}]
SubscriptionsService ==
  [checked |-> {"customer_id"}, rechecked |-> {}, remove |-> "is_active"]
SubscriptionsApi == {"create", "patch", "delete"}
SubscriptionsWeb ==
  [create |-> {}, edit |-> {"is_active", "status"}, delete |-> TRUE]

-----------------------------------------------------------------------------
(* subscription_items *)

SubscriptionItemsDb ==
  [refs |-> [price_id |-> "prices", subscription_id |-> "subscriptions"],
   keys |-> {{"subscription_id", "price_id"}},
   required |-> {"price_id", "subscription_id", "is_active"}]
SubscriptionItemsModel ==
  [columns |-> {"price_id", "subscription_id", "is_active", "quantity"},
   refs |-> [price_id |-> "prices", subscription_id |-> "subscriptions"],
   keys |-> {{"subscription_id", "price_id"}},
   filled |-> {"is_active", "quantity"}]
SubscriptionItemsSchema ==
  [create |-> {"price_id", "subscription_id", "is_active", "quantity"},
   patch |-> {"is_active", "quantity"},
   shown |-> {"price_id", "subscription_id", "is_active", "quantity"}]
SubscriptionItemsService ==
  [checked |-> {"subscription_id", "price_id"}, rechecked |-> {},
   remove |-> "is_active"]
SubscriptionItemsApi == {"create", "patch", "delete"}

-----------------------------------------------------------------------------
(* invoices *)

InvoicesDb ==
  [refs |-> [customer_id |-> "customers",
             subscription_id |-> "subscriptions"],
   keys |-> {{"number"}}, required |-> {"customer_id", "is_active"}]
InvoicesModel ==
  [columns |-> {"customer_id", "subscription_id", "number", "is_active", "status"},
   refs |-> [customer_id |-> "customers",
             subscription_id |-> "subscriptions"],
   keys |-> {{"number"}}, filled |-> {"is_active", "status"}]
InvoicesSchema ==
  [create |-> {"customer_id", "subscription_id", "number", "is_active", "status"},
   patch |-> {"number", "is_active", "status"},
   shown |-> {"customer_id", "is_active", "status"}]
InvoicesService ==
  [checked |-> {"customer_id", "subscription_id"}, rechecked |-> {},
   remove |-> "is_active"]
InvoicesApi == {"create", "patch", "delete"}
InvoicesWeb ==
  [create |-> {}, edit |-> {"number", "is_active", "status"}, delete |-> TRUE]

-----------------------------------------------------------------------------
(* invoice_items *)

InvoiceItemsDb ==
  [refs |-> [invoice_id |-> "invoices", price_id |-> "prices",
             subscription_item_id |-> "subscription_items"],
   keys |-> {}, required |-> {"invoice_id"}]
InvoiceItemsModel ==
  [columns |-> {"invoice_id", "price_id", "subscription_item_id", "quantity"},
   refs |-> [invoice_id |-> "invoices", price_id |-> "prices",
             subscription_item_id |-> "subscription_items"],
   keys |-> {}, filled |-> {"quantity"}]
InvoiceItemsSchema ==
  [create |-> {"invoice_id", "price_id", "subscription_item_id", "quantity"},
   patch |-> {"quantity"}, shown |-> {"invoice_id", "quantity"}]
InvoiceItemsService ==
  [checked |-> {"invoice_id", "price_id", "subscription_item_id"},
   rechecked |-> {}, remove |-> "row"]
InvoiceItemsApi == {"create", "patch", "delete"}

-----------------------------------------------------------------------------
(* payment_methods *)

PaymentMethodsDb ==
  [refs |-> [customer_id |-> "customers"], keys |-> {},
   required |-> {"customer_id", "is_active", "type"}]
PaymentMethodsModel ==
  [columns |-> {"customer_id", "is_active", "type", "is_default"},
   refs |-> [customer_id |-> "customers"], keys |-> {},
   filled |-> {"is_active", "is_default"}]
PaymentMethodsSchema ==
  [create |-> {"customer_id", "is_active", "type", "is_default"},
   patch |-> {"is_active", "type", "is_default"},
   shown |-> {"customer_id", "is_active", "type", "is_default"}]
PaymentMethodsService ==
  [checked |-> {"customer_id"}, rechecked |-> {}, remove |-> "is_active"]
PaymentMethodsApi == {"create", "patch", "delete"}
PaymentMethodsWeb == [create |-> {}, edit |-> {}, delete |-> TRUE]

-----------------------------------------------------------------------------
(* payment_intents *)

PaymentIntentsDb ==
  [refs |-> [customer_id |-> "customers", invoice_id |-> "invoices",
             payment_method_id |-> "payment_methods"],
   keys |-> {}, required |-> {"customer_id", "amount"}]
PaymentIntentsModel ==
  [columns |-> {"customer_id", "invoice_id", "payment_method_id", "amount", "status"},
   refs |-> [customer_id |-> "customers", invoice_id |-> "invoices",
             payment_method_id |-> "payment_methods"],
   keys |-> {}, filled |-> {"status"}]
PaymentIntentsSchema ==
  [create |-> {"customer_id", "invoice_id", "payment_method_id", "amount", "status"},
   patch |-> {"payment_method_id", "status"},
   shown |-> {"customer_id", "amount", "status"}]
PaymentIntentsService ==
  [checked |-> {"customer_id", "invoice_id", "payment_method_id"},
   rechecked |-> {}, remove |-> "none"]
PaymentIntentsApi == {"create", "patch"}

-----------------------------------------------------------------------------
(* usage_records *)

UsageRecordsDb ==
  [refs |-> [subscription_item_id |-> "subscription_items"],
   keys |-> {{"idempotency_key"}},
   required |-> {"subscription_item_id", "idempotency_key", "quantity"}]
UsageRecordsModel ==
  [columns |-> {"subscription_item_id", "idempotency_key", "quantity", "action"},
   refs |-> [subscription_item_id |-> "subscription_items"],
   keys |-> {{"idempotency_key"}}, filled |-> {"action"}]
UsageRecordsSchema ==
  [create |-> {"subscription_item_id", "idempotency_key", "quantity", "action"},
   patch |-> {},
   shown |-> {"subscription_item_id", "idempotency_key", "quantity", "action"}]
UsageRecordsService ==
  [checked |-> {"subscription_item_id"}, rechecked |-> {}, remove |-> "none"]
UsageRecordsApi == {"create"}

-----------------------------------------------------------------------------
(* coupons *)

CouponsDb ==
  [refs |-> NoRefs, keys |-> {{"code"}}, required |-> {"code", "name"}]
CouponsModel ==
  [columns |-> {"code", "valid", "name", "times_redeemed"}, refs |-> NoRefs,
   keys |-> {{"code"}}, filled |-> {"valid", "times_redeemed"}]
CouponsSchema ==
  [create |-> {"code", "valid", "name", "times_redeemed"},
   patch |-> {"valid", "name", "times_redeemed"},
   shown |-> {"code", "valid", "name", "times_redeemed"}]
CouponsService == [checked |-> {}, rechecked |-> {}, remove |-> "valid"]
CouponsApi == {"create", "patch", "delete"}
CouponsWeb ==
  [create |-> {"code", "valid", "name"}, edit |-> {"valid", "name"},
   delete |-> TRUE]

-----------------------------------------------------------------------------
(* discounts *)

DiscountsDb ==
  [refs |-> [coupon_id |-> "coupons", customer_id |-> "customers",
             subscription_id |-> "subscriptions"],
   keys |-> {}, required |-> {"coupon_id", "start"}]
DiscountsModel ==
  [columns |-> {"coupon_id", "customer_id", "subscription_id", "start", "end"},
   refs |-> [coupon_id |-> "coupons", customer_id |-> "customers",
             subscription_id |-> "subscriptions"],
   keys |-> {}, filled |-> {"start"}]
DiscountsSchema ==
  [create |-> {"coupon_id", "customer_id", "subscription_id", "start", "end"},
   patch |-> {}, shown |-> {"coupon_id"}]
DiscountsService ==
  [checked |-> {"coupon_id", "customer_id", "subscription_id"},
   rechecked |-> {}, remove |-> "row"]
DiscountsApi == {"create", "delete"}

-----------------------------------------------------------------------------
(* entitlements *)

EntitlementsDb ==
  [refs |-> [product_id |-> "products"],
   keys |-> {{"product_id", "feature_key"}},
   required |-> {"product_id", "feature_key", "value_type"}]
EntitlementsModel ==
  [columns |-> {"product_id", "feature_key", "value_type"},
   refs |-> [product_id |-> "products"],
   keys |-> {{"product_id", "feature_key"}}, filled |-> {}]
EntitlementsSchema ==
  [create |-> {"product_id", "feature_key", "value_type"},
   patch |-> {"feature_key", "value_type"},
   shown |-> {"product_id", "feature_key", "value_type"}]
EntitlementsService ==
  [checked |-> {"product_id"}, rechecked |-> {}, remove |-> "row"]
EntitlementsApi == {"create", "patch", "delete"}
EntitlementsWeb ==
  [create |-> {"product_id", "feature_key", "value_type"},
   edit |-> {"feature_key", "value_type"}, delete |-> TRUE]

-----------------------------------------------------------------------------
(* webhook_events *)

WebhookEventsDb ==
  [refs |-> NoRefs, keys |-> {{"event_id"}},
   required |-> {"event_id", "provider"}]
WebhookEventsModel ==
  [columns |-> {"event_id", "provider", "status"}, refs |-> NoRefs,
   keys |-> {{"event_id"}}, filled |-> {"status"}]
WebhookEventsSchema ==
  [create |-> {"event_id", "provider", "status"}, patch |-> {"status"},
   shown |-> {"event_id", "provider", "status"}]
WebhookEventsService == [checked |-> {}, rechecked |-> {}, remove |-> "none"]
WebhookEventsApi == {"create", "patch"}

-----------------------------------------------------------------------------
(* people *)

PeopleDb ==
  [refs |-> NoRefs, keys |-> {{"email"}},
   required |-> {"email", "first_name"}]
PeopleModel ==
  [columns |-> {"email", "first_name", "status"}, refs |-> NoRefs,
   keys |-> {{"email"}}, filled |-> {"status"}]
PeopleSchema ==
  [create |-> {"email", "first_name", "status"},
   patch |-> {"email", "first_name", "status"},
   shown |-> {"email", "first_name", "status"}]
PeopleService == [checked |-> {}, rechecked |-> {}, remove |-> "row"]
PeopleApi == {"create", "patch", "delete"}
PeopleWeb ==
  [create |-> {"email", "first_name", "status"},
   edit |-> {"email", "first_name", "status"}, delete |-> TRUE]

-----------------------------------------------------------------------------
(* user_credentials *)

UserCredentialsDb ==
  [refs |-> [person_id |-> "people"], keys |-> {},
   required |-> {"person_id", "is_active", "provider"}]
UserCredentialsModel ==
  [columns |-> {"person_id", "is_active", "provider"},
   refs |-> [person_id |-> "people"], keys |-> {},
   filled |-> {"is_active", "provider"}]
UserCredentialsSchema ==
  [create |-> {"person_id", "is_active", "provider"},
   patch |-> {"person_id", "is_active", "provider"},
   shown |-> {"person_id", "is_active", "provider"}]
UserCredentialsService ==
  [checked |-> {"person_id"}, rechecked |-> {"person_id"},
   remove |-> "is_active"]
UserCredentialsApi == {"create", "patch", "delete"}

-----------------------------------------------------------------------------
(* sessions *)

SessionsDb ==
  [refs |-> [person_id |-> "people"], keys |-> {},
   required |-> {"person_id", "status", "token_hash"}]
SessionsModel ==
  [columns |-> {"person_id", "status", "token_hash"},
   refs |-> [person_id |-> "people"], keys |-> {}, filled |-> {"status"}]
SessionsSchema ==
  [create |-> {"person_id", "status", "token_hash"},
   patch |-> {"person_id", "status", "token_hash"},
   shown |-> {"person_id", "status", "token_hash"}]
SessionsService ==
  [checked |-> {"person_id"}, rechecked |-> {"person_id"},
   remove |-> "status"]
SessionsApi == {"create", "patch", "delete"}

-----------------------------------------------------------------------------
(* api_keys *)

ApiKeysDb ==
  [refs |-> [person_id |-> "people"], keys |-> {},
   required |-> {"is_active", "key_hash"}]
ApiKeysModel ==
  [columns |-> {"person_id", "is_active", "key_hash"},
   refs |-> [person_id |-> "people"], keys |-> {}, filled |-> {"is_active"}]
ApiKeysSchema ==
  [create |-> {"person_id", "is_active", "key_hash"},
   patch |-> {"person_id", "is_active", "key_hash"},
   shown |-> {"is_active", "key_hash"}]
ApiKeysService ==
  [checked |-> {"person_id"}, rechecked |-> {"person_id"},
   remove |-> "is_active"]
ApiKeysApi == {"create", "patch", "delete"}

-----------------------------------------------------------------------------
(* roles *)

RolesDb ==
  [refs |-> NoRefs, keys |-> {{"name"}}, required |-> {"name", "is_active"}]
RolesModel ==
  [columns |-> {"name", "is_active", "description"}, refs |-> NoRefs,
   keys |-> {{"name"}}, filled |-> {"is_active"}]
RolesSchema ==
  [create |-> {"name", "is_active", "description"},
   patch |-> {"name", "is_active", "description"},
   shown |-> {"name", "is_active"}]
RolesService == [checked |-> {}, rechecked |-> {}, remove |-> "is_active"]
RolesApi == {"create", "patch", "delete"}

-----------------------------------------------------------------------------
(* permissions *)

PermissionsDb ==
  [refs |-> NoRefs, keys |-> {{"key"}}, required |-> {"key", "is_active"}]
PermissionsModel ==
  [columns |-> {"key", "is_active", "description"}, refs |-> NoRefs,
   keys |-> {{"key"}}, filled |-> {"is_active"}]
PermissionsSchema ==
  [create |-> {"key", "is_active", "description"},
   patch |-> {"key", "is_active", "description"},
   shown |-> {"key", "is_active"}]
PermissionsService ==
  [checked |-> {}, rechecked |-> {}, remove |-> "is_active"]
PermissionsApi == {"create", "patch", "delete"}
PermissionsWeb ==
  [create |-> {"key", "is_active", "description"},
   edit |-> {"key", "is_active", "description"}, delete |-> TRUE]

-----------------------------------------------------------------------------
(* role_permissions *)

RolePermissionsDb ==
  [refs |-> [permission_id |-> "permissions", role_id |-> "roles"],
   keys |-> {{"role_id", "permission_id"}},
   required |-> {"permission_id", "role_id"}]
RolePermissionsModel ==
  [columns |-> {"permission_id", "role_id"},
   refs |-> [permission_id |-> "permissions", role_id |-> "roles"],
   keys |-> {{"role_id", "permission_id"}}, filled |-> {}]
RolePermissionsSchema ==
  [create |-> {"permission_id", "role_id"},
   patch |-> {"permission_id", "role_id"},
   shown |-> {"permission_id", "role_id"}]
RolePermissionsService ==
  [checked |-> {"role_id", "permission_id"},
   rechecked |-> {"role_id", "permission_id"}, remove |-> "row"]
RolePermissionsApi == {"create", "patch", "delete"}

-----------------------------------------------------------------------------
(* person_roles *)

PersonRolesDb ==
  [refs |-> [person_id |-> "people", role_id |-> "roles"],
   keys |-> {{"person_id", "role_id"}}, required |-> {"person_id", "role_id"}]
PersonRolesModel ==
  [columns |-> {"person_id", "role_id"},
   refs |-> [person_id |-> "people", role_id |-> "roles"],
   keys |-> {{"person_id", "role_id"}}, filled |-> {}]
PersonRolesSchema ==
  [create |-> {"person_id", "role_id"}, patch |-> {"person_id", "role_id"},
   shown |-> {"person_id", "role_id"}]
PersonRolesService ==
  [checked |-> {"person_id", "role_id"},
   rechecked |-> {"person_id", "role_id"}, remove |-> "row"]
PersonRolesApi == {"create", "patch", "delete"}

-----------------------------------------------------------------------------
(* scheduled_tasks *)

ScheduledTasksDb ==
  [refs |-> NoRefs, keys |-> {}, required |-> {"name", "enabled"}]
ScheduledTasksModel ==
  [columns |-> {"name", "enabled"}, refs |-> NoRefs, keys |-> {},
   filled |-> {"enabled"}]
ScheduledTasksSchema ==
  [create |-> {"name", "enabled"}, patch |-> {"name", "enabled"},
   shown |-> {"name", "enabled"}]
ScheduledTasksService == [checked |-> {}, rechecked |-> {}, remove |-> "row"]
ScheduledTasksApi == {"create", "patch", "delete"}
ScheduledTasksWeb ==
  [create |-> {"name", "enabled"}, edit |-> {"name", "enabled"},
   delete |-> TRUE]

-----------------------------------------------------------------------------
Entry(db, model, schema, service, api, web) ==
  [db |-> db, model |-> model, schema |-> schema, service |-> service,
   api |-> api, web |-> web]

Catalogue ==
  [products |->
     Entry(ProductsDb, ProductsModel, ProductsSchema,
           ProductsService, ProductsApi, ProductsWeb),
   prices |->
     Entry(PricesDb, PricesModel, PricesSchema,
           PricesService, PricesApi, PricesWeb),
   customers |->
     Entry(CustomersDb, CustomersModel, CustomersSchema,
           CustomersService, CustomersApi, CustomersWeb),
   subscriptions |->
     Entry(SubscriptionsDb, SubscriptionsModel, SubscriptionsSchema,
           SubscriptionsService, SubscriptionsApi, SubscriptionsWeb),
   subscription_items |->
     Entry(SubscriptionItemsDb, SubscriptionItemsModel, SubscriptionItemsSchema,
           SubscriptionItemsService, SubscriptionItemsApi, NoPages),
   invoices |->
     Entry(InvoicesDb, InvoicesModel, InvoicesSchema,
           InvoicesService, InvoicesApi, InvoicesWeb),
   invoice_items |->
     Entry(InvoiceItemsDb, InvoiceItemsModel, InvoiceItemsSchema,
           InvoiceItemsService, InvoiceItemsApi, NoPages),
   payment_methods |->
     Entry(PaymentMethodsDb, PaymentMethodsModel, PaymentMethodsSchema,
           PaymentMethodsService, PaymentMethodsApi, PaymentMethodsWeb),
   payment_intents |->
     Entry(PaymentIntentsDb, PaymentIntentsModel, PaymentIntentsSchema,
           PaymentIntentsService, PaymentIntentsApi, NoPages),
   usage_records |->
     Entry(UsageRecordsDb, UsageRecordsModel, UsageRecordsSchema,
           UsageRecordsService, UsageRecordsApi, NoPages),
   coupons |->
     Entry(CouponsDb, CouponsModel, CouponsSchema,
           CouponsService, CouponsApi, CouponsWeb),
   discounts |->
     Entry(DiscountsDb, DiscountsModel, DiscountsSchema,
           DiscountsService, DiscountsApi, NoPages),
   entitlements |->
     Entry(EntitlementsDb, EntitlementsModel, EntitlementsSchema,
           EntitlementsService, EntitlementsApi, EntitlementsWeb),
   webhook_events |->
     Entry(WebhookEventsDb, WebhookEventsModel, WebhookEventsSchema,
           WebhookEventsService, WebhookEventsApi, NoPages),
   people |->
     Entry(PeopleDb, PeopleModel, PeopleSchema,
           PeopleService, PeopleApi, PeopleWeb),
   user_credentials |->
     Entry(UserCredentialsDb, UserCredentialsModel, UserCredentialsSchema,
           UserCredentialsService, UserCredentialsApi, NoPages),
   sessions |->
     Entry(SessionsDb, SessionsModel, SessionsSchema,
           SessionsService, SessionsApi, NoPages),
   api_keys |->
     Entry(ApiKeysDb, ApiKeysModel, ApiKeysSchema,
           ApiKeysService, ApiKeysApi, NoPages),
   roles |->
     Entry(RolesDb, RolesModel, RolesSchema,
           RolesService, RolesApi, NoPages),
   permissions |->
     Entry(PermissionsDb, PermissionsModel, PermissionsSchema,
           PermissionsService, PermissionsApi, PermissionsWeb),
   role_permissions |->
     Entry(RolePermissionsDb, RolePermissionsModel, RolePermissionsSchema,
           RolePermissionsService, RolePermissionsApi, NoPages),
   person_roles |->
     Entry(PersonRolesDb, PersonRolesModel, PersonRolesSchema,
           PersonRolesService, PersonRolesApi, NoPages),
   scheduled_tasks |->
     Entry(ScheduledTasksDb, ScheduledTasksModel, ScheduledTasksSchema,
           ScheduledTasksService, ScheduledTasksApi, ScheduledTasksWeb)]

Tables == DOMAIN Catalogue

(* The ORM classes and the migrations declare the same foreign keys and     *)
(* unique keys.  They differ in which columns may be null.                  *)
ASSUME ModelsMatchMigrations ==
  \A t \in Tables :
    /\ Catalogue[t].model.refs = Catalogue[t].db.refs
    /\ Catalogue[t].model.keys = Catalogue[t].db.keys

(* References, NOT NULL columns and the columns of a form are columns of    *)
(* the ORM class.                                                           *)
ASSUME ColumnsDeclared ==
  \A t \in Tables :
    DOMAIN Catalogue[t].db.refs \cup Catalogue[t].db.required \cup Catalogue[t].web.edit
      \subseteq Catalogue[t].model.columns

=============================================================================
