---------------------------- MODULE LogisticsApi ----------------------------
(* The endpoints of modules/logistics/api/logisticsApi.ts and their cache     *)
(* tags. What a call writes is what the logistics service does.               *)
EXTENDS ApiEndpoints

LOCAL L == "logistics"

LogisticsAddresses ==
    Table({ListView(L, "getAddressesByEntity", "logistics/Address")},
          {CreateCall(L, "createAddress", "logistics/Address"),
           UpdateCall(L, "updateAddress", "logistics/Address")})

LogisticsCategories ==
    Crud(L, "logistics/Category", "getCategories", "getCategory",
         "createCategory", "updateCategory", "deleteCategory")

LogisticsCustomers == ReadOnly(L, "logistics/Customer", "getCustomers", "getCustomer")

LogisticsFacilities ==
    Crud(L, "logistics/Facility", "getFacilities", "getFacility",
         "createFacility", "updateFacility", "deleteFacility")

LogisticsInventory ==
    Crud(L, "logistics/InventoryItem", "getInventoryItems", "getInventoryItem",
         "createInventoryItem", "updateInventoryItem", "deleteInventoryItem")

LogisticsOrders == ReadOnly(L, "logistics/Order", "getOrders", "getOrder")

LogisticsProducts ==
    Crud(L, "logistics/Product", "getProducts", "getProduct",
         "createProduct", "updateProduct", "deleteProduct")

LogisticsSuppliers == ReadOnly(L, "logistics/Supplier", "getSuppliers", "getSupplier")

\* Importing a shipment also writes its inventory items, the order it belongs to
\* when that is fully delivered, and tells the cache of the shipment and of the
\* list of inventory items.
ImportShipment ==
    LET import == UpdateCall(L, "importShipment", "logistics/Shipment")
    IN  AlsoWriting([import EXCEPT !.invalidates = @ \cup ListTag("logistics/InventoryItem")],
                    Old("logistics/InventoryItem") \cup Old("logistics/Order"))

LogisticsShipments ==
    Table({ListView(L, "getShipments", "logistics/Shipment"),
           DetailView(L, "getShipment", "logistics/Shipment")},
          {CreateCall(L, "createShipment", "logistics/Shipment"),
           DeleteCall(L, "deleteShipment", "logistics/Shipment"), ImportShipment}
          \cup {UpdateCall(L, name, "logistics/Shipment") :
                  name \in {"updateShipment", "addItemToShipment",
                            "updateItemInShipment", "deleteItemFromShipment"}})

LogisticsTable ==
    Merged({LogisticsAddresses, LogisticsCategories, LogisticsCustomers, LogisticsFacilities,
            LogisticsInventory, LogisticsOrders, LogisticsProducts, LogisticsShipments,
            LogisticsSuppliers})
=============================================================================
