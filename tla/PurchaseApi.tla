---------------------------- MODULE PurchaseApi -----------------------------
(* The endpoints of modules/purchase/api/purchaseApi.ts and their cache tags. *)
EXTENDS ApiEndpoints

LOCAL P == "purchase"

PurchaseSuppliers ==
    Crud(P, "PurchaseSupplier", "getSuppliers", "getSupplier",
         "createSupplier", "updateSupplier", "deleteSupplier")

PurchaseAddresses ==
    Table({ListView(P, "getAddressesByEntity", "PurchaseAddress")},
          {CreateCall(P, "createAddress", "PurchaseAddress"),
           UpdateCall(P, "updateAddress", "PurchaseAddress")})

PurchaseCategories ==
    Crud(P, "PurchaseCategory", "getCategories", "getCategory",
         "createCategory", "updateCategory", "deleteCategory")

PurchaseFacilities ==
    Crud(P, "PurchaseFacility", "getFacilities", "getFacility",
         "createFacility", "updateFacility", "deleteFacility")

PurchaseProducts ==
    Crud(P, "PurchaseProduct", "getProducts", "getProduct",
         "createProduct", "updateProduct", "deleteProduct")

\* The calls on the items of an order name the order and not the list: the list
\* hears of them through the tag of the row.
PurchaseOrders ==
    LET crud == Crud(P, "PurchaseOrder", "getOrders", "getOrder",
                     "createOrder", "updateOrder", "deleteOrder")
    IN  Table(crud.views,
              crud.calls
              \cup {UpdateCall(P, name, "PurchaseOrder") :
                      name \in {"approveOrder", "cancelOrder"}}
              \cup {Call(P, name, Old("PurchaseOrder"), Old("PurchaseOrder")) :
                      name \in {"addProductToOrder", "updateProductInOrder",
                                "deleteProductFromOrder"}})

PurchaseShipments ==
    ReadOnly(P, "PurchaseShipment", "getShipmentsByOrder", "getShipment")

PurchaseTable ==
    Merged({PurchaseSuppliers, PurchaseAddresses, PurchaseCategories, PurchaseFacilities,
            PurchaseProducts, PurchaseOrders, PurchaseShipments})
=============================================================================
