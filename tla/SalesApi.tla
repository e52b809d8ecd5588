------------------------------ MODULE SalesApi ------------------------------
(* The endpoints of modules/sales/api/salesApi.ts and their cache tags. What  *)
(* a call writes is what the sales service does.                              *)
EXTENDS ApiEndpoints

LOCAL S == "sales"

SalesCustomers == Crud(S, "SalesCustomer", "getCustomers", "getCustomer",
                       "createCustomer", "updateCustomer", "deleteCustomer")

SalesAddresses ==
    Table({ListView(S, "getAddresses", "Address")},
          {CreateCall(S, "createAddress", "Address"),
           UpdateCall(S, "updateAddress", "Address"),
           DeleteCall(S, "deleteAddress", "Address")})

SalesCategories == Crud(S, "Category", "getCategories", "getCategory",
                        "createCategory", "updateCategory", "deleteCategory")

SalesFacilities == Crud(S, "Facility", "getFacilities", "getFacility",
                        "createFacility", "updateFacility", "deleteFacility")

SalesInventory ==
    Crud(S, "InventoryItem", "getInventoryItems", "getInventoryItem",
         "createInventoryItem", "updateInventoryItem", "deleteInventoryItem")

SalesProducts == Crud(S, "Product", "getProducts", "getProduct",
                      "createProduct", "updateProduct", "deleteProduct")

\* An order allocates stock: creating, approving, cancelling or deleting it, and
\* adding or deleting an item, writes inventory items as well. The calls
\* invalidate orders only.
Stock == Old("InventoryItem")

SalesOrders ==
    Table({ListView(S, "getOrders", "Order"), DetailView(S, "getOrder", "Order")},
          {AlsoWriting(CreateCall(S, "createOrder", "Order"), Stock),
           UpdateCall(S, "updateOrder", "Order"),
           AlsoWriting(DeleteCall(S, "deleteOrder", "Order"), Stock)}
          \cup {AlsoWriting(UpdateCall(S, name, "Order"), Stock) :
                  name \in {"addProductToOrder", "deleteProductFromOrder",
                            "approveOrder", "cancelOrder"}})

SalesTable == Merged({SalesCustomers, SalesAddresses, SalesCategories, SalesFacilities,
                      SalesInventory, SalesProducts, SalesOrders})
=============================================================================
